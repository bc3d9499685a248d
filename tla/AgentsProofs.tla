---------------------------- MODULE AgentsProofs ----------------------------
(***************************************************************************)
(* Theorems of Agents and of Memory, the agents of the chats and what      *)
(* their passes keep for him.                                              *)
(*                                                                         *)
(* Of Agents, for any chats and any commands of a window used with care:   *)
(* an agent is one chat's, a turn runs its own chat's conversation, an age *)
(* kills only the process it is of, and what nothing of the rail or the    *)
(* list overlaps resumes what the chat's log last recorded.                *)
(*                                                                         *)
(* Of Memory, for any processes, chats, calls of the tool and faults: the  *)
(* always-loaded file stays his; nothing that was said is passed over on   *)
(* its way to the inbox or from there, nor, while no pass ends early,      *)
(* observed or filed twice.                                                *)
(***************************************************************************)
EXTENDS Memory, Agents, FiniteSetTheorems, TLAPS

(***************************************************************************)
(* Agents: what is true of the agents, the index and the commands while he *)
(* uses the window with care.  It is inductive, and it gives OwnAgents and *)
(* OnlyItsOwnTimer.                                                        *)
(***************************************************************************)

Stages == {"idle", "found", "making", "read", "waiting", "locked", "chosen", "named", "turn",
           "running", "opened", "adopting", "forgetting", "connecting", "windowed", "built"}

AgentCommand ==
    [at : Stages, kind : {"", "send", "warm", "open"}, aim : Targets, chat : Targets,
     slot : Slots \cup {0}, read : Talks, runs : Talks]

Entry == [slot : Slots \cup {0}, current : BOOLEAN]

Warm == [key : Talks, n : 0..MaxFills]

Agent == [resume : Talks, warm : Warm, fills : 0..MaxFills, timers : SUBSET (1..MaxFills)]

AgentsTyped ==
    /\ use \in Uses
    /\ focus \in Targets /\ fromNew \in Targets /\ live \subseteq Ids
    /\ log \in [Ids -> Talks] /\ spec \in Talks \cup {Off}
    /\ entry \in [Targets -> Entry]
    /\ agent \in [Slots -> Agent]
    /\ commands \in [Commands -> AgentCommand]

\* Where a command has an agent, and where a send has chosen its chat.
HasAgent == {"found", "waiting"} \cup WithAgent
HasChosen == {"chosen", "named", "turn", "running"}

WellAt(c) ==
    /\ commands[c].slot # 0 <=> commands[c].at \in HasAgent
    /\ commands[c].at \in HasChosen \cup {"waiting"} => commands[c].kind = "send"
    /\ commands[c].kind = "send" => commands[c].at \in {"making", "read"} \cup HasAgent
    /\ commands[c].at \in HasChosen => commands[c].chat = commands[c].aim /\ commands[c].aim \in Ids

\* A conversation a chat may continue: its own, or none yet.
Own(r, p) == r = None \/ r.of = p

\* What a command has read of a log is of the chat it will be used for.
ReadOwn(c) ==
    /\ commands[c].at = "read" => Own(commands[c].read, commands[c].aim)
    /\ commands[c].at \in {"connecting", "windowed", "built", "adopting"} =>
           Own(commands[c].read, focus)
    /\ commands[c].at = "opened" => commands[c].aim = focus /\ focus \in Ids
    /\ commands[c].at = "running" => Own(commands[c].runs, commands[c].chat)

SendsWith(c, s) == commands[c].kind = "send" /\ commands[c].slot = s

\* A send has its agent for the chat it is about: the index has that agent for
\* no other chat, save for New chat until the chat just made is given it.
HasOwn(c) ==
    \A s \in Slots : SendsWith(c, s) =>
        /\ Own(agent[s].resume, commands[c].aim)
        /\ \A p \in Targets : entry[p].slot = s =>
               p = commands[c].aim \/ (p = New /\ commands[c].at = "named")

\* Two sends that have one agent are about one chat.
SharedAgent ==
    \A c, d \in Commands, s \in Slots :
        SendsWith(c, s) /\ SendsWith(d, s) => commands[c].aim = commands[d].aim

EntryOwn == \A p \in Targets, s \in Slots : entry[p].slot = s => Own(agent[s].resume, p)

NoHalfEntry == \A p \in Targets : entry[p].slot = 0 => entry[p] = NoEntry

LogOwn == \A i \in Ids : Own(log[i], i)

\* One send at New chat, which is open, or left without a chat made from it.
OneMaking ==
    /\ \A c, d \in Commands : Making(c) /\ Making(d) => c = d
    /\ \A c \in Commands : commands[c].kind = "send" /\ commands[c].aim = New =>
           focus = New \/ focus # fromNew

OneAtTheRail ==
    \A c, d \in Commands : commands[c].at \in AtTheRail /\ commands[d].at \in AtTheRail => c = d

Used(s) == (\E p \in Targets : entry[p].slot = s) \/ (\E c \in Commands : commands[c].slot = s)

\* An agent nobody has is dropped.
DroppedIsReset == \A s \in Slots : ~Used(s) => agent[s] = NewAgent(None)

AgentsInv ==
    /\ AgentsTyped
    /\ \A c \in Commands : WellAt(c) /\ ReadOwn(c) /\ HasOwn(c)
    /\ SharedAgent /\ EntryOwn /\ NoHalfEntry /\ LogOwn /\ OneMaking /\ OneAtTheRail
    /\ DroppedIsReset /\ OneChatPerAgent

UsedWithCare == \A s \in Uses : "careful" \in s

Others(c) == \A d \in Commands : d # c => commands'[d] = commands[d]

LEMMA AgentBasics ==
    /\ None \in Talks /\ None.of = New /\ New \notin Ids /\ New \in Targets /\ Ids \subseteq Targets
    /\ \A s \in Slots : s # 0
    /\ NoEntry \in Entry /\ NoEntry.slot = 0
    /\ \A r \in Talks : /\ NewAgent(r) \in Agent /\ NewAgent(r).resume = r
                        /\ NewAgent(r).warm = NoWarm /\ NewAgent(r).timers = {}
    /\ NoWarm \in Warm
    /\ Idle \in AgentCommand /\ Idle.at = "idle" /\ Idle.slot = 0 /\ Idle.kind = "" /\ Idle.aim = New
    /\ \A r \in Talks : r.of = New => r = None
<1>1. /\ None \in Talks /\ None.of = New /\ New \notin Ids /\ New \in Targets
      /\ Ids \subseteq Targets
    BY AgentsAssumption DEF None, Talks, Targets
<1>2. Cardinality(Ids) \in Nat /\ Cardinality(Commands) \in Nat
    BY AgentsAssumption, FS_CardinalityType
<1>3. \A s \in Slots : s # 0
    BY <1>2 DEF Slots
<1>4. NoEntry \in Entry /\ NoEntry.slot = 0
    BY DEF NoEntry, Entry
<1>5. NoWarm \in Warm
    BY <1>1, AgentsAssumption DEF NoWarm, Warm
<1>6. \A r \in Talks : /\ NewAgent(r) \in Agent /\ NewAgent(r).resume = r
                       /\ NewAgent(r).warm = NoWarm /\ NewAgent(r).timers = {}
    BY <1>5, AgentsAssumption DEF NewAgent, Agent
<1>7. Idle \in AgentCommand /\ Idle.at = "idle" /\ Idle.slot = 0 /\ Idle.kind = "" /\ Idle.aim = New
    BY <1>1 DEF Idle, AgentCommand, Stages
<1>8. \A r \in Talks : r.of = New => r = None
    BY <1>1 DEF Talks
<1> QED BY <1>1, <1>3, <1>4, <1>5, <1>6, <1>7, <1>8

\* A function to a bounded number takes no more values than it has arguments.
LEMMA ValuesAreFew ==
    ASSUME NEW S, IsFiniteSet(S), NEW n \in Nat, NEW f \in [S -> 0..n],
           NEW T, T = {f[x] : x \in S}
    PROVE  IsFiniteSet(T) /\ Cardinality(T) <= Cardinality(S)
<1>1. IsFiniteSet(T)
    <2>1. IsFiniteSet(0..n)
        BY FS_Interval
    <2>2. T \in SUBSET (0..n)
        OBVIOUS
    <2> QED BY <2>1, <2>2, FS_Subset
<1>2. Cardinality(S) \in Nat /\ Cardinality(T) \in Nat
    BY <1>1, FS_CardinalityType
<1>3. ~(Cardinality(S) < Cardinality(T))
    <2> DEFINE arg(t) == CHOOSE x \in S : f[x] = t
               h == [t \in T |-> arg(t)]
    <2>1. ASSUME NEW t \in T
          PROVE  arg(t) \in S /\ f[arg(t)] = t
        <3>1. \E x \in S : f[x] = t
            OBVIOUS
        <3> QED BY <3>1
    <2> HIDE DEF arg
    <2>2. h \in [T -> S] /\ \A t \in T : h[t] = arg(t)
        BY <2>1
    <2> HIDE DEF h
    <2> SUFFICES ASSUME Cardinality(S) < Cardinality(T) PROVE FALSE
        OBVIOUS
    <2>3. \E t, u \in T : t # u /\ h[t] = h[u]
        BY <1>1, <2>2, FS_PigeonHole
    <2> QED BY <2>1, <2>2, <2>3
<1> QED BY <1>1, <1>2, <1>3

\* There is an agent to make: a command that has none leaves one of the slots.
LEMMA UnusedIs ==
    ASSUME AgentsTyped, NEW c \in Commands, commands[c].slot = 0
    PROVE  Unused \in Slots /\ ~Used(Unused)
<1> DEFINE I == Cardinality(Ids)
           N == Cardinality(Commands)
           others == Commands \ {c}
           f == [p \in Targets |-> entry[p].slot]
           g == [d \in others |-> commands[d].slot]
           T == {f[p] : p \in Targets}
           U == {g[d] : d \in others}
<1>1. IsFiniteSet(Ids) /\ IsFiniteSet(Commands) /\ I \in Nat /\ N \in Nat
    BY AgentsAssumption, FS_CardinalityType
<1>2. IsFiniteSet(Targets) /\ Cardinality(Targets) = I + 1
    BY <1>1, AgentsAssumption, FS_AddElement DEF Targets
<1>3. IsFiniteSet(others) /\ Cardinality(others) = N - 1
    BY <1>1, FS_RemoveElement
<1>4. IsFiniteSet(T) /\ Cardinality(T) <= I + 1
    <2>1. Slots \cup {0} \subseteq 0..I + 1 + N /\ I + 1 + N \in Nat
        BY <1>1 DEF Slots
    <2>2. \A p \in Targets : entry[p].slot \in Slots \cup {0}
        BY DEF AgentsTyped, Entry
    <2>3. f \in [Targets -> 0..I + 1 + N]
        BY <2>1, <2>2
    <2> HIDE DEF f, I, N
    <2> QED BY <1>2, <2>1, <2>3, ValuesAreFew
<1>5. IsFiniteSet(U) /\ Cardinality(U) <= N - 1
    <2>1. Slots \cup {0} \subseteq 0..I + 1 + N /\ I + 1 + N \in Nat
        BY <1>1 DEF Slots
    <2>2. \A d \in Commands : commands[d].slot \in Slots \cup {0}
        BY DEF AgentsTyped, AgentCommand
    <2>3. g \in [others -> 0..I + 1 + N]
        BY <2>1, <2>2
    <2> HIDE DEF g, I, N, others
    <2> QED BY <1>3, <2>1, <2>3, ValuesAreFew
<1>6. IsFiniteSet(T \cup U) /\ Cardinality(T \cup U) <= I + N
    <2> HIDE DEF T, U, I, N
    <2>1. /\ IsFiniteSet(T \cup U)
          /\ Cardinality(T \cup U) = Cardinality(T) + Cardinality(U) - Cardinality(T \cap U)
        BY <1>4, <1>5, FS_Union
    <2>2. IsFiniteSet(T \cap U)
        BY <1>4, FS_Intersection
    <2>3. /\ Cardinality(T \cap U) \in Nat /\ Cardinality(T) \in Nat /\ Cardinality(U) \in Nat
        BY <1>4, <1>5, <2>2, FS_CardinalityType
    <2> QED BY <1>1, <1>4, <1>5, <2>1, <2>3
<1>7. IsFiniteSet(Slots) /\ Cardinality(Slots) = I + 1 + N
    <2>1. /\ 1 \in Int /\ I + 1 + N \in Int /\ ~(1 > I + 1 + N)
          /\ (I + 1 + N) - 1 + 1 = I + 1 + N
        BY <1>1
    <2> QED BY <2>1, FS_Interval DEF Slots
<1>8. ~(Slots \subseteq T \cup U)
    <2> HIDE DEF T, U, I, N
    <2> SUFFICES ASSUME Slots \subseteq T \cup U PROVE FALSE
        OBVIOUS
    <2>1. Cardinality(Slots) <= Cardinality(T \cup U)
        BY <1>6, FS_Subset
    <2>2. Cardinality(T \cup U) \in Nat
        BY <1>6, FS_CardinalityType
    <2> QED BY <1>1, <1>6, <1>7, <2>1, <2>2
<1>9. PICK s \in Slots : s \notin T \cup U
    BY <1>8
<1>10. \A p \in Targets : entry[p].slot # s
    BY <1>9
<1>11. ASSUME NEW d \in Commands PROVE commands[d].slot # s
    <2>1. CASE d = c
        <3>1. s # 0
            BY AgentBasics
        <3> QED BY <2>1, <3>1
    <2>2. CASE d # c
        <3>1. g[d] \in U /\ g[d] = commands[d].slot
            BY <2>2
        <3> QED BY <1>9, <3>1
    <2> QED BY <2>1, <2>2
<1>12. ~Kept(s, entry, commands)
    BY <1>10, <1>11 DEF Kept
<1>13. Unused \in Slots /\ ~Kept(Unused, entry, commands)
    <2> HIDE DEF f, g, T, U, I, N
    <2> QED BY <1>9, <1>12 DEF Unused
<1> QED BY <1>13 DEF Kept, Used

\* What Become does: the agents that are kept are those of a.
LEMMA BecomeIs ==
    ASSUME NEW e, NEW a \in [Slots -> Agent], NEW cs, Become(e, a, cs)
    PROVE  /\ entry' = e /\ commands' = cs
           /\ agent' \in [Slots -> Agent]
           /\ \A s \in Slots : agent'[s] = IF Used(s)' THEN a[s] ELSE NewAgent(None)
           /\ DroppedIsReset'
<1>1. entry' = e /\ commands' = cs
    BY DEF Become
<1>2. agent' = [s \in Slots |-> IF Kept(s, e, cs) THEN a[s] ELSE NewAgent(None)]
    BY DEF Become
<1>3. agent' \in [Slots -> Agent]
    BY <1>2, AgentBasics
<1>4. \A s \in Slots : agent'[s] = IF Used(s)' THEN a[s] ELSE NewAgent(None)
    BY <1>1, <1>2 DEF Used, Kept
<1>5. DroppedIsReset'
    BY <1>4 DEF DroppedIsReset
<1> QED BY <1>1, <1>3, <1>4, <1>5

\* Command c becomes x, and no other moves.
LEMMA CommandBecomes ==
    ASSUME AgentsTyped, NEW c \in Commands, NEW x \in AgentCommand,
           commands' = [commands EXCEPT ![c] = x]
    PROVE  /\ commands' \in [Commands -> AgentCommand] /\ commands'[c] = x
           /\ Others(c)
BY DEF AgentsTyped, Others

LEMMA MovedIs ==
    ASSUME AgentsTyped, NEW c \in Commands, NEW stage \in Stages
    PROVE  /\ Moved(c, stage) \in [Commands -> AgentCommand]
           /\ Moved(c, stage)[c].at = stage /\ Moved(c, stage)[c].kind = commands[c].kind
           /\ Moved(c, stage)[c].aim = commands[c].aim /\ Moved(c, stage)[c].chat = commands[c].chat
           /\ Moved(c, stage)[c].slot = commands[c].slot /\ Moved(c, stage)[c].read = commands[c].read
           /\ Moved(c, stage)[c].runs = commands[c].runs
           /\ \A d \in Commands : d # c => Moved(c, stage)[d] = commands[d]
<1>1. commands[c] \in AgentCommand
    BY DEF AgentsTyped
<1>2. PICK x \in AgentCommand : x = commands[c]
    BY <1>1
<1>3. [x EXCEPT !.at = stage] \in AgentCommand
    BY DEF AgentCommand
<1>4. Moved(c, stage) = [commands EXCEPT ![c] = [x EXCEPT !.at = stage]]
    BY <1>2 DEF Moved
<1>5. Moved(c, stage)[c] = [x EXCEPT !.at = stage]
    BY <1>4 DEF AgentsTyped
<1>6. Moved(c, stage) \in [Commands -> AgentCommand]
    BY <1>3, <1>4 DEF AgentsTyped
<1>7. \A d \in Commands : d # c => Moved(c, stage)[d] = commands[d]
    BY <1>4 DEF AgentsTyped
<1> QED BY <1>2, <1>5, <1>6, <1>7 DEF AgentCommand

LEMMA DoneIsIdle ==
    ASSUME AgentsTyped, NEW c \in Commands
    PROVE  /\ Done(c) \in [Commands -> AgentCommand] /\ Done(c)[c] = Idle
           /\ \A d \in Commands : d # c => Done(c)[d] = commands[d]
BY AgentBasics DEF AgentsTyped, Done

\* A command that goes on with something more.
AtReading(c, stage, r) == [Moved(c, stage) EXCEPT ![c].read = r]

AtRunning(c, stage, r) == [Moved(c, stage) EXCEPT ![c].runs = r]

AtAiming(c, stage, p) == [Moved(c, stage) EXCEPT ![c].aim = p]

AtChoosing(c, stage, i) == [Moved(c, stage) EXCEPT ![c].chat = i, ![c].aim = i]

AtFinding(c, s) == [Moved(c, "found") EXCEPT ![c].slot = s, ![c].read = None]

LEMMA MovedReading ==
    ASSUME AgentsTyped, NEW c \in Commands, NEW stage \in Stages, NEW r \in Talks
    PROVE  /\ AtReading(c, stage, r) \in [Commands -> AgentCommand]
           /\ \A d \in Commands : d # c => AtReading(c, stage, r)[d] = commands[d]
           /\ AtReading(c, stage, r)[c].at = stage /\ AtReading(c, stage, r)[c].kind = commands[c].kind
           /\ AtReading(c, stage, r)[c].aim = commands[c].aim
           /\ AtReading(c, stage, r)[c].chat = commands[c].chat
           /\ AtReading(c, stage, r)[c].slot = commands[c].slot /\ AtReading(c, stage, r)[c].read = r
<1>1. PICK x \in AgentCommand : x = Moved(c, stage)[c]
    BY MovedIs
<1> DEFINE y == [x EXCEPT !.read = r]
<1>2. /\ y \in AgentCommand /\ y.at = x.at /\ y.kind = x.kind /\ y.aim = x.aim /\ y.chat = x.chat
      /\ y.slot = x.slot /\ y.read = r
    BY DEF AgentCommand
<1>3. PICK m \in [Commands -> AgentCommand] : m = Moved(c, stage)
    BY MovedIs
<1>4. AtReading(c, stage, r) = [m EXCEPT ![c] = y]
    BY <1>1, <1>3 DEF AtReading
<1> HIDE DEF y
<1>5. /\ AtReading(c, stage, r) \in [Commands -> AgentCommand]
      /\ AtReading(c, stage, r)[c] = y
      /\ \A d \in Commands : d # c => AtReading(c, stage, r)[d] = m[d]
    BY <1>2, <1>4
<1> QED BY <1>1, <1>2, <1>3, <1>5, MovedIs

LEMMA MovedRunning ==
    ASSUME AgentsTyped, NEW c \in Commands, NEW stage \in Stages, NEW r \in Talks
    PROVE  /\ AtRunning(c, stage, r) \in [Commands -> AgentCommand]
           /\ \A d \in Commands : d # c => AtRunning(c, stage, r)[d] = commands[d]
           /\ AtRunning(c, stage, r)[c].at = stage /\ AtRunning(c, stage, r)[c].kind = commands[c].kind
           /\ AtRunning(c, stage, r)[c].aim = commands[c].aim
           /\ AtRunning(c, stage, r)[c].chat = commands[c].chat
           /\ AtRunning(c, stage, r)[c].slot = commands[c].slot /\ AtRunning(c, stage, r)[c].runs = r
<1>1. PICK x \in AgentCommand : x = Moved(c, stage)[c]
    BY MovedIs
<1> DEFINE y == [x EXCEPT !.runs = r]
<1>2. /\ y \in AgentCommand /\ y.at = x.at /\ y.kind = x.kind /\ y.aim = x.aim /\ y.chat = x.chat
      /\ y.slot = x.slot /\ y.runs = r
    BY DEF AgentCommand
<1>3. PICK m \in [Commands -> AgentCommand] : m = Moved(c, stage)
    BY MovedIs
<1>4. AtRunning(c, stage, r) = [m EXCEPT ![c] = y]
    BY <1>1, <1>3 DEF AtRunning
<1> HIDE DEF y
<1>5. /\ AtRunning(c, stage, r) \in [Commands -> AgentCommand]
      /\ AtRunning(c, stage, r)[c] = y
      /\ \A d \in Commands : d # c => AtRunning(c, stage, r)[d] = m[d]
    BY <1>2, <1>4
<1> QED BY <1>1, <1>2, <1>3, <1>5, MovedIs

LEMMA MovedAiming ==
    ASSUME AgentsTyped, NEW c \in Commands, NEW stage \in Stages, NEW p \in Targets
    PROVE  /\ AtAiming(c, stage, p) \in [Commands -> AgentCommand]
           /\ \A d \in Commands : d # c => AtAiming(c, stage, p)[d] = commands[d]
           /\ AtAiming(c, stage, p)[c].at = stage /\ AtAiming(c, stage, p)[c].kind = commands[c].kind
           /\ AtAiming(c, stage, p)[c].aim = p
           /\ AtAiming(c, stage, p)[c].slot = commands[c].slot
           /\ AtAiming(c, stage, p)[c].read = commands[c].read
<1>1. PICK x \in AgentCommand : x = Moved(c, stage)[c]
    BY MovedIs
<1> DEFINE y == [x EXCEPT !.aim = p]
<1>2. /\ y \in AgentCommand /\ y.at = x.at /\ y.kind = x.kind /\ y.aim = p
      /\ y.slot = x.slot /\ y.read = x.read
    BY DEF AgentCommand
<1>3. PICK m \in [Commands -> AgentCommand] : m = Moved(c, stage)
    BY MovedIs
<1>4. AtAiming(c, stage, p) = [m EXCEPT ![c] = y]
    BY <1>1, <1>3 DEF AtAiming
<1> HIDE DEF y
<1>5. /\ AtAiming(c, stage, p) \in [Commands -> AgentCommand]
      /\ AtAiming(c, stage, p)[c] = y
      /\ \A d \in Commands : d # c => AtAiming(c, stage, p)[d] = m[d]
    BY <1>2, <1>4
<1> QED BY <1>1, <1>2, <1>3, <1>5, MovedIs

LEMMA MovedChoosing ==
    ASSUME AgentsTyped, NEW c \in Commands, NEW stage \in Stages, NEW i \in Targets
    PROVE  /\ AtChoosing(c, stage, i) \in [Commands -> AgentCommand]
           /\ \A d \in Commands : d # c => AtChoosing(c, stage, i)[d] = commands[d]
           /\ AtChoosing(c, stage, i)[c].at = stage /\ AtChoosing(c, stage, i)[c].kind = commands[c].kind
           /\ AtChoosing(c, stage, i)[c].aim = i
           /\ AtChoosing(c, stage, i)[c].chat = i /\ AtChoosing(c, stage, i)[c].slot = commands[c].slot
<1>1. PICK x \in AgentCommand : x = Moved(c, stage)[c]
    BY MovedIs
<1> DEFINE y == [x EXCEPT !.chat = i, !.aim = i]
<1>2. /\ y \in AgentCommand /\ y.at = x.at /\ y.kind = x.kind /\ y.aim = i /\ y.chat = i
      /\ y.slot = x.slot
    BY DEF AgentCommand
<1>3. PICK m \in [Commands -> AgentCommand] : m = Moved(c, stage)
    BY MovedIs
<1>4. AtChoosing(c, stage, i) = [m EXCEPT ![c] = y]
    BY <1>1, <1>3 DEF AtChoosing
<1> HIDE DEF y
<1>5. /\ AtChoosing(c, stage, i) \in [Commands -> AgentCommand]
      /\ AtChoosing(c, stage, i)[c] = y
      /\ \A d \in Commands : d # c => AtChoosing(c, stage, i)[d] = m[d]
    BY <1>2, <1>4
<1> QED BY <1>1, <1>2, <1>3, <1>5, MovedIs

LEMMA MovedFinding ==
    ASSUME AgentsTyped, NEW c \in Commands, NEW s \in Slots
    PROVE  /\ AtFinding(c, s) \in [Commands -> AgentCommand]
           /\ \A d \in Commands : d # c => AtFinding(c, s)[d] = commands[d]
           /\ AtFinding(c, s)[c].at = "found" /\ AtFinding(c, s)[c].kind = commands[c].kind
           /\ AtFinding(c, s)[c].aim = commands[c].aim
           /\ AtFinding(c, s)[c].slot = s
<1>1. "found" \in Stages
    BY DEF Stages
<1>2. PICK x \in AgentCommand : x = Moved(c, "found")[c]
    BY <1>1, MovedIs
<1> DEFINE y == [x EXCEPT !.slot = s, !.read = None]
<1>3. y \in AgentCommand /\ y.at = x.at /\ y.kind = x.kind /\ y.aim = x.aim /\ y.slot = s
    BY AgentBasics DEF AgentCommand
<1>4. PICK m \in [Commands -> AgentCommand] : m = Moved(c, "found")
    BY <1>1, MovedIs
<1>5. AtFinding(c, s) = [m EXCEPT ![c] = y]
    BY <1>2, <1>4 DEF AtFinding
<1> HIDE DEF y
<1>6. /\ AtFinding(c, s) \in [Commands -> AgentCommand]
      /\ AtFinding(c, s)[c] = y
      /\ \A d \in Commands : d # c => AtFinding(c, s)[d] = m[d]
    BY <1>3, <1>5
<1> QED BY <1>1, <1>2, <1>3, <1>4, <1>6, MovedIs

\* What a look for an agent leaves.
LEMMA LookIs ==
    ASSUME AgentsTyped, NoHalfEntry, NEW c \in Commands, NEW p \in Targets,
           NEW k \in {"send", "warm"},
           \/ Look(c, k, p)
           \/ /\ entry[p] # NoEntry
              /\ commands' = [commands EXCEPT ![c] =
                     [Idle EXCEPT !.at = "found", !.kind = k, !.aim = p, !.slot = entry[p].slot]]
    PROVE  /\ commands' \in [Commands -> AgentCommand] /\ Others(c)
           /\ \/ commands'[c] = Idle
              \/ /\ commands'[c].at = "making" /\ commands'[c].kind = k /\ commands'[c].aim = p
                 /\ commands'[c].slot = 0
              \/ /\ commands'[c].at = "found" /\ commands'[c].kind = k /\ commands'[c].aim = p
                 /\ commands'[c].slot = entry[p].slot /\ commands'[c].slot # 0
<1> DEFINE found == [Idle EXCEPT !.at = "found", !.kind = k, !.aim = p, !.slot = entry[p].slot]
           making == [Idle EXCEPT !.at = "making", !.kind = k, !.aim = p]
<1>1. PICK y \in AgentCommand : y = Idle
    BY AgentBasics
<1>2. entry[p].slot \in Slots \cup {0}
    BY DEF AgentsTyped, Entry
<1>3. found \in AgentCommand /\ making \in AgentCommand
    <2>1. [y EXCEPT !.at = "found", !.kind = k, !.aim = p, !.slot = entry[p].slot] \in AgentCommand
        BY <1>2 DEF AgentCommand, Stages
    <2>2. [y EXCEPT !.at = "making", !.kind = k, !.aim = p] \in AgentCommand
        BY DEF AgentCommand, Stages
    <2> QED BY <1>1, <2>1, <2>2
<1>4. /\ found.at = "found" /\ found.kind = k /\ found.aim = p /\ found.slot = entry[p].slot
      /\ making.at = "making" /\ making.kind = k /\ making.aim = p /\ making.slot = 0
    BY DEF Idle
<1>5. entry[p] # NoEntry => entry[p].slot # 0
    BY DEF NoHalfEntry
<1> HIDE DEF found, making
<1>6. PICK x \in AgentCommand :
          /\ commands' = [commands EXCEPT ![c] = x]
          /\ \/ x = found /\ entry[p] # NoEntry
             \/ x = Idle
             \/ x = making
    BY <1>3, AgentBasics DEF Look, Usable, found, making
<1>7. commands' \in [Commands -> AgentCommand] /\ commands'[c] = x /\ Others(c)
    BY <1>6, CommandBecomes
<1> QED BY <1>4, <1>5, <1>6, <1>7

\* How a step leaves a send its agent: as it was, or the one the index has for
\* the chat it is about.
FindsOwn(c) ==
    \A s \in Slots : SendsWith(c, s)' =>
        \/ /\ SendsWith(c, s) /\ commands'[c].aim = commands[c].aim
           /\ commands[c].at = "named" => commands'[c].at = "named"
        \/ /\ entry[commands'[c].aim].slot = s
           /\ commands'[c].aim = New => \A d \in Commands : Making(d) => d = c

\* The index has no other agent than before, and no agent continues another
\* conversation.
FewerEntries == \A p \in Targets, s \in Slots : entry'[p].slot = s => entry[p].slot = s

SameResumes == \A s \in Slots : Used(s)' => agent'[s].resume = agent[s].resume

LEMMA QuietStep ==
    ASSUME AgentsInv, AgentsTyped', FewerEntries, SameResumes,
           \A c \in Commands : WellAt(c)' /\ ReadOwn(c)' /\ FindsOwn(c),
           NoHalfEntry', log' = log, OneMaking', OneAtTheRail', DroppedIsReset'
    PROVE  AgentsInv'
<1>1. \A c \in Commands : commands[c].aim \in Targets /\ commands'[c].aim \in Targets
    BY DEF AgentsInv, AgentsTyped, AgentCommand
<1>2. OneChatPerAgent'
    <2> SUFFICES ASSUME NEW p \in Targets, NEW q \in Targets, p # q,
                        entry'[p].slot # 0, entry'[p].slot = entry'[q].slot
                 PROVE  FALSE
        BY DEF OneChatPerAgent
    <2>1. entry'[p].slot \in Slots
        BY DEF AgentsTyped, Entry
    <2>2. entry[p].slot = entry'[p].slot /\ entry[q].slot = entry'[p].slot
        BY <2>1 DEF FewerEntries
    <2> QED BY <2>2 DEF AgentsInv, OneChatPerAgent
<1>3. EntryOwn'
    <2> SUFFICES ASSUME NEW p \in Targets, NEW s \in Slots, entry'[p].slot = s
                 PROVE  Own(agent'[s].resume, p)
        BY DEF EntryOwn, Own
    <2>1. entry[p].slot = s
        BY DEF FewerEntries
    <2>2. agent'[s].resume = agent[s].resume
        BY DEF SameResumes, Used
    <2> QED BY <2>1, <2>2 DEF AgentsInv, EntryOwn
<1>4. LogOwn'
    BY DEF AgentsInv, LogOwn, Own
<1>5. ASSUME NEW c \in Commands PROVE HasOwn(c)'
    <2> SUFFICES ASSUME NEW s \in Slots, SendsWith(c, s)'
                 PROVE  /\ Own(agent'[s].resume, commands'[c].aim)
                        /\ \A p \in Targets : entry'[p].slot = s =>
                               p = commands'[c].aim \/ (p = New /\ commands'[c].at = "named")
        BY DEF HasOwn, Own
    <2>1. agent'[s].resume = agent[s].resume
        BY DEF SameResumes, Used, SendsWith
    <2>2. CASE /\ SendsWith(c, s) /\ commands'[c].aim = commands[c].aim
               /\ commands[c].at = "named" => commands'[c].at = "named"
        <3>1. HasOwn(c)
            BY DEF AgentsInv
        <3> QED BY <2>1, <2>2, <3>1 DEF HasOwn, FewerEntries
    <2>3. CASE entry[commands'[c].aim].slot = s
        <3>1. Own(agent[s].resume, commands'[c].aim)
            BY <1>1, <2>3 DEF AgentsInv, EntryOwn
        <3>2. \A p \in Targets : entry[p].slot = s => p = commands'[c].aim
            BY <1>1, <2>3, AgentBasics DEF AgentsInv, OneChatPerAgent
        <3> QED BY <2>1, <3>1, <3>2 DEF FewerEntries
    <2> QED BY <2>2, <2>3 DEF FindsOwn
<1>6. ASSUME NEW c \in Commands, NEW d \in Commands, c # d, NEW s \in Slots,
             SendsWith(c, s), entry[commands'[d].aim].slot = s,
             commands'[d].aim = New => \A f \in Commands : Making(f) => f = d
      PROVE  commands[c].aim = commands'[d].aim
    <2>1. HasOwn(c)
        BY DEF AgentsInv
    <2>2. commands'[d].aim = commands[c].aim
          \/ (commands'[d].aim = New /\ commands[c].at = "named")
        BY <1>1, <1>6, <2>1 DEF HasOwn
    <2> QED BY <1>6, <2>2 DEF Making, SendsWith
<1>7. SharedAgent'
    <2> SUFFICES ASSUME NEW c \in Commands, NEW d \in Commands, c # d, NEW s \in Slots,
                        SendsWith(c, s)', SendsWith(d, s)'
                 PROVE  commands'[c].aim = commands'[d].aim
        BY DEF SharedAgent
    <2>1. \/ SendsWith(c, s) /\ commands'[c].aim = commands[c].aim
          \/ /\ entry[commands'[c].aim].slot = s
             /\ commands'[c].aim = New => \A f \in Commands : Making(f) => f = c
        BY DEF FindsOwn
    <2>2. \/ SendsWith(d, s) /\ commands'[d].aim = commands[d].aim
          \/ /\ entry[commands'[d].aim].slot = s
             /\ commands'[d].aim = New => \A f \in Commands : Making(f) => f = d
        BY DEF FindsOwn
    <2>3. CASE SendsWith(c, s) /\ commands'[c].aim = commands[c].aim
        <3>1. CASE SendsWith(d, s) /\ commands'[d].aim = commands[d].aim
            BY <2>3, <3>1 DEF AgentsInv, SharedAgent
        <3>2. CASE /\ entry[commands'[d].aim].slot = s
                   /\ commands'[d].aim = New => \A f \in Commands : Making(f) => f = d
            BY <1>6, <2>3, <3>2
        <3> QED BY <2>2, <3>1, <3>2
    <2>4. CASE /\ entry[commands'[c].aim].slot = s
               /\ commands'[c].aim = New => \A f \in Commands : Making(f) => f = c
        <3>1. CASE SendsWith(d, s) /\ commands'[d].aim = commands[d].aim
            BY <1>6, <2>4, <3>1
        <3>2. CASE entry[commands'[d].aim].slot = s
            <4>1. s # 0
                BY AgentBasics
            <4>2. OneChatPerAgent
                BY DEF AgentsInv
            <4> QED BY <1>1, <2>4, <3>2, <4>1, <4>2 DEF OneChatPerAgent
        <3> QED BY <2>2, <3>1, <3>2
    <2> QED BY <2>1, <2>3, <2>4
<1> QED BY <1>2, <1>3, <1>4, <1>5, <1>7 DEF AgentsInv

\* One command moves, and it sends at New chat only when no other does.
LEMMA MakingStaysOne ==
    ASSUME AgentsInv, NEW c \in Commands,
           Others(c),
           Making(c)' => Making(c) \/ \A d \in Commands : ~Making(d),
           commands'[c].kind = "send" /\ commands'[c].aim = New =>
               (commands[c].kind = "send" /\ commands[c].aim = New) \/ focus = New,
           focus' = New \/ fromNew' = New \/ (focus' = focus /\ fromNew' = fromNew)
    PROVE  OneMaking'
<1>1. \A d \in Commands : d # c => (Making(d)' <=> Making(d))
    BY DEF Making, Others
<1>2. \A d, e \in Commands : Making(d)' /\ Making(e)' => d = e
    BY <1>1 DEF AgentsInv, OneMaking
<1>3. ASSUME NEW d \in Commands, commands'[d].kind = "send", commands'[d].aim = New
      PROVE  focus' = New \/ focus' # fromNew'
    <2>1. (commands[d].kind = "send" /\ commands[d].aim = New) \/ focus = New
        BY <1>3 DEF Others
    <2>2. focus = New \/ focus # fromNew
        BY <2>1 DEF AgentsInv, OneMaking
    <2> QED BY <2>2
<1> QED BY <1>2, <1>3 DEF OneMaking

\* One command moves, and it comes to the rail only when none is there.
LEMMA RailStaysOne ==
    ASSUME AgentsInv, NEW c \in Commands,
           Others(c),
           \/ commands'[c].at \notin AtTheRail
           \/ commands[c].at \in AtTheRail
           \/ \A d \in Commands : commands[d].at \notin AtTheRail
    PROVE  OneAtTheRail'
BY DEF AgentsInv, OneAtTheRail, Others

\* What the other commands keep when the open chat stays, or nothing is at the
\* rail.
LEMMA OthersStay ==
    ASSUME AgentsInv, NEW c \in Commands, Others(c),
           focus' = focus \/ \A d \in Commands : d # c => commands[d].at \notin AtTheRail
    PROVE  \A d \in Commands : d # c => WellAt(d)' /\ ReadOwn(d)' /\ FindsOwn(d)
<1> SUFFICES ASSUME NEW d \in Commands, d # c
             PROVE  WellAt(d)' /\ ReadOwn(d)' /\ FindsOwn(d)
    OBVIOUS
<1>1. commands'[d] = commands[d]
    BY DEF Others
<1>2. WellAt(d) /\ ReadOwn(d)
    BY DEF AgentsInv
<1>3. WellAt(d)'
    BY <1>1, <1>2 DEF WellAt
<1>4. ReadOwn(d)'
    BY <1>1, <1>2 DEF ReadOwn, Own, AtTheRail
<1>5. FindsOwn(d)
    BY <1>1 DEF FindsOwn, SendsWith
<1> QED BY <1>3, <1>4, <1>5

\* How a step of command c leaves the sends at New chat and the rail.
SendsOrNot(c) ==
    commands'[c].kind = "send" =>
        \/ /\ commands[c].kind = "send" /\ commands'[c].aim = commands[c].aim
           /\ commands'[c].at = "named" => commands[c].at = "named"
        \/ /\ commands'[c].aim = New => focus = New /\ \A d \in Commands : ~Making(d)
           /\ commands'[c].at # "named"

RailOrNot(c) ==
    \/ commands'[c].at \notin AtTheRail
    \/ commands[c].at \in AtTheRail
    \/ \A d \in Commands : commands[d].at \notin AtTheRail

\* One command moves, and the open chat stays.
LEMMA OneMoves ==
    ASSUME AgentsInv, AgentsTyped', NEW c \in Commands, Others(c),
           FewerEntries, SameResumes, NoHalfEntry', DroppedIsReset', UNCHANGED chats,
           WellAt(c)', ReadOwn(c)', FindsOwn(c), SendsOrNot(c), RailOrNot(c)
    PROVE  AgentsInv'
<1>1. focus' = focus /\ fromNew' = fromNew /\ log' = log
    BY DEF chats
<1>2. \A d \in Commands : WellAt(d)' /\ ReadOwn(d)' /\ FindsOwn(d)
    BY <1>1, OthersStay
<1>3. OneMaking'
    <2>1. Making(c)' => Making(c) \/ \A d \in Commands : ~Making(d)
        BY DEF SendsOrNot, Making
    <2>2. commands'[c].kind = "send" /\ commands'[c].aim = New =>
              (commands[c].kind = "send" /\ commands[c].aim = New) \/ focus = New
        BY DEF SendsOrNot
    <2> QED BY <1>1, <2>1, <2>2, MakingStaysOne
<1>4. OneAtTheRail'
    BY RailStaysOne DEF RailOrNot
<1> QED BY <1>1, <1>2, <1>3, <1>4, QuietStep

\* One command moves, and neither the index nor the agents.
LEMMA PlainStep ==
    ASSUME AgentsInv, NEW c \in Commands, Others(c),
           UNCHANGED << use, chats, spec, entry, agent >>,
           commands' \in [Commands -> AgentCommand],
           commands[c].slot = 0 \/ commands'[c].slot = commands[c].slot,
           WellAt(c)', ReadOwn(c)', FindsOwn(c), SendsOrNot(c), RailOrNot(c)
    PROVE  AgentsInv'
<1>1. AgentsTyped'
    BY DEF AgentsInv, AgentsTyped, chats
<1>2. FewerEntries /\ SameResumes
    BY DEF FewerEntries, SameResumes
<1>3. NoHalfEntry'
    BY DEF AgentsInv, NoHalfEntry
<1>4. ASSUME NEW s \in Slots, ~Used(s)' PROVE ~Used(s)
    <2>1. \A p \in Targets : entry[p].slot # s
        BY <1>4 DEF Used
    <2>2. ASSUME NEW d \in Commands PROVE commands[d].slot # s
        <3>1. commands'[d].slot # s
            BY <1>4 DEF Used
        <3> QED BY <3>1, AgentBasics DEF Others
    <2> QED BY <2>1, <2>2 DEF Used
<1>5. DroppedIsReset'
    BY <1>4 DEF AgentsInv, DroppedIsReset
<1>6. UNCHANGED chats
    OBVIOUS
<1> QED BY <1>1, <1>2, <1>3, <1>5, <1>6, OneMoves

\* With care, nothing of the rail or the list is under way when more begins.
LEMMA CareIs ==
    ASSUME AgentsInv, UsedWithCare
    PROVE  /\ \A w : May(w) => \A d \in Commands : commands[d].at \notin AtTheRail
           /\ MaySend(New) => \A d \in Commands : ~Making(d)
<1>1. "careful" \in use
    BY DEF UsedWithCare, AgentsInv, AgentsTyped
<1> QED BY <1>1 DEF May, MaySend

LEMMA LookStep ==
    ASSUME AgentsInv, UsedWithCare, NEW c \in Commands, NEW p \in Targets,
           NEW k \in {"send", "warm"},
           commands[c] = Idle, MaySend(p), p = New => focus = New,
           \/ Look(c, k, p)
           \/ /\ entry[p] # NoEntry
              /\ commands' = [commands EXCEPT ![c] =
                     [Idle EXCEPT !.at = "found", !.kind = k, !.aim = p, !.slot = entry[p].slot]],
           UNCHANGED << use, chats, spec, entry, agent >>
    PROVE  AgentsInv'
<1>1. AgentsTyped /\ NoHalfEntry
    BY DEF AgentsInv
<1>2. \/ commands'[c] = Idle
      \/ /\ commands'[c].at = "making" /\ commands'[c].kind = k /\ commands'[c].aim = p
         /\ commands'[c].slot = 0
      \/ /\ commands'[c].at = "found" /\ commands'[c].kind = k /\ commands'[c].aim = p
         /\ commands'[c].slot = entry[p].slot /\ commands'[c].slot # 0
    BY <1>1, LookIs
<1>3. commands' \in [Commands -> AgentCommand] /\ Others(c)
    BY <1>1, LookIs
<1>4. /\ commands'[c].slot # 0 <=> commands'[c].at = "found"
      /\ commands'[c].at \in {"found", "making", "idle"}
      /\ commands'[c].kind = "send" =>
             commands'[c].at \in {"found", "making"} /\ commands'[c].aim = p
      /\ commands'[c].at = "found" => commands'[c].slot = entry[p].slot /\ commands'[c].aim = p
    BY <1>2, AgentBasics
<1>5. WellAt(c)' /\ ReadOwn(c)'
    BY <1>3, <1>4 DEF WellAt, ReadOwn, HasAgent, HasChosen, WithAgent
<1>6. p = New => focus = New /\ \A d \in Commands : ~Making(d)
    BY CareIs
<1>7. FindsOwn(c)
    <2> SUFFICES ASSUME NEW s \in Slots, SendsWith(c, s)'
                 PROVE  entry[commands'[c].aim].slot = s
        BY <1>3, <1>4, <1>6 DEF FindsOwn, SendsWith
    <2>1. commands'[c].slot = s /\ s # 0
        BY <1>3, AgentBasics DEF SendsWith
    <2> QED BY <1>3, <1>4, <2>1
<1>8. SendsOrNot(c) /\ RailOrNot(c)
    BY <1>3, <1>4, <1>6 DEF SendsOrNot, RailOrNot, AtTheRail
<1>9. commands[c].slot = 0
    BY AgentBasics
<1> QED BY <1>3, <1>5, <1>7, <1>8, <1>9, PlainStep

LEMMA FindsAgent ==
    ASSUME AgentsInv, UsedWithCare, NEW c \in Commands,
           Send(c) \/ Prewarm(c) \/ \E i \in Ids : SendBehind(c, i)
    PROVE  AgentsInv'
<1>1. focus \in Targets
    BY DEF AgentsInv, AgentsTyped
<1>2. CASE Send(c)
    BY <1>1, <1>2, LookStep DEF Send
<1>3. CASE Prewarm(c)
    BY <1>1, <1>3, LookStep DEF Prewarm
<1>4. ASSUME NEW i \in Ids, SendBehind(c, i) PROVE AgentsInv'
    <2>1. i \in Targets /\ i # New
        BY AgentBasics
    <2> QED BY <1>4, <2>1, LookStep DEF SendBehind
<1> QED BY <1>2, <1>3, <1>4

\* A command goes on to another place, with what it had.
LEMMA StepKeeps ==
    ASSUME AgentsInv, NEW c \in Commands, NEW stage \in Stages, Step(c, stage),
           \/ commands[c].at = "waiting" /\ stage = "locked"
           \/ commands[c].at = "chosen" /\ stage = "turn"
           \/ commands[c].at = "windowed" /\ stage = "built"
    PROVE  AgentsInv'
<1>1. AgentsTyped /\ WellAt(c) /\ ReadOwn(c)
    BY DEF AgentsInv
<1>2. commands' = Moved(c, stage) /\ UNCHANGED << use, chats, spec, entry, agent >>
    BY DEF Step
<1>3. /\ commands' \in [Commands -> AgentCommand] /\ Others(c)
      /\ commands'[c].at = stage /\ commands'[c].kind = commands[c].kind
      /\ commands'[c].aim = commands[c].aim /\ commands'[c].chat = commands[c].chat
      /\ commands'[c].slot = commands[c].slot /\ commands'[c].read = commands[c].read
    BY <1>1, <1>2, MovedIs DEF Others
<1>4. WellAt(c)'
    BY <1>1, <1>3 DEF WellAt, HasAgent, HasChosen, WithAgent
<1>5. ReadOwn(c)'
    BY <1>1, <1>2, <1>3 DEF ReadOwn, Own, chats
<1>6. FindsOwn(c)
    BY <1>3 DEF FindsOwn, SendsWith
<1>7. SendsOrNot(c) /\ RailOrNot(c)
    BY <1>3 DEF SendsOrNot, RailOrNot, AtTheRail
<1> QED BY <1>2, <1>3, <1>4, <1>5, <1>6, <1>7, PlainStep

LEMMA GoesOn ==
    ASSUME AgentsInv, NEW c \in Commands, GetAgent(c) \/ LockChat(c) \/ ReadWindow(c)
    PROVE  AgentsInv'
<1>1. "locked" \in Stages /\ "turn" \in Stages /\ "built" \in Stages
    BY DEF Stages
<1> QED BY <1>1, StepKeeps DEF GetAgent, LockChat, ReadWindow

\* A command that had no agent becomes x, which has none and is no send.
LEMMA ReadsStep ==
    ASSUME AgentsInv, NEW c \in Commands, NEW x \in AgentCommand,
           commands' = [commands EXCEPT ![c] = x],
           UNCHANGED << use, chats, spec, entry, agent >>,
           commands[c].slot = 0, x.slot = 0, x.at \notin HasAgent,
           x.kind = "send" => /\ commands[c].kind = "send" /\ x.aim = commands[c].aim
                              /\ x.at = "read",
           x.at = "read" => Own(x.read, x.aim),
           x.at \in {"connecting", "windowed", "built", "adopting"} => Own(x.read, focus),
           x.at # "opened",
           \/ x.at \notin AtTheRail
           \/ commands[c].at \in AtTheRail
           \/ \A d \in Commands : commands[d].at \notin AtTheRail
    PROVE  AgentsInv'
<1>1. AgentsTyped
    BY DEF AgentsInv
<1>2. commands' \in [Commands -> AgentCommand] /\ commands'[c] = x /\ Others(c)
    BY <1>1, CommandBecomes
<1>3. WellAt(c)'
    BY <1>2 DEF WellAt, HasAgent, HasChosen, WithAgent
<1>4. ReadOwn(c)'
    BY <1>2 DEF ReadOwn, Own, HasAgent, WithAgent, chats
<1>5. FindsOwn(c)
    BY <1>2, AgentBasics DEF FindsOwn, SendsWith
<1>6. SendsOrNot(c) /\ RailOrNot(c)
    BY <1>2 DEF SendsOrNot, RailOrNot
<1> QED BY <1>2, <1>3, <1>4, <1>5, <1>6, PlainStep

LEMMA ReadResumeKeeps ==
    ASSUME AgentsInv, NEW c \in Commands, ReadResume(c)
    PROVE  AgentsInv'
<1>1. AgentsTyped /\ WellAt(c) /\ LogOwn /\ commands[c].slot = 0 /\ commands[c] \in AgentCommand
    BY DEF AgentsInv, AgentsTyped, WellAt, HasAgent, WithAgent, ReadResume
<1>2. PICK y \in AgentCommand : y = commands[c]
    BY <1>1
<1> DEFINE i == commands[c].aim
           r == IF i = New THEN None ELSE log[i]
           x == [y EXCEPT !.at = "read", !.read = r]
<1>3. r \in Talks /\ Own(r, i)
    <2>1. i \in Targets
        BY <1>2 DEF AgentCommand
    <2>2. CASE i = New
        BY <2>2, AgentBasics DEF Own
    <2>3. CASE i # New
        BY <1>1, <2>1, <2>3 DEF AgentsTyped, LogOwn, Targets
    <2> QED BY <2>2, <2>3
<1>4. x \in AgentCommand
    BY <1>3 DEF AgentCommand, Stages
<1>5. x.at = "read" /\ x.read = r /\ x.slot = 0 /\ x.kind = commands[c].kind /\ x.aim = i
    BY <1>1, <1>2 DEF AgentCommand
<1>6. commands' = Done(c) \/ commands' = [Moved(c, "read") EXCEPT ![c].read = r]
    BY DEF ReadResume
<1>7. UNCHANGED << use, chats, spec, entry, agent >>
    BY DEF ReadResume
<1>8. CASE commands' = Done(c)
    <2>1. commands' = [commands EXCEPT ![c] = Idle]
        BY <1>8 DEF Done
    <2>2. Idle.at \notin HasAgent \cup AtTheRail \cup {"read", "opened"}
        BY AgentBasics DEF HasAgent, WithAgent, AtTheRail
    <2> QED BY <1>1, <1>7, <2>1, <2>2, AgentBasics, ReadsStep DEF AtTheRail
<1>9. CASE commands' = [Moved(c, "read") EXCEPT ![c].read = r]
    <2>1. commands' = [commands EXCEPT ![c] = x]
        <3> HIDE DEF r
        <3> QED BY <1>1, <1>2, <1>9 DEF Moved, AgentsTyped, AgentCommand
    <2> HIDE DEF x, r
    <2>2. x.at \notin HasAgent \cup AtTheRail
        BY <1>5 DEF HasAgent, WithAgent, AtTheRail
    <2> QED BY <1>1, <1>3, <1>4, <1>5, <1>7, <2>1, <2>2, ReadsStep DEF AtTheRail
<1> QED BY <1>6, <1>8, <1>9

LEMMA RailReads ==
    ASSUME AgentsInv, UsedWithCare, NEW c \in Commands,
           ReadOpen(c) \/ AskWindow(c) \/ GiveUp(c) \/ ReadOpened(c)
    PROVE  AgentsInv'
<1>1. /\ AgentsTyped /\ WellAt(c) /\ ReadOwn(c) /\ LogOwn /\ commands[c] \in AgentCommand
      /\ focus \in Targets
    BY DEF AgentsInv, AgentsTyped
<1>2. PICK y \in AgentCommand : y = commands[c]
    BY <1>1
<1>3. PICK z \in AgentCommand : z = Idle
    BY AgentBasics
<1>4. UNCHANGED << use, chats, spec, entry, agent >>
    BY DEF ReadOpen, AskWindow, GiveUp, ReadOpened
<1>5. commands[c].slot = 0 /\ commands[c].kind # "send"
    BY <1>1, AgentBasics
    DEF ReadOpen, AskWindow, GiveUp, ReadOpened, WellAt, HasAgent, WithAgent
<1>6. CASE ReadOpen(c)
    <2> DEFINE r == IF focus = New THEN None ELSE log[focus]
               x == [z EXCEPT !.at = "connecting", !.read = r]
    <2>1. r \in Talks /\ Own(r, focus)
        <3>1. CASE focus = New
            BY <3>1, AgentBasics DEF Own
        <3>2. CASE focus # New
            BY <1>1, <3>2 DEF AgentsTyped, LogOwn, Targets
        <3> QED BY <3>1, <3>2
    <2>2. x \in AgentCommand
        BY <2>1 DEF AgentCommand, Stages
    <2>3. x.at = "connecting" /\ x.read = r /\ x.slot = 0 /\ x.kind = ""
        BY <1>3, AgentBasics DEF AgentCommand
    <2>4. commands' = [commands EXCEPT ![c] = x]
        BY <1>3, <1>6 DEF ReadOpen
    <2>5. \A d \in Commands : commands[d].at \notin AtTheRail
        BY <1>6, CareIs DEF ReadOpen
    <2> HIDE DEF x, r
    <2>6. x.at \notin HasAgent
        BY <2>3 DEF HasAgent, WithAgent
    <2> QED BY <1>4, <1>5, <2>1, <2>2, <2>3, <2>4, <2>5, <2>6, ReadsStep
<1>7. CASE AskWindow(c)
    <2> DEFINE x == [y EXCEPT !.at = "windowed", !.aim = focus]
    <2>1. x \in AgentCommand
        BY <1>1 DEF AgentCommand, Stages
    <2>2. x.at = "windowed" /\ x.read = commands[c].read /\ x.slot = 0 /\ x.kind # "send"
        BY <1>2, <1>5 DEF AgentCommand
    <2>3. commands' = [commands EXCEPT ![c] = x]
        BY <1>1, <1>2, <1>7 DEF AskWindow, Moved, AgentsTyped, AgentCommand
    <2>4. Own(x.read, focus) /\ commands[c].at \in AtTheRail
        BY <1>1, <1>7, <2>2 DEF AskWindow, ReadOwn, AtTheRail
    <2> HIDE DEF x
    <2>5. x.at \notin HasAgent
        BY <2>2 DEF HasAgent, WithAgent
    <2> QED BY <1>4, <1>5, <2>1, <2>2, <2>3, <2>4, <2>5, ReadsStep
<1>8. CASE GiveUp(c)
    <2>1. commands' = [commands EXCEPT ![c] = Idle]
        BY <1>8 DEF GiveUp, Done
    <2>2. Idle.at \notin HasAgent \cup AtTheRail \cup {"read", "opened"}
        BY AgentBasics DEF HasAgent, WithAgent, AtTheRail
    <2> QED BY <1>4, <1>5, <2>1, <2>2, AgentBasics, ReadsStep DEF AtTheRail
<1>9. CASE ReadOpened(c)
    <2> DEFINE r == log[commands[c].aim]
               x == [y EXCEPT !.at = "adopting", !.read = r]
    <2>1. r \in Talks /\ Own(r, focus) /\ commands[c].at \in AtTheRail
        BY <1>1, <1>9 DEF ReadOpened, ReadOwn, LogOwn, AgentsTyped, AtTheRail
    <2>2. x \in AgentCommand
        BY <2>1 DEF AgentCommand, Stages
    <2>3. x.at = "adopting" /\ x.read = r /\ x.slot = 0 /\ x.kind # "send"
        BY <1>2, <1>5 DEF AgentCommand
    <2>4. commands' = [commands EXCEPT ![c] = x]
        <3>1. commands' = [Moved(c, "adopting") EXCEPT ![c].read = r]
            BY <1>9 DEF ReadOpened
        <3> HIDE DEF r
        <3> QED BY <1>1, <1>2, <3>1 DEF Moved, AgentsTyped, AgentCommand
    <2> HIDE DEF x, r
    <2>5. x.at \notin HasAgent
        BY <2>3 DEF HasAgent, WithAgent
    <2> QED BY <1>4, <1>5, <2>1, <2>2, <2>3, <2>4, <2>5, ReadsStep
<1> QED BY <1>6, <1>7, <1>8, <1>9

\* One command moves, the index stays, and the agents resume what they did.
LEMMA BecomeStep ==
    ASSUME AgentsInv, NEW c \in Commands, NEW a \in [Slots -> Agent],
           NEW cs \in [Commands -> AgentCommand], Become(entry, a, cs),
           \A s \in Slots : a[s].resume = agent[s].resume,
           UNCHANGED << use, chats, spec >>, Others(c),
           WellAt(c)', ReadOwn(c)', FindsOwn(c), SendsOrNot(c), RailOrNot(c)
    PROVE  AgentsInv'
<1>1. /\ entry' = entry /\ commands' = cs /\ agent' \in [Slots -> Agent]
      /\ \A s \in Slots : agent'[s] = IF Used(s)' THEN a[s] ELSE NewAgent(None)
      /\ DroppedIsReset'
    BY BecomeIs
<1>2. AgentsTyped'
    BY <1>1 DEF AgentsInv, AgentsTyped, chats
<1>3. FewerEntries /\ SameResumes
    BY <1>1 DEF FewerEntries, SameResumes
<1>4. NoHalfEntry'
    BY <1>1 DEF AgentsInv, NoHalfEntry
<1>5. UNCHANGED chats
    OBVIOUS
<1> QED BY <1>1, <1>2, <1>3, <1>4, <1>5, OneMoves

LEMMA IdleIsWell ==
    ASSUME NEW c \in Commands, commands'[c] = Idle
    PROVE  WellAt(c)' /\ ReadOwn(c)' /\ FindsOwn(c) /\ SendsOrNot(c) /\ RailOrNot(c)
BY AgentBasics
DEF WellAt, ReadOwn, FindsOwn, SendsOrNot, RailOrNot, HasAgent, HasChosen, WithAgent, AtTheRail,
    SendsWith

LEMMA LockAgentKeeps ==
    ASSUME AgentsInv, NEW c \in Commands, LockAgent(c)
    PROVE  AgentsInv'
<1>1. /\ AgentsTyped /\ WellAt(c) /\ agent \in [Slots -> Agent]
      /\ commands[c].at = "found" /\ UNCHANGED << use, chats, spec >>
    BY DEF AgentsInv, AgentsTyped, LockAgent
<1>2. PICK cs : /\ Become(entry, agent, cs)
                /\ \/ cs = Moved(c, "locked")
                   \/ cs = Moved(c, "waiting") /\ commands[c].kind = "send"
                   \/ cs = Done(c)
    BY DEF LockAgent
<1>3. commands' = cs
    BY <1>2 DEF Become
<1>4. CASE cs = Done(c)
    <2>1. cs \in [Commands -> AgentCommand] /\ Others(c) /\ commands'[c] = Idle
        BY <1>1, <1>3, <1>4, DoneIsIdle DEF Others
    <2> QED BY <1>1, <1>2, <2>1, IdleIsWell, BecomeStep
<1>5. ASSUME NEW stage \in {"locked", "waiting"}, cs = Moved(c, stage),
             stage = "waiting" => commands[c].kind = "send"
      PROVE  AgentsInv'
    <2>1. stage \in Stages
        BY DEF Stages
    <2>2. /\ cs \in [Commands -> AgentCommand] /\ Others(c)
          /\ commands'[c].at = stage /\ commands'[c].kind = commands[c].kind
          /\ commands'[c].aim = commands[c].aim /\ commands'[c].slot = commands[c].slot
        BY <1>1, <1>3, <1>5, <2>1, MovedIs DEF Others
    <2>3. WellAt(c)' /\ ReadOwn(c)'
        BY <1>1, <1>5, <2>2 DEF WellAt, ReadOwn, HasAgent, HasChosen, WithAgent
    <2>4. FindsOwn(c) /\ SendsOrNot(c) /\ RailOrNot(c)
        BY <1>1, <2>2 DEF FindsOwn, SendsWith, SendsOrNot, RailOrNot, AtTheRail
    <2> QED BY <1>1, <1>2, <2>2, <2>3, <2>4, BecomeStep
<1> QED BY <1>2, <1>4, <1>5

\* What a fill leaves of the agents.
LEMMA FillIs ==
    ASSUME AgentsInv, NEW c \in Commands, Fill(c)
    PROVE  \E a \in [Slots -> Agent] :
               Become(entry, a, Done(c)) /\ \A t \in Slots : a[t].resume = agent[t].resume
<1> DEFINE s == commands[c].slot
           n == agent[s].fills + 1
           b == [agent[s] EXCEPT !.warm = [key |-> agent[s].resume, n |-> n],
                                 !.fills = n, !.timers = @ \cup {n}]
<1>1. /\ AgentsTyped /\ agent \in [Slots -> Agent] /\ UNCHANGED << use, chats, spec >>
    BY DEF AgentsInv, AgentsTyped, Fill
<1>2. s \in Slots
    <2>1. s \in Slots \cup {0} /\ s # 0
        BY DEF AgentsInv, AgentsTyped, AgentCommand, WellAt, HasAgent, WithAgent, Fill
    <2> QED BY <2>1
<1>3. PICK x \in Agent : x = agent[s]
    BY <1>1, <1>2
<1>4. [x EXCEPT !.warm = NoWarm] \in Agent /\ [x EXCEPT !.warm = NoWarm].resume = x.resume
    BY AgentBasics DEF Agent
<1>5. n <= MaxFills => b \in Agent /\ b.resume = x.resume
    <2>1. n \in Nat /\ n >= 1 /\ MaxFills \in Nat
        BY <1>3, AgentsAssumption DEF Agent
    <2> HIDE DEF n
    <2> SUFFICES ASSUME n <= MaxFills PROVE b \in Agent /\ b.resume = x.resume
        OBVIOUS
    <2>2. n \in 1..MaxFills /\ n \in 0..MaxFills
        BY <2>1
    <2>3. [x EXCEPT !.warm = [key |-> x.resume, n |-> n], !.fills = n,
                    !.timers = x.timers \cup {n}] \in Agent
        BY <2>2 DEF Agent, Warm
    <2>4. b = [x EXCEPT !.warm = [key |-> x.resume, n |-> n], !.fills = n,
                        !.timers = x.timers \cup {n}]
        BY <1>3
    <2> QED BY <1>3, <2>3, <2>4 DEF Agent
<1>6. PICK a : /\ Become(entry, a, Done(c))
               /\ \/ a = agent
                  \/ a = [agent EXCEPT ![s] = [x EXCEPT !.warm = NoWarm]]
                  \/ n <= MaxFills /\ a = [agent EXCEPT ![s] = b]
    <2>1. [agent EXCEPT ![s].warm = NoWarm] = [agent EXCEPT ![s] = [x EXCEPT !.warm = NoWarm]]
        BY <1>1, <1>2, <1>3
    <2> QED BY <2>1 DEF Fill
<1>7. a \in [Slots -> Agent] /\ \A t \in Slots : a[t].resume = agent[t].resume
    <2> HIDE DEF s, n, b
    <2> QED BY <1>1, <1>2, <1>3, <1>4, <1>5, <1>6
<1> QED BY <1>6, <1>7

LEMMA FillKeeps ==
    ASSUME AgentsInv, NEW c \in Commands, Fill(c)
    PROVE  AgentsInv'
<1>1. AgentsTyped /\ UNCHANGED << use, chats, spec >>
    BY DEF AgentsInv, Fill
<1>2. PICK a \in [Slots -> Agent] :
          Become(entry, a, Done(c)) /\ \A s \in Slots : a[s].resume = agent[s].resume
    BY FillIs
<1>3. commands' = Done(c)
    BY <1>2 DEF Become
<1>4. Done(c) \in [Commands -> AgentCommand] /\ Others(c) /\ commands'[c] = Idle
    BY <1>1, <1>3, DoneIsIdle DEF Others
<1> QED BY <1>1, <1>2, <1>4, IdleIsWell, BecomeStep

LEMMA TakeKeeps ==
    ASSUME AgentsInv, NEW c \in Commands, NEW plain \in BOOLEAN, TakeProcess(c, plain)
    PROVE  AgentsInv'
<1> DEFINE s == commands[c].slot
<1>1. /\ AgentsTyped /\ WellAt(c) /\ HasOwn(c) /\ agent \in [Slots -> Agent]
      /\ commands[c].at = "turn" /\ UNCHANGED << use, chats, spec, entry >>
      /\ commands[c] \in AgentCommand
    BY DEF AgentsInv, AgentsTyped, TakeProcess
<1>2. s \in Slots /\ commands[c].kind = "send" /\ commands[c].chat = commands[c].aim
    <2>1. s \in Slots \cup {0} /\ s # 0
        BY <1>1 DEF AgentCommand, WellAt, HasAgent, WithAgent
    <2> QED BY <1>1, <2>1 DEF WellAt, HasChosen
<1>3. PICK x \in Agent : x = agent[s]
    BY <1>1, <1>2
<1>4. x.resume \in Talks /\ Own(x.resume, commands[c].aim)
    BY <1>1, <1>2, <1>3 DEF Agent, HasOwn, SendsWith
<1>5. commands' = AtRunning(c, "running", x.resume)
    BY <1>3 DEF TakeProcess, AtRunning
<1>6. /\ commands' \in [Commands -> AgentCommand] /\ Others(c)
      /\ commands'[c].at = "running" /\ commands'[c].kind = "send"
      /\ commands'[c].aim = commands[c].aim /\ commands'[c].chat = commands[c].chat
      /\ commands'[c].slot = s /\ commands'[c].runs = x.resume
    <2>1. "running" \in Stages
        BY DEF Stages
    <2> QED BY <1>1, <1>2, <1>4, <1>5, <2>1, MovedRunning DEF Others
<1>7. /\ agent' \in [Slots -> Agent] /\ \A t \in Slots : agent'[t].resume = agent[t].resume
      /\ \A t \in Slots : t # s => agent'[t] = agent[t]
    <2>1. PICK w \in Warm : agent' = [agent EXCEPT ![s].warm = w]
        BY <1>1, <1>2, <1>3, AgentBasics DEF TakeProcess, Agent
    <2>2. [x EXCEPT !.warm = w] \in Agent /\ [x EXCEPT !.warm = w].resume = x.resume
        BY DEF Agent
    <2>3. agent' = [agent EXCEPT ![s] = [x EXCEPT !.warm = w]]
        BY <1>1, <1>2, <1>3, <2>1
    <2> QED BY <1>1, <1>2, <1>3, <2>2, <2>3
<1>8. DroppedIsReset'
    <2> SUFFICES ASSUME NEW t \in Slots, ~Used(t)' PROVE agent'[t] = NewAgent(None)
        BY DEF DroppedIsReset, NewAgent
    <2>1. \A p \in Targets : entry[p].slot # t
        BY <1>1 DEF Used
    <2>2. \A d \in Commands : commands[d].slot # t
        BY <1>6 DEF Used, Others
    <2>3. t # s /\ ~Used(t)
        BY <2>1, <2>2 DEF Used
    <2> QED BY <1>7, <2>3 DEF AgentsInv, DroppedIsReset
<1>9. AgentsTyped'
    BY <1>1, <1>6, <1>7 DEF AgentsTyped, chats
<1>10. FewerEntries /\ SameResumes /\ NoHalfEntry' /\ UNCHANGED chats
    BY <1>1, <1>7 DEF FewerEntries, SameResumes, AgentsInv, NoHalfEntry
<1>11. WellAt(c)'
    BY <1>1, <1>2, <1>6 DEF WellAt, HasAgent, HasChosen, WithAgent
<1>12. ReadOwn(c)'
    BY <1>2, <1>4, <1>6 DEF ReadOwn, Own
<1>13. FindsOwn(c) /\ SendsOrNot(c) /\ RailOrNot(c)
    BY <1>1, <1>2, <1>6 DEF FindsOwn, SendsWith, SendsOrNot, RailOrNot, AtTheRail
<1> QED BY <1>6, <1>8, <1>9, <1>10, <1>11, <1>12, <1>13, OneMoves

\* A command that has no agent comes to the rail, or leaves it, or the chat
\* list: the open chat may be another.
LEMMA ListStep ==
    ASSUME AgentsInv, NEW c \in Commands, NEW x \in AgentCommand,
           commands' = [commands EXCEPT ![c] = x],
           UNCHANGED << use, log, spec, entry, agent >>, live' \subseteq Ids,
           focus' \in Targets, fromNew' \in Targets,
           focus' = New \/ fromNew' = New \/ (focus' = focus /\ fromNew' = fromNew),
           commands[c].slot = 0, x.slot = 0, x.kind # "send", x.at \in AtTheRail,
           x.at # "forgetting" => Own(x.read, focus'),
           x.at = "opened" => x.aim = focus' /\ focus' \in Ids,
           \A d \in Commands : commands[d].at \notin AtTheRail
    PROVE  AgentsInv'
<1>1. AgentsTyped
    BY DEF AgentsInv
<1>2. commands' \in [Commands -> AgentCommand] /\ commands'[c] = x /\ Others(c)
    BY <1>1, CommandBecomes
<1>3. AgentsTyped'
    BY <1>1, <1>2 DEF AgentsTyped
<1>4. WellAt(c)' /\ ReadOwn(c)'
    BY <1>2 DEF WellAt, ReadOwn, Own, HasAgent, HasChosen, WithAgent, AtTheRail
<1>5. FindsOwn(c)
    BY <1>2 DEF FindsOwn, SendsWith
<1>6. \A d \in Commands : WellAt(d)' /\ ReadOwn(d)' /\ FindsOwn(d)
    BY <1>2, <1>4, <1>5, OthersStay
<1>7. OneMaking'
    <2>1. commands'[c].kind # "send" /\ ~Making(c)'
        BY <1>2 DEF Making
    <2> QED BY <1>2, <2>1, MakingStaysOne
<1>8. OneAtTheRail'
    BY <1>2, RailStaysOne
<1>9. FewerEntries /\ SameResumes /\ NoHalfEntry'
    BY DEF FewerEntries, SameResumes, AgentsInv, NoHalfEntry
<1>10. ASSUME NEW s \in Slots, ~Used(s)' PROVE ~Used(s)
    <2>1. \A p \in Targets : entry[p].slot # s
        BY <1>10 DEF Used
    <2>2. ASSUME NEW d \in Commands PROVE commands[d].slot # s
        <3>1. commands'[d].slot # s
            BY <1>10 DEF Used
        <3> QED BY <1>2, <3>1, AgentBasics DEF Others
    <2> QED BY <2>1, <2>2 DEF Used
<1>11. DroppedIsReset'
    BY <1>10 DEF AgentsInv, DroppedIsReset
<1> QED BY <1>3, <1>6, <1>7, <1>8, <1>9, <1>11, QuietStep

LEMMA ListKeeps ==
    ASSUME AgentsInv, UsedWithCare, NEW c \in Commands,
           OpenNew(c) \/ \E i \in Ids : OpenChat(c, i) \/ Delete(c, i)
    PROVE  AgentsInv'
<1>1. /\ AgentsTyped /\ focus \in Targets /\ fromNew \in Targets /\ live \subseteq Ids
      /\ New \in Targets /\ Ids \subseteq Targets
    BY AgentBasics DEF AgentsInv, AgentsTyped
<1>2. PICK z \in AgentCommand : z = Idle
    BY AgentBasics
<1>3. z.slot = 0 /\ z.kind = "" /\ z.aim = New /\ z.read = None
    BY <1>2 DEF Idle
<1>4. CASE OpenNew(c)
    <2> DEFINE x == [z EXCEPT !.at = "adopting"]
    <2>1. x \in AgentCommand /\ x.at = "adopting" /\ x.slot = 0 /\ x.kind = "" /\ x.read = None
        BY <1>3 DEF AgentCommand, Stages
    <2>2. /\ commands[c].slot = 0 /\ commands' = [commands EXCEPT ![c] = x]
          /\ UNCHANGED << use, live, log, spec, entry, agent >> /\ focus' = New /\ fromNew' = New
          /\ \A d \in Commands : commands[d].at \notin AtTheRail
        BY <1>2, <1>3, <1>4, CareIs DEF OpenNew
    <2>3. Own(x.read, focus')
        BY <2>1 DEF Own
    <2> HIDE DEF x
    <2> QED BY <1>1, <2>1, <2>2, <2>3, ListStep DEF AtTheRail
<1>5. ASSUME NEW i \in Ids, OpenChat(c, i) PROVE AgentsInv'
    <2> DEFINE x == [z EXCEPT !.at = "opened", !.aim = i]
    <2>1. /\ x \in AgentCommand /\ x.at = "opened" /\ x.slot = 0 /\ x.kind = "" /\ x.read = None
          /\ x.aim = i
        BY <1>1, <1>3 DEF AgentCommand, Stages
    <2>2. /\ commands[c].slot = 0 /\ commands' = [commands EXCEPT ![c] = x]
          /\ UNCHANGED << use, live, log, spec, entry, agent >> /\ focus' = i /\ fromNew' = New
          /\ \A d \in Commands : commands[d].at \notin AtTheRail
        BY <1>2, <1>3, <1>5, CareIs DEF OpenChat
    <2>3. Own(x.read, focus')
        BY <2>1 DEF Own
    <2> HIDE DEF x
    <2> QED BY <1>1, <2>1, <2>2, <2>3, ListStep DEF AtTheRail
<1>6. ASSUME NEW i \in Ids, Delete(c, i) PROVE AgentsInv'
    <2> DEFINE k == IF focus = i THEN "open" ELSE ""
               x == [z EXCEPT !.at = "forgetting", !.aim = i, !.kind = k]
    <2>1. k \in {"", "open"}
        OBVIOUS
    <2>2. /\ x \in AgentCommand /\ x.at = "forgetting" /\ x.slot = 0 /\ x.kind # "send"
        BY <1>1, <1>3, <2>1 DEF AgentCommand, Stages
    <2>3. /\ commands[c].slot = 0 /\ commands' = [commands EXCEPT ![c] = x]
          /\ UNCHANGED << use, fromNew, log, spec, entry, agent >> /\ live' \subseteq Ids
          /\ focus' = New \/ focus' = focus
          /\ \A d \in Commands : commands[d].at \notin AtTheRail
        BY <1>1, <1>2, <1>3, <1>6, CareIs DEF Delete
    <2> HIDE DEF x
    <2> QED BY <1>1, <2>2, <2>3, ListStep DEF AtTheRail
<1> QED BY <1>4, <1>5, <1>6

LEMMA OutdatedIs ==
    ASSUME AgentsInv
    PROVE  /\ Outdated \in [Targets -> Entry]
           /\ \A p \in Targets : Outdated[p].slot = entry[p].slot
           /\ \A p \in Targets : Outdated[p].slot = 0 => Outdated[p] = NoEntry
<1>1. entry \in [Targets -> Entry] /\ NoHalfEntry
    BY DEF AgentsInv, AgentsTyped
<1>2. ASSUME NEW p \in Targets
      PROVE  /\ Outdated[p] \in Entry /\ Outdated[p].slot = entry[p].slot
             /\ Outdated[p].slot = 0 => Outdated[p] = NoEntry
    <2>1. PICK x \in Entry : x = entry[p]
        BY <1>1
    <2>2. Outdated[p] = [x EXCEPT !.current = FALSE]
        BY <2>1 DEF Outdated
    <2>3. x.slot = 0 => x = NoEntry
        BY <1>1, <2>1 DEF NoHalfEntry
    <2> QED BY <2>1, <2>2, <2>3 DEF Entry, NoEntry
<1>3. Outdated \in [Targets -> Entry]
    BY <1>2 DEF Outdated
<1> QED BY <1>2, <1>3

LEMMA PruneIs ==
    ASSUME NEW e \in [Targets -> Entry]
    PROVE  /\ Prune(e) \in [Targets -> Entry]
           /\ \A p \in Targets :
                  Prune(e)[p] = NoEntry \/ (Prune(e)[p] = e[p] /\ e[p].slot # 0)
BY AgentBasics DEF Prune

LEMMA DisconnectKeeps ==
    ASSUME AgentsInv, Disconnect
    PROVE  AgentsInv'
<1> DEFINE e == Prune(Outdated)
<1>1. /\ AgentsTyped /\ agent \in [Slots -> Agent] /\ UNCHANGED << use, chats >> /\ spec' = Off
      /\ Become(e, agent, commands)
    BY DEF AgentsInv, AgentsTyped, Disconnect
<1>2. /\ e \in [Targets -> Entry]
      /\ \A p \in Targets : e[p] = NoEntry \/ (e[p].slot = entry[p].slot /\ e[p].slot # 0)
    BY OutdatedIs, PruneIs
<1> HIDE DEF e
<1>3. /\ entry' = e /\ commands' = commands /\ agent' \in [Slots -> Agent]
      /\ \A s \in Slots : agent'[s] = IF Used(s)' THEN agent[s] ELSE NewAgent(None)
      /\ DroppedIsReset'
    BY <1>1, BecomeIs
<1>4. AgentsTyped'
    BY <1>1, <1>2, <1>3 DEF AgentsTyped, chats
<1>5. FewerEntries
    BY <1>2, <1>3, AgentBasics DEF FewerEntries
<1>6. SameResumes /\ NoHalfEntry'
    BY <1>2, <1>3 DEF SameResumes, NoHalfEntry
<1>7. ASSUME NEW c \in Commands PROVE WellAt(c)' /\ ReadOwn(c)' /\ FindsOwn(c)
    <2>1. WellAt(c) /\ ReadOwn(c)
        BY DEF AgentsInv
    <2>2. WellAt(c)' /\ ReadOwn(c)'
        BY <1>1, <1>3, <2>1 DEF WellAt, ReadOwn, Own, chats
    <2> QED BY <1>3, <2>2 DEF FindsOwn, SendsWith
<1>8. OneMaking' /\ OneAtTheRail' /\ log' = log
    BY <1>1, <1>3 DEF AgentsInv, OneMaking, Making, OneAtTheRail, chats
<1> QED BY <1>3, <1>4, <1>5, <1>6, <1>7, <1>8, QuietStep

LEMMA TimerKeeps ==
    ASSUME AgentsInv, NEW s \in Slots, NEW n \in 1..MaxFills, TimerFires(s, n)
    PROVE  AgentsInv'
<1>1. /\ AgentsTyped /\ agent \in [Slots -> Agent]
      /\ UNCHANGED << use, chats, spec, entry, commands >>
    BY DEF AgentsInv, AgentsTyped, TimerFires
<1>2. PICK x \in Agent : x = agent[s]
    BY <1>1
<1>3. PICK w \in Warm : agent' = [agent EXCEPT ![s] = [x EXCEPT !.timers = x.timers \ {n}, !.warm = w]]
    <2> DEFINE w == IF x.warm.n = n THEN NoWarm ELSE x.warm
    <2>1. w \in Warm
        BY AgentBasics DEF Agent
    <2>2. agent' = [agent EXCEPT ![s] = [x EXCEPT !.timers = x.timers \ {n}, !.warm = w]]
        BY <1>1, <1>2 DEF TimerFires, Agent
    <2> QED BY <2>1, <2>2
<1>4. /\ [x EXCEPT !.timers = x.timers \ {n}, !.warm = w] \in Agent
      /\ [x EXCEPT !.timers = x.timers \ {n}, !.warm = w].resume = x.resume
    BY DEF Agent
<1>5. /\ agent' \in [Slots -> Agent] /\ \A t \in Slots : agent'[t].resume = agent[t].resume
      /\ \A t \in Slots : t # s => agent'[t] = agent[t]
    BY <1>1, <1>2, <1>3, <1>4
<1>6. AgentsTyped'
    BY <1>1, <1>5 DEF AgentsTyped, chats
<1>7. Used(s)
    <2>1. agent[s].timers # {}
        BY DEF TimerFires
    <2> QED BY <2>1, AgentBasics DEF AgentsInv, DroppedIsReset
<1>8. \A t \in Slots : Used(t)' <=> Used(t)
    BY <1>1 DEF Used
<1>9. DroppedIsReset'
    <2> SUFFICES ASSUME NEW t \in Slots, ~Used(t)' PROVE agent'[t] = NewAgent(None)
        BY DEF DroppedIsReset, NewAgent
    <2>1. t # s /\ ~Used(t)
        BY <1>7, <1>8
    <2> QED BY <1>5, <2>1 DEF AgentsInv, DroppedIsReset
<1>10. FewerEntries /\ SameResumes /\ NoHalfEntry'
    BY <1>1, <1>5 DEF FewerEntries, SameResumes, AgentsInv, NoHalfEntry
<1>11. ASSUME NEW c \in Commands PROVE WellAt(c)' /\ ReadOwn(c)' /\ FindsOwn(c)
    <2>1. WellAt(c) /\ ReadOwn(c)
        BY DEF AgentsInv
    <2>2. WellAt(c)' /\ ReadOwn(c)'
        BY <1>1, <2>1 DEF WellAt, ReadOwn, Own, chats
    <2> QED BY <1>1, <2>2 DEF FindsOwn, SendsWith
<1>12. OneMaking' /\ OneAtTheRail' /\ log' = log
    BY <1>1 DEF AgentsInv, OneMaking, Making, OneAtTheRail, chats
<1> QED BY <1>6, <1>9, <1>10, <1>11, <1>12, QuietStep

LEMMA ForgetKeeps ==
    ASSUME AgentsInv, NEW c \in Commands, ForgetAgent(c)
    PROVE  AgentsInv'
<1> DEFINE e == [entry EXCEPT ![commands[c].aim] = NoEntry]
<1>1. /\ AgentsTyped /\ agent \in [Slots -> Agent] /\ UNCHANGED << use, chats, spec >>
      /\ entry \in [Targets -> Entry] /\ commands[c] \in AgentCommand /\ NoHalfEntry
      /\ commands[c].at = "forgetting"
    BY DEF AgentsInv, AgentsTyped, ForgetAgent
<1>2. /\ e \in [Targets -> Entry]
      /\ \A p \in Targets : e[p] = NoEntry \/ e[p] = entry[p]
    BY <1>1, AgentBasics DEF AgentCommand
<1>3. PICK z \in AgentCommand : z = Idle
    BY AgentBasics
<1> DEFINE x == IF commands[c].kind = "open" THEN [z EXCEPT !.at = "adopting"] ELSE z
<1>4. /\ x \in AgentCommand /\ x.at \in {"idle", "adopting"} /\ x.kind = "" /\ x.slot = 0
      /\ x.read = None
    <2>1. /\ z.at = "idle" /\ z.kind = "" /\ z.slot = 0 /\ z.read = None
        BY <1>3 DEF Idle
    <2>2. /\ [z EXCEPT !.at = "adopting"] \in AgentCommand
          /\ [z EXCEPT !.at = "adopting"].at = "adopting" /\ [z EXCEPT !.at = "adopting"].kind = ""
          /\ [z EXCEPT !.at = "adopting"].slot = 0 /\ [z EXCEPT !.at = "adopting"].read = None
        BY <2>1 DEF AgentCommand, Stages
    <2> QED BY <2>1, <2>2
<1> DEFINE cs == [commands EXCEPT ![c] = x]
<1>5. Become(e, agent, cs)
    BY <1>3 DEF ForgetAgent, Done
<1> HIDE DEF e, x
<1>6. /\ entry' = e /\ commands' = cs /\ agent' \in [Slots -> Agent]
      /\ \A s \in Slots : agent'[s] = IF Used(s)' THEN agent[s] ELSE NewAgent(None)
      /\ DroppedIsReset'
    <2> HIDE DEF cs
    <2> QED BY <1>1, <1>5, BecomeIs
<1>7. commands' \in [Commands -> AgentCommand] /\ commands'[c] = x /\ Others(c)
    BY <1>1, <1>4, <1>6, CommandBecomes
<1>8. AgentsTyped'
    BY <1>1, <1>2, <1>6, <1>7 DEF AgentsTyped, chats
<1>9. FewerEntries
    BY <1>2, <1>6, AgentBasics DEF FewerEntries
<1>10. SameResumes /\ NoHalfEntry'
    BY <1>1, <1>2, <1>6 DEF SameResumes, NoHalfEntry
<1>11. WellAt(c)'
    BY <1>4, <1>7 DEF WellAt, HasAgent, HasChosen, WithAgent
<1>12. ReadOwn(c)'
    BY <1>4, <1>7 DEF ReadOwn, Own
<1>13. FindsOwn(c) /\ SendsOrNot(c) /\ RailOrNot(c)
    BY <1>1, <1>4, <1>7 DEF FindsOwn, SendsWith, SendsOrNot, RailOrNot, AtTheRail
<1>14. UNCHANGED chats
    BY <1>1
<1> QED BY <1>6, <1>7, <1>8, <1>9, <1>10, <1>11, <1>12, <1>13, <1>14, OneMoves

\* Chat p is given an agent made for it, which command c may have at once.
LEMMA NewAgentStep ==
    ASSUME AgentsInv, AgentsTyped', NEW c \in Commands, Others(c),
           NEW p \in Targets, NEW u \in Slots, ~Used(u),
           \A q \in Targets, s \in Slots :
               entry'[q].slot = s => (q = p /\ s = u) \/ entry[q].slot = s,
           \A s \in Slots : Used(s)' /\ s # u => agent'[s].resume = agent[s].resume,
           Own(agent'[u].resume, p),
           commands'[c].slot = 0 \/ (commands'[c].slot = u /\ commands'[c].aim = p),
           UNCHANGED chats, NoHalfEntry', DroppedIsReset',
           WellAt(c)', ReadOwn(c)', SendsOrNot(c), RailOrNot(c)
    PROVE  AgentsInv'
<1>1. focus' = focus /\ fromNew' = fromNew /\ log' = log
    BY DEF chats
<1>2. \A d \in Commands : WellAt(d)' /\ ReadOwn(d)'
    BY <1>1, OthersStay
<1>3. OneMaking'
    <2>1. Making(c)' => Making(c) \/ \A d \in Commands : ~Making(d)
        BY DEF SendsOrNot, Making
    <2>2. commands'[c].kind = "send" /\ commands'[c].aim = New =>
              (commands[c].kind = "send" /\ commands[c].aim = New) \/ focus = New
        BY DEF SendsOrNot
    <2> QED BY <1>1, <2>1, <2>2, MakingStaysOne
<1>4. OneAtTheRail'
    BY RailStaysOne DEF RailOrNot
<1>5. /\ \A q \in Targets : entry[q].slot # u
      /\ \A d \in Commands : commands[d].slot # u
    BY DEF Used
<1>6. \A q \in Targets, s \in Slots :
          entry'[q].slot = s => (q = p /\ s = u) \/ (s # u /\ entry[q].slot = s)
    BY <1>5
<1>7. OneChatPerAgent'
    <2> SUFFICES ASSUME NEW q \in Targets, NEW r \in Targets, q # r,
                        entry'[q].slot # 0, entry'[q].slot = entry'[r].slot
                 PROVE  FALSE
        BY DEF OneChatPerAgent
    <2>1. entry'[q].slot \in Slots
        BY DEF AgentsTyped, Entry
    <2>2. entry[q].slot = entry'[q].slot /\ entry[r].slot = entry'[q].slot
        BY <1>6, <2>1
    <2> QED BY <2>2 DEF AgentsInv, OneChatPerAgent
<1>8. EntryOwn'
    <2> SUFFICES ASSUME NEW q \in Targets, NEW s \in Slots, entry'[q].slot = s
                 PROVE  Own(agent'[s].resume, q)
        BY DEF EntryOwn, Own
    <2>1. CASE q = p /\ s = u
        BY <2>1
    <2>2. CASE s # u /\ entry[q].slot = s
        <3>1. agent'[s].resume = agent[s].resume
            BY <2>2 DEF Used
        <3> QED BY <2>2, <3>1 DEF AgentsInv, EntryOwn
    <2> QED BY <1>6, <2>1, <2>2
<1>9. LogOwn'
    BY <1>1 DEF AgentsInv, LogOwn, Own
<1>10. ASSUME NEW d \in Commands, NEW s \in Slots, SendsWith(d, s)'
       PROVE  \/ d = c /\ s = u /\ commands'[d].aim = p
              \/ s # u /\ SendsWith(d, s) /\ commands'[d] = commands[d]
    <2>1. CASE d = c
        BY <1>10, <2>1, AgentBasics DEF SendsWith
    <2>2. CASE d # c
        BY <1>5, <1>10, <2>2 DEF SendsWith, Others
    <2> QED BY <2>1, <2>2
<1>11. ASSUME NEW d \in Commands PROVE HasOwn(d)'
    <2> SUFFICES ASSUME NEW s \in Slots, SendsWith(d, s)'
                 PROVE  /\ Own(agent'[s].resume, commands'[d].aim)
                        /\ \A q \in Targets : entry'[q].slot = s =>
                               q = commands'[d].aim \/ (q = New /\ commands'[d].at = "named")
        BY DEF HasOwn, Own
    <2>1. CASE d = c /\ s = u /\ commands'[d].aim = p
        BY <1>6, <2>1
    <2>2. CASE s # u /\ SendsWith(d, s) /\ commands'[d] = commands[d]
        <3>1. HasOwn(d)
            BY DEF AgentsInv
        <3>2. agent'[s].resume = agent[s].resume
            BY <2>2 DEF Used, SendsWith
        <3> QED BY <1>6, <2>2, <3>1, <3>2 DEF HasOwn
    <2> QED BY <1>10, <2>1, <2>2
<1>12. SharedAgent'
    <2> SUFFICES ASSUME NEW d \in Commands, NEW f \in Commands, NEW s \in Slots,
                        SendsWith(d, s)', SendsWith(f, s)'
                 PROVE  commands'[d].aim = commands'[f].aim
        BY DEF SharedAgent
    <2>1. CASE s = u
        BY <1>10, <2>1
    <2>2. CASE s # u
        <3>1. /\ SendsWith(d, s) /\ commands'[d] = commands[d]
              /\ SendsWith(f, s) /\ commands'[f] = commands[f]
            BY <1>10, <2>2
        <3> QED BY <3>1 DEF AgentsInv, SharedAgent
    <2> QED BY <2>1, <2>2
<1> QED BY <1>2, <1>3, <1>4, <1>7, <1>8, <1>9, <1>11, <1>12 DEF AgentsInv

LEMMA MakeKeeps ==
    ASSUME AgentsInv, NEW c \in Commands, Make(c)
    PROVE  AgentsInv'
<1> DEFINE p == commands[c].aim
           u == Unused
<1>1. /\ AgentsTyped /\ WellAt(c) /\ ReadOwn(c) /\ NoHalfEntry /\ agent \in [Slots -> Agent]
      /\ entry \in [Targets -> Entry] /\ commands[c] \in AgentCommand /\ p \in Targets
      /\ commands[c].at = "read" /\ UNCHANGED << use, chats, spec >>
      /\ commands \in [Commands -> AgentCommand]
    BY DEF AgentsInv, AgentsTyped, AgentCommand, Make
<1>2. commands[c].slot = 0 /\ commands[c].read \in Talks /\ Own(commands[c].read, p)
    BY <1>1 DEF WellAt, HasAgent, WithAgent, ReadOwn, AgentCommand
<1>3. CASE Usable(p)
    <2> DEFINE s == entry[p].slot
               cs == AtFinding(c, s)
    <2>1. s \in Slots
        BY <1>1, <1>3 DEF Usable, NoHalfEntry, Entry
    <2>2. Become(entry, agent, cs)
        BY <1>3 DEF Make, AtFinding
    <2>3. commands' = cs
        BY <2>2 DEF Become
    <2>4. /\ cs \in [Commands -> AgentCommand] /\ \A d \in Commands : d # c => cs[d] = commands[d]
          /\ cs[c].at = "found" /\ cs[c].slot = s /\ cs[c].kind = commands[c].kind
          /\ cs[c].aim = p
        BY <1>1, <2>1, MovedFinding
    <2> HIDE DEF cs, s, p
    <2>5. Others(c) /\ WellAt(c)' /\ ReadOwn(c)'
        BY <2>1, <2>3, <2>4, AgentBasics DEF Others, WellAt, ReadOwn, HasAgent, HasChosen, WithAgent
    <2>6. FindsOwn(c)
        <3> SUFFICES ASSUME NEW t \in Slots, SendsWith(c, t)'
                     PROVE  /\ entry[commands'[c].aim].slot = t
                            /\ commands'[c].aim = New => \A d \in Commands : Making(d) => d = c
            BY DEF FindsOwn
        <3>1. t = s /\ commands'[c].aim = p /\ commands[c].kind = "send"
            BY <2>3, <2>4 DEF SendsWith
        <3>2. p = New => Making(c)
            BY <3>1 DEF Making, p
        <3> QED BY <3>1, <3>2 DEF s, AgentsInv, OneMaking
    <2>7. SendsOrNot(c) /\ RailOrNot(c)
        BY <2>3, <2>4 DEF SendsOrNot, RailOrNot, AtTheRail, p
    <2> QED BY <1>1, <2>2, <2>4, <2>5, <2>6, <2>7, BecomeStep
<1>4. CASE ~Usable(p) /\ spec = Off
    <2>1. Become(entry, agent, Done(c))
        BY <1>4 DEF Make
    <2>2. commands' = Done(c)
        BY <2>1 DEF Become
    <2>3. Done(c) \in [Commands -> AgentCommand] /\ Others(c) /\ commands'[c] = Idle
        BY <1>1, <2>2, DoneIsIdle DEF Others
    <2> QED BY <1>1, <2>1, <2>3, IdleIsWell, BecomeStep
<1>5. CASE ~Usable(p) /\ spec # Off
    <2> DEFINE cs == AtFinding(c, u)
               e == [entry EXCEPT ![p] = [slot |-> u, current |-> TRUE]]
               a == [agent EXCEPT ![u] = NewAgent(commands[c].read)]
    <2>1. u \in Slots /\ ~Used(u)
        BY <1>1, <1>2, UnusedIs
    <2>2. Become(e, a, cs)
        BY <1>5 DEF Make, AtFinding
    <2> HIDE DEF u
    <2>3. e \in [Targets -> Entry] /\ e[p].slot = u /\ \A q \in Targets : q # p => e[q] = entry[q]
        <3>1. [slot |-> u, current |-> TRUE] \in Entry
            BY <2>1 DEF Entry
        <3> QED BY <1>1, <3>1
    <2>4. /\ a \in [Slots -> Agent] /\ a[u].resume = commands[c].read
          /\ \A s \in Slots : s # u => a[s] = agent[s]
        <3>1. NewAgent(commands[c].read) \in Agent /\ NewAgent(commands[c].read).resume = commands[c].read
            BY <1>2, AgentBasics
        <3> QED BY <1>1, <2>1, <3>1
    <2>5. /\ cs \in [Commands -> AgentCommand] /\ \A d \in Commands : d # c => cs[d] = commands[d]
          /\ cs[c].at = "found" /\ cs[c].slot = u /\ cs[c].kind = commands[c].kind
          /\ cs[c].aim = p
        BY <1>1, <2>1, MovedFinding
    <2> HIDE DEF e, a, cs, p
    <2>6. /\ entry' = e /\ commands' = cs /\ agent' \in [Slots -> Agent]
          /\ \A s \in Slots : agent'[s] = IF Used(s)' THEN a[s] ELSE NewAgent(None)
          /\ DroppedIsReset'
        BY <2>2, <2>4, BecomeIs
    <2>7. AgentsTyped'
        BY <1>1, <2>3, <2>5, <2>6 DEF AgentsTyped, chats
    <2>8. Others(c) /\ WellAt(c)' /\ ReadOwn(c)'
        BY <2>1, <2>5, <2>6, AgentBasics DEF Others, WellAt, ReadOwn, HasAgent, HasChosen, WithAgent
    <2>9. SendsOrNot(c) /\ RailOrNot(c)
        BY <2>5, <2>6 DEF SendsOrNot, RailOrNot, AtTheRail, p
    <2>10. \A q \in Targets, s \in Slots : entry'[q].slot = s => (q = p /\ s = u) \/ entry[q].slot = s
        BY <2>3, <2>6
    <2>11. \A s \in Slots : Used(s)' /\ s # u => agent'[s].resume = agent[s].resume
        BY <2>4, <2>6
    <2>12. Own(agent'[u].resume, p)
        <3>1. agent'[u] = a[u] \/ agent'[u] = NewAgent(None)
            BY <2>1, <2>6
        <3> QED BY <1>2, <2>4, <3>1, AgentBasics DEF Own
    <2>13. NoHalfEntry'
        BY <1>1, <2>1, <2>3, <2>6, AgentBasics DEF NoHalfEntry
    <2>14. commands'[c].slot = u /\ commands'[c].aim = p /\ UNCHANGED chats
        BY <1>1, <2>5, <2>6
    <2> QED BY <1>1, <2>1, <2>6, <2>7, <2>8, <2>9, <2>10, <2>11, <2>12, <2>13, <2>14, NewAgentStep
<1> QED BY <1>3, <1>4, <1>5

LEMMA ConnectKeeps ==
    ASSUME AgentsInv, NEW c \in Commands, Connect(c)
    PROVE  AgentsInv'
<1> DEFINE p == focus
           u == Unused
           r == commands[c].read
<1>1. /\ AgentsTyped /\ WellAt(c) /\ ReadOwn(c) /\ NoHalfEntry /\ agent \in [Slots -> Agent]
      /\ entry \in [Targets -> Entry] /\ commands[c] \in AgentCommand /\ p \in Targets
      /\ commands[c].at = "built" /\ spec' = r /\ UNCHANGED << use, chats >>
    BY DEF AgentsInv, AgentsTyped, Connect
<1>2. commands[c].slot = 0 /\ r \in Talks /\ Own(r, p)
    BY <1>1 DEF WellAt, HasAgent, WithAgent, ReadOwn, AgentCommand
<1>3. /\ Done(c) \in [Commands -> AgentCommand] /\ Done(c)[c] = Idle
      /\ \A d \in Commands : d # c => Done(c)[d] = commands[d]
    BY <1>1, DoneIsIdle
<1>4. /\ Outdated \in [Targets -> Entry]
      /\ \A q \in Targets : Outdated[q].slot = entry[q].slot
      /\ \A q \in Targets : Outdated[q].slot = 0 => Outdated[q] = NoEntry
    BY OutdatedIs
<1>5. CASE Become(Outdated, agent, Done(c))
    <2>1. /\ entry' = Outdated /\ commands' = Done(c) /\ agent' \in [Slots -> Agent]
          /\ \A s \in Slots : agent'[s] = IF Used(s)' THEN agent[s] ELSE NewAgent(None)
          /\ DroppedIsReset'
        BY <1>1, <1>5, BecomeIs
    <2>2. AgentsTyped'
        BY <1>1, <1>2, <1>3, <1>4, <2>1 DEF AgentsTyped, chats
    <2>3. FewerEntries /\ SameResumes /\ NoHalfEntry' /\ UNCHANGED chats
        BY <1>1, <1>4, <2>1 DEF FewerEntries, SameResumes, NoHalfEntry
    <2>4. Others(c) /\ commands'[c] = Idle
        BY <1>3, <2>1 DEF Others
    <2> QED BY <2>1, <2>2, <2>3, <2>4, IdleIsWell, OneMoves
<1>6. CASE Become(Prune([Outdated EXCEPT ![p] = [slot |-> u, current |-> TRUE]]),
                  [agent EXCEPT ![u] = NewAgent(r)], Done(c))
    <2> DEFINE b == [Outdated EXCEPT ![p] = [slot |-> u, current |-> TRUE]]
               e == Prune(b)
               a == [agent EXCEPT ![u] = NewAgent(r)]
    <2>1. u \in Slots /\ ~Used(u)
        BY <1>1, <1>2, UnusedIs
    <2>2. Become(e, a, Done(c))
        BY <1>6
    <2> HIDE DEF u
    <2>3. b \in [Targets -> Entry] /\ b[p].slot = u /\ \A q \in Targets : q # p => b[q] = Outdated[q]
        <3>1. [slot |-> u, current |-> TRUE] \in Entry
            BY <2>1 DEF Entry
        <3> QED BY <1>1, <1>4, <3>1
    <2> HIDE DEF b
    <2>4. /\ e \in [Targets -> Entry]
          /\ \A q \in Targets : e[q] = NoEntry \/ (e[q] = b[q] /\ b[q].slot # 0)
        BY <2>3, PruneIs
    <2>5. /\ a \in [Slots -> Agent] /\ a[u].resume = r
          /\ \A s \in Slots : s # u => a[s] = agent[s]
        <3>1. NewAgent(r) \in Agent /\ NewAgent(r).resume = r
            BY <1>2, AgentBasics
        <3> HIDE DEF r
        <3> QED BY <1>1, <2>1, <3>1
    <2> HIDE DEF e, a, p, r
    <2>6. /\ entry' = e /\ commands' = Done(c) /\ agent' \in [Slots -> Agent]
          /\ \A s \in Slots : agent'[s] = IF Used(s)' THEN a[s] ELSE NewAgent(None)
          /\ DroppedIsReset'
        BY <2>2, <2>5, BecomeIs
    <2>7. AgentsTyped'
        BY <1>1, <1>2, <1>3, <2>4, <2>6 DEF AgentsTyped, chats
    <2>8. Others(c) /\ commands'[c] = Idle /\ commands'[c].slot = 0 /\ UNCHANGED chats
        BY <1>1, <1>3, <2>6, AgentBasics DEF Others
    <2>9. WellAt(c)' /\ ReadOwn(c)' /\ SendsOrNot(c) /\ RailOrNot(c)
        BY <2>8, IdleIsWell
    <2>10. ASSUME NEW q \in Targets, NEW s \in Slots, entry'[q].slot = s
           PROVE  (q = p /\ s = u) \/ entry[q].slot = s
        <3>1. e[q] = b[q]
            BY <2>4, <2>6, <2>10, AgentBasics
        <3> QED BY <1>4, <2>3, <2>6, <2>10, <3>1
    <2>11. \A s \in Slots : Used(s)' /\ s # u => agent'[s].resume = agent[s].resume
        BY <2>5, <2>6
    <2>12. Own(agent'[u].resume, p)
        <3>1. agent'[u] = a[u] \/ agent'[u] = NewAgent(None)
            BY <2>1, <2>6
        <3> QED BY <1>2, <2>5, <3>1, AgentBasics DEF Own
    <2>13. NoHalfEntry'
        BY <2>4, <2>6 DEF NoHalfEntry
    <2> QED BY <1>1, <2>1, <2>6, <2>7, <2>8, <2>9, <2>10, <2>11, <2>12, <2>13, NewAgentStep
<1> QED BY <1>5, <1>6 DEF Connect

LEMMA AdoptNewKeeps ==
    ASSUME AgentsInv, NEW c \in Commands, AdoptNew(c)
    PROVE  AgentsInv'
<1> DEFINE u == commands[c].slot
           i == commands[c].chat
           own == entry[New].slot = u
           e == [entry EXCEPT ![i] = [slot |-> u, current |-> own => entry[New].current]]
           f == IF own THEN [e EXCEPT ![New] = NoEntry] ELSE e
           cs == Moved(c, "turn")
<1>1. /\ AgentsTyped /\ WellAt(c) /\ HasOwn(c) /\ NoHalfEntry /\ agent \in [Slots -> Agent]
      /\ entry \in [Targets -> Entry] /\ commands[c] \in AgentCommand
      /\ commands[c].at = "named" /\ UNCHANGED << use, chats, spec >>
      /\ Become(f, agent, cs)
    BY DEF AgentsInv, AgentsTyped, AdoptNew
<1>2. /\ u \in Slots /\ commands[c].kind = "send" /\ i = commands[c].aim /\ i \in Ids
      /\ i \in Targets /\ i # New /\ New \in Targets
    <2>1. u \in Slots \cup {0} /\ u # 0
        BY <1>1 DEF AgentCommand, WellAt, HasAgent, WithAgent
    <2>2. commands[c].kind = "send" /\ i = commands[c].aim /\ i \in Ids
        BY <1>1 DEF WellAt, HasChosen
    <2> QED BY <2>1, <2>2, AgentBasics
<1>3. [slot |-> u, current |-> own => entry[New].current] \in Entry
    <2>1. (own => entry[New].current) \in BOOLEAN
        OBVIOUS
    <2> QED BY <1>2, <2>1 DEF Entry
<1>4. /\ f \in [Targets -> Entry] /\ f[i].slot = u
      /\ \A q \in Targets : q # i => f[q] = entry[q] \/ (q = New /\ f[q] = NoEntry)
      /\ own => f[New] = NoEntry
    <2>1. PICK z \in Entry : z = [slot |-> u, current |-> own => entry[New].current]
        BY <1>3
    <2>2. z.slot = u
        BY <2>1
    <2>3. e = [entry EXCEPT ![i] = z]
        BY <2>1
    <2> HIDE DEF e, own, u, i
    <2> QED BY <1>1, <1>2, <2>2, <2>3, AgentBasics
<1>5. \A q \in Targets : entry[q].slot = u => q = i \/ q = New
    BY <1>1, <1>2 DEF HasOwn, SendsWith
<1>6. ASSUME NEW q \in Targets, NEW s \in Slots, f[q].slot = s
      PROVE  (q = i /\ s = u) \/ (s # u /\ entry[q].slot = s)
    <2>1. s # 0
        BY AgentBasics
    <2>2. CASE q = i
        BY <1>4, <1>6, <2>2
    <2>3. CASE q # i
        <3>1. f[q] = entry[q]
            BY <1>4, <1>6, <2>1, <2>3, AgentBasics
        <3>2. ~(q = New /\ own)
            BY <1>4, <1>6, <2>1, AgentBasics
        <3> QED BY <1>5, <1>6, <2>3, <3>1, <3>2
    <2> QED BY <2>2, <2>3
<1> HIDE DEF f, e, own
<1>7. /\ entry' = f /\ commands' = cs /\ agent' \in [Slots -> Agent]
      /\ \A s \in Slots : agent'[s] = IF Used(s)' THEN agent[s] ELSE NewAgent(None)
      /\ DroppedIsReset'
    <2> HIDE DEF cs
    <2> QED BY <1>1, BecomeIs
<1>8. /\ cs \in [Commands -> AgentCommand] /\ Others(c)
      /\ cs[c].at = "turn" /\ cs[c].kind = commands[c].kind /\ cs[c].aim = i
      /\ cs[c].chat = i /\ cs[c].slot = u
    <2>1. "turn" \in Stages
        BY DEF Stages
    <2> QED BY <1>1, <1>2, <1>7, <2>1, MovedIs DEF Others
<1> HIDE DEF cs, i, u
<1>9. AgentsTyped'
    BY <1>1, <1>4, <1>7, <1>8 DEF AgentsTyped, chats
<1>10. \A d \in Commands :
           /\ commands'[d].slot = commands[d].slot /\ commands'[d].kind = commands[d].kind
           /\ commands'[d].aim = commands[d].aim
    BY <1>2, <1>7, <1>8 DEF Others, u
<1>11. \A d \in Commands, s \in Slots : SendsWith(d, s)' <=> SendsWith(d, s)
    BY <1>10 DEF SendsWith
<1>12. SharedAgent'
    BY <1>10, <1>11 DEF AgentsInv, SharedAgent
<1>13. SendsWith(c, u)
    BY <1>2 DEF SendsWith, u
<1>14. ASSUME NEW d \in Commands, NEW s \in Slots, SendsWith(d, s)'
       PROVE  /\ Own(agent'[s].resume, commands'[d].aim)
              /\ \A q \in Targets : entry'[q].slot = s =>
                     q = commands'[d].aim \/ (q = New /\ commands'[d].at = "named")
    <2>1. SendsWith(d, s) /\ HasOwn(d) /\ SharedAgent /\ OneMaking
        BY <1>11, <1>14 DEF AgentsInv
    <2>2. agent'[s] = agent[s]
        BY <1>7, <1>14 DEF Used, SendsWith
    <2>3. ASSUME NEW q \in Targets, entry'[q].slot = s
          PROVE  q = commands'[d].aim \/ (q = New /\ commands'[d].at = "named")
        <3>1. CASE q = i /\ s = u
            BY <1>2, <1>10, <1>13, <2>1, <3>1 DEF SharedAgent
        <3>2. CASE s # u /\ entry[q].slot = s
            <4>1. d # c
                BY <1>13, <2>1, <3>2 DEF SendsWith
            <4>2. commands'[d] = commands[d]
                BY <1>8, <4>1 DEF Others
            <4>3. q = commands[d].aim \/ (q = New /\ commands[d].at = "named")
                BY <2>1, <3>2 DEF HasOwn
            <4> QED BY <4>2, <4>3
        <3> QED BY <1>6, <1>7, <2>3, <3>1, <3>2
    <2> QED BY <1>10, <2>1, <2>2, <2>3 DEF HasOwn
<1>15. \A d \in Commands : HasOwn(d)'
    BY <1>14 DEF HasOwn, Own
<1>16. EntryOwn'
    <2> SUFFICES ASSUME NEW q \in Targets, NEW s \in Slots, entry'[q].slot = s
                 PROVE  Own(agent'[s].resume, q)
        BY DEF EntryOwn, Own
    <2>1. agent'[s] = agent[s]
        BY <1>7 DEF Used
    <2>2. CASE q = i /\ s = u
        BY <1>1, <1>2, <1>13, <2>1, <2>2 DEF HasOwn
    <2>3. CASE s # u /\ entry[q].slot = s
        BY <2>1, <2>3 DEF AgentsInv, EntryOwn
    <2> QED BY <1>6, <1>7, <2>2, <2>3
<1>17. OneChatPerAgent'
    <2> SUFFICES ASSUME NEW q \in Targets, NEW r \in Targets, q # r,
                        entry'[q].slot # 0, entry'[q].slot = entry'[r].slot
                 PROVE  FALSE
        BY DEF OneChatPerAgent
    <2>1. entry'[q].slot \in Slots
        BY <1>9 DEF AgentsTyped, Entry
    <2>2. entry[q].slot = entry'[q].slot /\ entry[r].slot = entry'[q].slot
        BY <1>6, <1>7, <2>1
    <2> QED BY <2>2 DEF AgentsInv, OneChatPerAgent
<1>18. NoHalfEntry'
    BY <1>1, <1>2, <1>4, <1>7, AgentBasics DEF NoHalfEntry
<1>19. LogOwn' /\ focus' = focus /\ fromNew' = fromNew
    BY <1>1 DEF AgentsInv, LogOwn, Own, chats
<1>20. \A d \in Commands : WellAt(d)' /\ ReadOwn(d)'
    <2>1. WellAt(c)' /\ ReadOwn(c)'
        BY <1>2, <1>7, <1>8, AgentBasics DEF WellAt, ReadOwn, HasAgent, HasChosen, WithAgent
    <2> QED BY <1>8, <1>19, <2>1, OthersStay
<1>21. OneMaking'
    <2>1. ~Making(c)'
        BY <1>2, <1>7, <1>8 DEF Making
    <2>2. ~(commands'[c].kind = "send" /\ commands'[c].aim = New)
        BY <1>2, <1>7, <1>8
    <2> QED BY <1>8, <1>19, <2>1, <2>2, MakingStaysOne
<1>22. OneAtTheRail'
    BY <1>7, <1>8, RailStaysOne DEF AtTheRail
<1> QED BY <1>7, <1>9, <1>12, <1>15, <1>16, <1>17, <1>18, <1>19, <1>20, <1>21, <1>22 DEF AgentsInv

LEMMA ChooseChatKeeps ==
    ASSUME AgentsInv, NEW c \in Commands, NEW i \in Ids, ChooseChat(c, i)
    PROVE  AgentsInv'
<1>1. /\ AgentsTyped /\ WellAt(c) /\ HasOwn(c) /\ commands \in [Commands -> AgentCommand]
      /\ commands[c] \in AgentCommand /\ OneMaking /\ SharedAgent
      /\ commands[c].at = "locked" /\ commands[c].kind = "send"
      /\ UNCHANGED << use, log, spec, entry, agent >> /\ i # New /\ i \in Targets
    BY AgentBasics DEF AgentsInv, AgentsTyped, ChooseChat
<1>2. commands[c].slot \in Slots
    <2>1. commands[c].slot \in Slots \cup {0} /\ commands[c].slot # 0
        BY <1>1 DEF AgentCommand, WellAt, HasAgent, WithAgent
    <2> QED BY <2>1
<1>3. "chosen" \in Stages /\ "named" \in Stages
    BY DEF Stages
<1>4. CASE commands[c].aim # New
    <2>1. /\ i = commands[c].aim
          /\ commands' = AtChoosing(c, "chosen", i)
          /\ UNCHANGED << focus, fromNew, live >>
        BY <1>4 DEF ChooseChat, AtChoosing
    <2>2. /\ commands' \in [Commands -> AgentCommand] /\ Others(c)
          /\ commands'[c].at = "chosen" /\ commands'[c].kind = "send"
          /\ commands'[c].slot = commands[c].slot
          /\ commands'[c].chat = i /\ commands'[c].aim = i
        BY <1>1, <1>3, <2>1, MovedChoosing DEF Others
    <2>3. WellAt(c)' /\ ReadOwn(c)'
        BY <1>1, <1>2, <2>2, AgentBasics DEF WellAt, ReadOwn, HasAgent, HasChosen, WithAgent
    <2>4. FindsOwn(c) /\ SendsOrNot(c) /\ RailOrNot(c)
        BY <1>1, <2>1, <2>2 DEF FindsOwn, SendsWith, SendsOrNot, RailOrNot, AtTheRail
    <2>5. UNCHANGED << use, chats, spec, entry, agent >>
        BY <1>1, <2>1 DEF chats
    <2> QED BY <2>2, <2>3, <2>4, <2>5, PlainStep
<1>5. CASE commands[c].aim = New
    <2>1. focus = New \/ focus # fromNew
        BY <1>1, <1>5 DEF OneMaking
    <2>2. (MakesChat(c, i, i, i) /\ focus = New) \/ MakesChat(c, i, focus, fromNew)
        BY <1>5, <2>1 DEF ChooseChat
    <2>3. /\ live' = live \cup {i}
          /\ commands' = AtChoosing(c, "named", i)
          /\ (focus = New /\ focus' = i /\ fromNew' = i) \/ (focus' = focus /\ fromNew' = fromNew)
        BY <2>2 DEF MakesChat, AtChoosing
    <2>4. /\ commands' \in [Commands -> AgentCommand] /\ Others(c)
          /\ commands'[c].at = "named" /\ commands'[c].kind = "send"
          /\ commands'[c].slot = commands[c].slot
          /\ commands'[c].chat = i /\ commands'[c].aim = i
        BY <1>1, <1>3, <2>3, MovedChoosing DEF Others
    <2>5. AgentsTyped'
        BY <1>1, <2>3, <2>4 DEF AgentsTyped
    <2>6. Making(c) /\ \A d \in Commands : d # c => ~Making(d)
        BY <1>1, <1>5 DEF Making, OneMaking
    <2>7. WellAt(c)' /\ ReadOwn(c)'
        BY <1>1, <1>2, <2>4, AgentBasics DEF WellAt, ReadOwn, HasAgent, HasChosen, WithAgent
    <2>8. ASSUME NEW d \in Commands, d # c PROVE WellAt(d)' /\ ReadOwn(d)'
        <3>1. commands'[d] = commands[d] /\ WellAt(d) /\ ReadOwn(d) /\ commands[d] \in AgentCommand
            BY <1>1, <2>4, <2>8 DEF AgentsInv, Others
        <3>2. WellAt(d)'
            BY <3>1 DEF WellAt
        <3>3. CASE focus' = focus
            BY <3>1, <3>2, <3>3 DEF ReadOwn, Own
        <3>4. CASE focus = New /\ focus' = i
            <4>1. \A r \in Talks : Own(r, focus) => r = None
                BY <3>4, AgentBasics DEF Own
            <4>2. commands[d].read \in Talks
                BY <3>1 DEF AgentCommand
            <4>3. commands[d].at # "opened"
                BY <3>1, <3>4, AgentBasics DEF ReadOwn
            <4> QED BY <3>1, <3>2, <3>4, <4>1, <4>2, <4>3 DEF ReadOwn, Own
        <3> QED BY <2>3, <3>3, <3>4
    <2>9. OneMaking'
        <3>1. \A d \in Commands : d # c => ~Making(d)'
            BY <2>4, <2>6 DEF Making, Others
        <3>2. \A d \in Commands : ~(commands'[d].kind = "send" /\ commands'[d].aim = New)
            BY <1>1, <2>4, <3>1 DEF Making
        <3> QED BY <3>1, <3>2 DEF OneMaking
    <2>10. OneAtTheRail'
        BY <2>4, RailStaysOne DEF AtTheRail
    <2>11. ASSUME NEW d \in Commands, NEW s \in Slots, SendsWith(d, s)'
           PROVE  /\ SendsWith(d, s)
                  /\ s = commands[c].slot => d = c
        <3>1. SendsWith(d, s)
            BY <1>1, <2>4, <2>11 DEF SendsWith, Others
        <3>2. ASSUME s = commands[c].slot, d # c PROVE FALSE
            <4>1. SendsWith(c, s)
                BY <1>1, <3>2 DEF SendsWith
            <4>2. commands[d].aim = New
                BY <1>1, <1>5, <3>1, <4>1 DEF SharedAgent
            <4> QED BY <2>6, <3>1, <3>2, <4>2 DEF Making, SendsWith
        <3> QED BY <3>1, <3>2
    <2>12. SharedAgent'
        <3> SUFFICES ASSUME NEW d \in Commands, NEW f \in Commands, NEW s \in Slots,
                            SendsWith(d, s)', SendsWith(f, s)'
                     PROVE  commands'[d].aim = commands'[f].aim
            BY DEF SharedAgent
        <3>1. CASE s = commands[c].slot
            BY <2>11, <3>1
        <3>2. CASE s # commands[c].slot
            <4>1. SendsWith(d, s) /\ SendsWith(f, s) /\ d # c /\ f # c
                BY <2>11, <3>2 DEF SendsWith
            <4> QED BY <1>1, <2>4, <4>1 DEF SharedAgent, Others
        <3> QED BY <3>1, <3>2
    <2>13. ASSUME NEW d \in Commands PROVE HasOwn(d)'
        <3> SUFFICES ASSUME NEW s \in Slots, SendsWith(d, s)'
                     PROVE  /\ Own(agent[s].resume, commands'[d].aim)
                            /\ \A q \in Targets : entry[q].slot = s =>
                                   q = commands'[d].aim \/ (q = New /\ commands'[d].at = "named")
            BY <1>1 DEF HasOwn, Own
        <3>1. SendsWith(d, s) /\ HasOwn(d)
            BY <2>11 DEF AgentsInv
        <3>2. CASE d # c
            BY <2>4, <3>1, <3>2 DEF HasOwn, Others
        <3>3. CASE d = c
            <4>1. Own(agent[s].resume, New) /\ \A q \in Targets : entry[q].slot = s => q = New
                BY <1>1, <1>5, <3>1, <3>3 DEF HasOwn
            <4>2. agent[s].resume = None
                BY <1>1, <4>1, AgentBasics DEF Own, AgentsTyped, Agent
            <4> QED BY <2>4, <3>3, <4>1, <4>2 DEF Own
        <3> QED BY <3>2, <3>3
    <2>14. EntryOwn' /\ NoHalfEntry' /\ LogOwn' /\ OneChatPerAgent'
        BY <1>1 DEF AgentsInv, EntryOwn, NoHalfEntry, LogOwn, OneChatPerAgent, Own
    <2>15. DroppedIsReset'
        <3>1. \A d \in Commands : commands'[d].slot = commands[d].slot
            BY <2>4 DEF Others
        <3>2. \A s \in Slots : Used(s)' <=> Used(s)
            BY <1>1, <3>1 DEF Used
        <3> QED BY <1>1, <3>2 DEF AgentsInv, DroppedIsReset
    <2> QED BY <2>5, <2>7, <2>8, <2>9, <2>10, <2>12, <2>13, <2>14, <2>15 DEF AgentsInv
<1> QED BY <1>4, <1>5

\* Command c ends, and what the agent of chat p resumes is set to a
\* conversation of p.
LEMMA ResumeStep ==
    ASSUME AgentsInv, NEW c \in Commands, NEW s \in Slots, NEW p \in Targets,
           NEW r \in Talks, Own(r, p),
           Become(entry, [agent EXCEPT ![s].resume = r], Done(c)),
           UNCHANGED << use, focus, fromNew, live, spec >>,
           log' \in [Ids -> Talks], LogOwn',
           \A q \in Targets : entry[q].slot = s => q = p,
           \A d \in Commands : d # c /\ SendsWith(d, s) => commands[d].aim = p
    PROVE  AgentsInv'
<1>1. AgentsTyped /\ agent \in [Slots -> Agent]
    BY DEF AgentsInv, AgentsTyped
<1>2. PICK x \in Agent : x = agent[s]
    BY <1>1
<1> DEFINE a == [agent EXCEPT ![s].resume = r]
<1>3. a \in [Slots -> Agent] /\ a[s].resume = r /\ \A t \in Slots : t # s => a[t] = agent[t]
    <2>1. [x EXCEPT !.resume = r] \in Agent /\ [x EXCEPT !.resume = r].resume = r
        BY DEF Agent
    <2>2. a = [agent EXCEPT ![s] = [x EXCEPT !.resume = r]]
        BY <1>2
    <2> HIDE DEF a
    <2> QED BY <1>1, <2>1, <2>2
<1> HIDE DEF a
<1>4. Become(entry, a, Done(c))
    BY DEF a
<1>5. /\ entry' = entry /\ commands' = Done(c) /\ agent' \in [Slots -> Agent]
      /\ \A t \in Slots : agent'[t] = IF Used(t)' THEN a[t] ELSE NewAgent(None)
      /\ DroppedIsReset'
    BY <1>3, <1>4, BecomeIs
<1>6. Done(c) \in [Commands -> AgentCommand] /\ commands'[c] = Idle /\ Others(c)
    BY <1>1, <1>5, DoneIsIdle DEF Others
<1>7. AgentsTyped'
    BY <1>1, <1>5, <1>6 DEF AgentsTyped
<1>8. \A d \in Commands : WellAt(d)' /\ ReadOwn(d)'
    BY <1>6, IdleIsWell, OthersStay
<1>9. OneMaking' /\ OneAtTheRail'
    <2>1. commands'[c].kind # "send" /\ commands'[c].at \notin AtTheRail
        BY <1>6, AgentBasics DEF AtTheRail
    <2> QED BY <1>6, <2>1, MakingStaysOne, RailStaysOne DEF Making
<1>10. \A t \in Slots : Used(t)' => agent'[t].resume = IF t = s THEN r ELSE agent[t].resume
    BY <1>3, <1>5
<1>11. ASSUME NEW d \in Commands, NEW t \in Slots, SendsWith(d, t)'
       PROVE  d # c /\ SendsWith(d, t) /\ commands'[d] = commands[d]
    BY <1>6, <1>11, AgentBasics DEF SendsWith, Others
<1>12. SharedAgent'
    <2> SUFFICES ASSUME NEW d \in Commands, NEW f \in Commands, NEW t \in Slots,
                        SendsWith(d, t)', SendsWith(f, t)'
                 PROVE  commands'[d].aim = commands'[f].aim
        BY DEF SharedAgent
    <2>1. /\ SendsWith(d, t) /\ commands'[d] = commands[d]
          /\ SendsWith(f, t) /\ commands'[f] = commands[f]
        BY <1>11
    <2> QED BY <2>1 DEF AgentsInv, SharedAgent
<1>13. ASSUME NEW d \in Commands PROVE HasOwn(d)'
    <2> SUFFICES ASSUME NEW t \in Slots, SendsWith(d, t)'
                 PROVE  /\ Own(agent'[t].resume, commands'[d].aim)
                        /\ \A q \in Targets : entry'[q].slot = t =>
                               q = commands'[d].aim \/ (q = New /\ commands'[d].at = "named")
        BY DEF HasOwn, Own
    <2>1. SendsWith(d, t) /\ HasOwn(d) /\ d # c /\ commands'[d] = commands[d]
        BY <1>11 DEF AgentsInv
    <2>2. agent'[t].resume = IF t = s THEN r ELSE agent[t].resume
        BY <1>10 DEF Used, SendsWith
    <2>3. Own(agent'[t].resume, commands'[d].aim)
        BY <2>1, <2>2 DEF HasOwn
    <2> QED BY <1>5, <2>1, <2>3 DEF HasOwn
<1>14. EntryOwn'
    <2> SUFFICES ASSUME NEW q \in Targets, NEW t \in Slots, entry[q].slot = t
                 PROVE  Own(agent'[t].resume, q)
        BY <1>5 DEF EntryOwn, Own
    <2>1. agent'[t].resume = IF t = s THEN r ELSE agent[t].resume
        BY <1>5, <1>10 DEF Used
    <2> QED BY <2>1 DEF AgentsInv, EntryOwn
<1>15. NoHalfEntry' /\ OneChatPerAgent'
    BY <1>5 DEF AgentsInv, NoHalfEntry, OneChatPerAgent
<1> QED BY <1>5, <1>7, <1>8, <1>9, <1>12, <1>13, <1>14, <1>15 DEF AgentsInv

\* What a turn records: nothing, or a conversation of its own chat.
LEMMA EndTurnIs ==
    ASSUME AgentsInv, NEW c \in Commands, NEW began \in BOOLEAN, EndTurn(c, began)
    PROVE  \/ log' = log /\ Become(entry, agent, Done(c))
           \/ \E talk \in Talks :
                 /\ Own(talk, commands[c].chat)
                 /\ log' = [log EXCEPT ![commands[c].chat] = talk]
                 /\ Become(entry, [agent EXCEPT ![commands[c].slot].resume = talk], Done(c))
<1> DEFINE i == commands[c].chat
           r == commands[c].runs
           m == IF log[i].of = i THEN log[i].n + 1 ELSE 1
           talk == IF r # None THEN r ELSE [of |-> i, n |-> m]
<1>1. /\ AgentsTyped /\ WellAt(c) /\ ReadOwn(c) /\ log \in [Ids -> Talks]
      /\ commands[c] \in AgentCommand /\ commands[c].at = "running"
    BY DEF AgentsInv, AgentsTyped, EndTurn
<1>2. i \in Ids /\ i # New /\ r \in Talks /\ Own(r, i)
    <2>1. i \in Ids /\ r \in Talks /\ Own(r, i)
        BY <1>1 DEF AgentCommand, WellAt, HasChosen, ReadOwn
    <2>2. i # New
        BY <2>1, AgentBasics
    <2> QED BY <2>1, <2>2
<1>3. CASE ~began
    BY <1>3 DEF EndTurn
<1>4. CASE began
    <2>1. /\ talk.n <= MaxTalks /\ log' = [log EXCEPT ![i] = talk]
          /\ Become(entry, [agent EXCEPT ![commands[c].slot].resume = talk], Done(c))
        BY <1>4 DEF EndTurn
    <2>2. talk \in Talks /\ Own(talk, i)
        <3>1. CASE r # None
            BY <1>2, <3>1
        <3>2. CASE r = None
            <4>1. m \in Nat \ {0}
                <5>1. CASE log[i].of = i
                    <6>1. log[i] \in Talks
                        BY <1>1, <1>2
                    <6>2. log[i] # None
                        BY <1>2, <5>1, AgentBasics
                    <6> QED BY <5>1, <6>1, <6>2, AgentsAssumption DEF Talks
                <5>2. CASE log[i].of # i
                    BY <5>2
                <5> QED BY <5>1, <5>2
            <4> HIDE DEF m
            <4>2. talk = [of |-> i, n |-> m] /\ talk.n = m /\ talk.of = i
                BY <3>2
            <4>3. m \in 1..MaxTalks
                BY <2>1, <4>1, <4>2, AgentsAssumption
            <4> QED BY <1>2, <4>2, <4>3 DEF Talks, Own
        <3> QED BY <3>1, <3>2
    <2> HIDE DEF talk, m
    <2> QED BY <2>1, <2>2
<1> QED BY <1>3, <1>4

LEMMA EndTurnKeeps ==
    ASSUME AgentsInv, NEW c \in Commands, NEW began \in BOOLEAN, EndTurn(c, began)
    PROVE  AgentsInv'
<1> DEFINE i == commands[c].chat
           s == commands[c].slot
<1>1. /\ AgentsTyped /\ WellAt(c) /\ ReadOwn(c) /\ HasOwn(c) /\ LogOwn /\ SharedAgent
      /\ agent \in [Slots -> Agent] /\ log \in [Ids -> Talks]
      /\ commands[c] \in AgentCommand /\ commands[c].at = "running"
      /\ UNCHANGED << use, focus, fromNew, live, spec >>
    BY DEF AgentsInv, AgentsTyped, EndTurn
<1>2. /\ s \in Slots /\ commands[c].kind = "send" /\ i = commands[c].aim /\ i \in Ids
      /\ i \in Targets /\ i # New
    <2>1. s \in Slots \cup {0} /\ s # 0
        BY <1>1 DEF AgentCommand, WellAt, HasAgent, WithAgent
    <2>2. commands[c].kind = "send" /\ i = commands[c].aim /\ i \in Ids
        BY <1>1 DEF WellAt, HasChosen
    <2> QED BY <2>1, <2>2, AgentBasics
<1>3. CASE log' = log /\ Become(entry, agent, Done(c))
    <2>1. commands' = Done(c)
        BY <1>3 DEF Become
    <2>2. Done(c) \in [Commands -> AgentCommand] /\ Others(c) /\ commands'[c] = Idle
        BY <1>1, <2>1, DoneIsIdle DEF Others
    <2>3. UNCHANGED << use, chats, spec >>
        BY <1>1, <1>3 DEF chats
    <2> QED BY <1>1, <1>3, <2>2, <2>3, IdleIsWell, BecomeStep
<1>4. ASSUME NEW talk \in Talks, Own(talk, i), log' = [log EXCEPT ![i] = talk],
             Become(entry, [agent EXCEPT ![s].resume = talk], Done(c))
      PROVE  AgentsInv'
    <2>1. log' \in [Ids -> Talks] /\ LogOwn'
        BY <1>1, <1>2, <1>4 DEF LogOwn, Own
    <2>2. SendsWith(c, s)
        BY <1>2 DEF SendsWith
    <2>3. \A q \in Targets : entry[q].slot = s => q = i
        BY <1>1, <1>2, <2>2 DEF HasOwn
    <2>4. \A d \in Commands : d # c /\ SendsWith(d, s) => commands[d].aim = i
        BY <1>1, <1>2, <2>2 DEF SharedAgent
    <2> QED BY <1>1, <1>2, <1>4, <2>1, <2>3, <2>4, ResumeStep
<1> QED BY <1>3, <1>4, EndTurnIs

LEMMA AdoptKeeps ==
    ASSUME AgentsInv, NEW c \in Commands, Adopt(c)
    PROVE  AgentsInv'
<1> DEFINE s == entry[focus].slot
           r == commands[c].read
<1>1. /\ AgentsTyped /\ ReadOwn(c) /\ LogOwn /\ OneChatPerAgent /\ focus \in Targets
      /\ agent \in [Slots -> Agent] /\ log \in [Ids -> Talks] /\ entry \in [Targets -> Entry]
      /\ commands[c] \in AgentCommand /\ commands[c].at = "adopting"
      /\ UNCHANGED << use, chats, spec >>
    BY DEF AgentsInv, AgentsTyped, Adopt
<1>2. r \in Talks /\ Own(r, focus) /\ s \in Slots \cup {0}
    BY <1>1 DEF AgentCommand, ReadOwn, Entry
<1>3. CASE s = 0 \/ Locked(s)
    <2>1. Become(entry, agent, Done(c))
        BY <1>3 DEF Adopt
    <2>2. commands' = Done(c)
        BY <2>1 DEF Become
    <2>3. Done(c) \in [Commands -> AgentCommand] /\ Others(c) /\ commands'[c] = Idle
        BY <1>1, <2>2, DoneIsIdle DEF Others
    <2> QED BY <1>1, <2>1, <2>3, IdleIsWell, BecomeStep
<1>4. CASE s # 0 /\ ~Locked(s)
    <2>1. Become(entry, [agent EXCEPT ![s].resume = r], Done(c)) /\ s \in Slots
        BY <1>2, <1>4 DEF Adopt
    <2>2. \A q \in Targets : entry[q].slot = s => q = focus
        BY <1>1, <1>4 DEF OneChatPerAgent
    <2>3. ASSUME NEW d \in Commands, SendsWith(d, s) PROVE commands[d].aim = focus
        <3>1. HasOwn(d)
            BY DEF AgentsInv
        <3>2. focus = commands[d].aim \/ commands[d].at = "named"
            BY <1>1, <2>1, <2>3, <3>1 DEF HasOwn
        <3>3. commands[d].at # "named"
            BY <1>4, <2>3 DEF Locked, LockedIn, WithAgent, SendsWith
        <3> QED BY <3>2, <3>3
    <2>4. log' = log /\ LogOwn' /\ UNCHANGED << use, focus, fromNew, live, spec >>
        BY <1>1 DEF LogOwn, Own, chats
    <2> HIDE DEF s, r
    <2> QED BY <1>1, <1>2, <2>1, <2>2, <2>3, <2>4, ResumeStep
<1> QED BY <1>3, <1>4

LEMMA AgentsInitInv ==
    ASSUME AgentsInit
    PROVE  AgentsInv
<1>1. /\ use \in Uses /\ focus = New /\ fromNew = New /\ live = OnDisk
      /\ log = [i \in Ids |-> IF i \in OnDisk THEN [of |-> i, n |-> 1] ELSE None]
      /\ spec = Off
      /\ entry = [p \in Targets |-> NoEntry]
      /\ agent = [s \in Slots |-> NewAgent(None)]
      /\ commands = [c \in Commands |-> Idle]
    BY DEF AgentsInit
<1>2. \A i \in Ids : [of |-> i, n |-> 1] \in Talks
    <2>1. 1 \in 1..MaxTalks
        BY AgentsAssumption
    <2> QED BY <2>1 DEF Talks
<1>3. AgentsTyped
    <2>1. live \subseteq Ids /\ log \in [Ids -> Talks]
        BY <1>1, <1>2, AgentsAssumption, AgentBasics
    <2>2. /\ entry \in [Targets -> Entry] /\ agent \in [Slots -> Agent]
          /\ commands \in [Commands -> AgentCommand]
        BY <1>1, AgentBasics
    <2> QED BY <1>1, <2>1, <2>2, AgentBasics DEF AgentsTyped
<1>4. ASSUME NEW c \in Commands PROVE WellAt(c) /\ ReadOwn(c) /\ HasOwn(c)
    <2>1. commands[c] = Idle
        BY <1>1
    <2>2. /\ commands[c].at = "idle" /\ commands[c].slot = 0 /\ commands[c].kind = ""
        BY <2>1, AgentBasics
    <2> QED BY <2>2 DEF WellAt, ReadOwn, HasOwn, SendsWith, HasAgent, HasChosen, WithAgent
<1>5. SharedAgent /\ OneMaking /\ OneAtTheRail
    <2>1. \A c \in Commands : commands[c].at = "idle" /\ commands[c].kind = ""
        BY <1>1, AgentBasics
    <2> QED BY <2>1 DEF SharedAgent, SendsWith, OneMaking, Making, OneAtTheRail, AtTheRail
<1>6. EntryOwn /\ NoHalfEntry /\ OneChatPerAgent
    <2>1. \A p \in Targets : entry[p] = NoEntry /\ entry[p].slot = 0
        BY <1>1, AgentBasics
    <2> QED BY <2>1, AgentBasics DEF EntryOwn, NoHalfEntry, OneChatPerAgent
<1>7. LogOwn
    BY <1>1 DEF LogOwn, Own
<1>8. DroppedIsReset
    BY <1>1 DEF DroppedIsReset
<1> QED BY <1>3, <1>4, <1>5, <1>6, <1>7, <1>8 DEF AgentsInv

LEMMA AgentsStep ==
    ASSUME AgentsInv, UsedWithCare, [AgentsNext]_agentVars
    PROVE  AgentsInv'
<1>1. ASSUME NEW c \in Commands,
             \/ Send(c) \/ Prewarm(c) \/ ReadResume(c) \/ Make(c) \/ LockAgent(c) \/ GetAgent(c)
             \/ \E i \in Ids : SendBehind(c, i) \/ ChooseChat(c, i) \/ OpenChat(c, i) \/ Delete(c, i)
             \/ LockChat(c) \/ AdoptNew(c) \/ Fill(c)
      PROVE  AgentsInv'
    <2>1. CASE Send(c) \/ Prewarm(c) \/ \E i \in Ids : SendBehind(c, i)
        BY <2>1, FindsAgent
    <2>2. CASE ReadResume(c)
        BY <2>2, ReadResumeKeeps
    <2>3. CASE Make(c)
        BY <2>3, MakeKeeps
    <2>4. CASE LockAgent(c)
        BY <2>4, LockAgentKeeps
    <2>5. CASE GetAgent(c) \/ LockChat(c)
        BY <2>5, GoesOn
    <2>6. CASE \E i \in Ids : ChooseChat(c, i)
        BY <2>6, ChooseChatKeeps
    <2>7. CASE \E i \in Ids : OpenChat(c, i) \/ Delete(c, i)
        BY <2>7, ListKeeps
    <2>8. CASE AdoptNew(c)
        BY <2>8, AdoptNewKeeps
    <2>9. CASE Fill(c)
        BY <2>9, FillKeeps
    <2> QED BY <1>1, <2>1, <2>2, <2>3, <2>4, <2>5, <2>6, <2>7, <2>8, <2>9
<1>2. ASSUME NEW c \in Commands,
             \/ \E plain \in BOOLEAN : TakeProcess(c, plain)
             \/ \E began \in BOOLEAN : EndTurn(c, began)
             \/ ReadOpen(c) \/ AskWindow(c) \/ ReadWindow(c) \/ GiveUp(c) \/ Connect(c)
             \/ ReadOpened(c) \/ OpenNew(c) \/ Adopt(c) \/ ForgetAgent(c)
      PROVE  AgentsInv'
    <2>1. CASE \E plain \in BOOLEAN : TakeProcess(c, plain)
        BY <2>1, TakeKeeps
    <2>2. CASE \E began \in BOOLEAN : EndTurn(c, began)
        BY <2>2, EndTurnKeeps
    <2>3. CASE ReadOpen(c) \/ AskWindow(c) \/ GiveUp(c) \/ ReadOpened(c)
        BY <2>3, RailReads
    <2>4. CASE ReadWindow(c)
        BY <2>4, GoesOn
    <2>5. CASE Connect(c)
        BY <2>5, ConnectKeeps
    <2>6. CASE OpenNew(c)
        BY <2>6, ListKeeps
    <2>7. CASE Adopt(c)
        BY <2>7, AdoptKeeps
    <2>8. CASE ForgetAgent(c)
        BY <2>8, ForgetKeeps
    <2> QED BY <1>2, <2>1, <2>2, <2>3, <2>4, <2>5, <2>6, <2>7, <2>8
<1>3. CASE Disconnect
    BY <1>3, DisconnectKeeps
<1>4. CASE \E s \in Slots, n \in 1..MaxFills : TimerFires(s, n)
    BY <1>4, TimerKeeps
<1>5. CASE UNCHANGED agentVars
    <2>1. UNCHANGED << use, focus, fromNew, live, log, spec, entry, agent, commands >>
        BY <1>5 DEF agentVars
    <2>2. AgentsTyped'
        BY <2>1 DEF AgentsInv, AgentsTyped
    <2>3. ASSUME NEW c \in Commands PROVE WellAt(c)' /\ ReadOwn(c)' /\ FindsOwn(c)
        <3>1. WellAt(c) /\ ReadOwn(c)
            BY DEF AgentsInv
        <3> QED BY <2>1, <3>1 DEF WellAt, ReadOwn, Own, FindsOwn, SendsWith
    <2>4. FewerEntries /\ SameResumes /\ NoHalfEntry' /\ log' = log
        BY <2>1 DEF FewerEntries, SameResumes, AgentsInv, NoHalfEntry
    <2>5. OneMaking' /\ OneAtTheRail'
        BY <2>1 DEF AgentsInv, OneMaking, Making, OneAtTheRail
    <2>6. DroppedIsReset'
        BY <2>1 DEF AgentsInv, DroppedIsReset, Used
    <2> QED BY <2>2, <2>3, <2>4, <2>5, <2>6, QuietStep
<1>6. AgentsNext \/ UNCHANGED agentVars
    OBVIOUS
<1> QED BY <1>1, <1>2, <1>3, <1>4, <1>5, <1>6 DEF AgentsNext

LEMMA OwnFromInv ==
    ASSUME AgentsInv
    PROVE  OwnAgents
<1>1. OneChatPerAgent
    BY DEF AgentsInv
<1>2. ResumesItsOwn
    <2> SUFFICES ASSUME NEW c \in Commands, commands[c].at = "running", commands[c].runs # None
                 PROVE  commands[c].runs.of = commands[c].chat
        BY DEF ResumesItsOwn
    <2> QED BY DEF AgentsInv, ReadOwn, Own
<1> QED BY <1>1, <1>2 DEF OwnAgents

\* What a step does to an agent that is still had: nothing takes a timer off
\* it but the timer.
LEMMA TimersStay ==
    ASSUME AgentsInv, AgentsNext,
           ~\E s \in Slots, n \in 1..MaxFills : TimerFires(s, n)
    PROVE  \A t \in Slots : Used(t)' => agent[t].timers \subseteq agent'[t].timers
<1>1. AgentsTyped /\ agent \in [Slots -> Agent] /\ DroppedIsReset
    BY DEF AgentsInv, AgentsTyped
<1>2. ASSUME NEW e, NEW cs, Become(e, agent, cs)
      PROVE  \A t \in Slots : Used(t)' => agent[t].timers \subseteq agent'[t].timers
    BY <1>1, <1>2, BecomeIs
<1>3. ASSUME agent' = agent
      PROVE  \A t \in Slots : Used(t)' => agent[t].timers \subseteq agent'[t].timers
    BY <1>3
<1>4. ASSUME NEW e, NEW cs, NEW c \in Commands, NEW r \in Talks, commands[c].slot = 0,
             Become(e, [agent EXCEPT ![Unused] = NewAgent(r)], cs)
      PROVE  \A t \in Slots : Used(t)' => agent[t].timers \subseteq agent'[t].timers
    <2>1. Unused \in Slots /\ ~Used(Unused)
        BY <1>1, <1>4, UnusedIs
    <2>2. agent[Unused].timers = {}
        BY <1>1, <2>1, AgentBasics DEF DroppedIsReset
    <2> DEFINE a == [agent EXCEPT ![Unused] = NewAgent(r)]
    <2>3. a \in [Slots -> Agent] /\ \A t \in Slots : t # Unused => a[t] = agent[t]
        BY <1>1, <2>1, AgentBasics
    <2> HIDE DEF a
    <2>4. Become(e, a, cs)
        BY <1>4 DEF a
    <2> QED BY <2>2, <2>3, <2>4, BecomeIs
<1>5. ASSUME NEW e, NEW cs, NEW s \in Slots, NEW r \in Talks,
             Become(e, [agent EXCEPT ![s].resume = r], cs)
      PROVE  \A t \in Slots : Used(t)' => agent[t].timers \subseteq agent'[t].timers
    <2> DEFINE a == [agent EXCEPT ![s].resume = r]
    <2>1. PICK x \in Agent : x = agent[s]
        BY <1>1
    <2>2. a = [agent EXCEPT ![s] = [x EXCEPT !.resume = r]]
        BY <2>1
    <2>3. [x EXCEPT !.resume = r] \in Agent /\ [x EXCEPT !.resume = r].timers = x.timers
        BY DEF Agent
    <2> HIDE DEF a
    <2>4. a \in [Slots -> Agent] /\ \A t \in Slots : a[t].timers = agent[t].timers
        BY <1>1, <2>1, <2>2, <2>3
    <2>5. Become(e, a, cs)
        BY <1>5 DEF a
    <2> QED BY <2>4, <2>5, BecomeIs
<1>6. ASSUME NEW c \in Commands,
             \/ Send(c) \/ Prewarm(c) \/ ReadResume(c) \/ GetAgent(c) \/ LockChat(c)
             \/ \E i \in Ids : SendBehind(c, i) \/ ChooseChat(c, i) \/ OpenChat(c, i) \/ Delete(c, i)
             \/ ReadOpen(c) \/ AskWindow(c) \/ ReadWindow(c) \/ GiveUp(c)
             \/ ReadOpened(c) \/ OpenNew(c)
      PROVE  agent' = agent
    BY <1>6 DEF Send, Prewarm, ReadResume, GetAgent, LockChat, SendBehind, ChooseChat, OpenChat,
                Delete, ReadOpen, AskWindow, ReadWindow, GiveUp, ReadOpened, OpenNew, Step
<1>7. ASSUME NEW c \in Commands, Make(c)
      PROVE  \A t \in Slots : Used(t)' => agent[t].timers \subseteq agent'[t].timers
    <2>1. commands[c].read \in Talks /\ commands[c].slot = 0
        BY <1>1, <1>7 DEF AgentsInv, AgentsTyped, AgentCommand, WellAt, HasAgent, WithAgent, Make
    <2>2. \/ \E e, cs : Become(e, agent, cs)
          \/ \E e, cs : Become(e, [agent EXCEPT ![Unused] = NewAgent(commands[c].read)], cs)
        BY <1>7 DEF Make
    <2> QED BY <1>2, <1>4, <2>1, <2>2
<1>8. ASSUME NEW c \in Commands, Connect(c)
      PROVE  \A t \in Slots : Used(t)' => agent[t].timers \subseteq agent'[t].timers
    <2>1. commands[c].read \in Talks /\ commands[c].slot = 0
        BY <1>1, <1>8 DEF AgentsInv, AgentsTyped, AgentCommand, WellAt, HasAgent, WithAgent, Connect
    <2>2. \/ \E e, cs : Become(e, agent, cs)
          \/ \E e, cs : Become(e, [agent EXCEPT ![Unused] = NewAgent(commands[c].read)], cs)
        BY <1>8 DEF Connect
    <2> QED BY <1>2, <1>4, <2>1, <2>2
<1>9. ASSUME NEW c \in Commands, LockAgent(c) \/ AdoptNew(c) \/ ForgetAgent(c)
      PROVE  \A t \in Slots : Used(t)' => agent[t].timers \subseteq agent'[t].timers
    <2>1. \E e, cs : Become(e, agent, cs)
        BY <1>9 DEF LockAgent, AdoptNew, ForgetAgent
    <2> QED BY <1>2, <2>1
<1>10. ASSUME NEW c \in Commands, Adopt(c)
       PROVE  \A t \in Slots : Used(t)' => agent[t].timers \subseteq agent'[t].timers
    <2> DEFINE s == entry[focus].slot
    <2>1. commands[c].read \in Talks /\ s \in Slots \cup {0}
        BY <1>1 DEF AgentsTyped, AgentCommand, Entry
    <2>2. CASE s # 0 /\ ~Locked(s)
        <3>1. \E e, cs : Become(e, [agent EXCEPT ![s].resume = commands[c].read], cs)
            BY <1>10, <2>2 DEF Adopt
        <3> QED BY <1>5, <2>1, <2>2, <3>1
    <2>3. CASE ~(s # 0 /\ ~Locked(s))
        <3>1. \E e, cs : Become(e, agent, cs)
            BY <1>10, <2>3 DEF Adopt
        <3> QED BY <1>2, <3>1
    <2> QED BY <2>2, <2>3
<1>11. ASSUME NEW c \in Commands, NEW began \in BOOLEAN, EndTurn(c, began)
       PROVE  \A t \in Slots : Used(t)' => agent[t].timers \subseteq agent'[t].timers
    <2>1. commands[c].slot \in Slots \cup {0} /\ commands[c].slot # 0
        BY <1>1, <1>11
        DEF AgentsInv, AgentsTyped, AgentCommand, WellAt, HasAgent, WithAgent, EndTurn
    <2> DEFINE s == commands[c].slot
    <2>2. CASE ~began
        BY <1>2, <1>11, <2>2 DEF EndTurn
    <2>3. CASE began
        <3>1. PICK r : Become(entry, [agent EXCEPT ![s].resume = r], Done(c))
            BY <1>11, <2>3 DEF EndTurn
        <3>2. agent' = [t \in Slots |-> IF Kept(t, entry, Done(c))
                                        THEN [agent EXCEPT ![s].resume = r][t] ELSE NewAgent(None)]
            BY <3>1 DEF Become
        <3>3. entry' = entry /\ commands' = Done(c)
            BY <3>1 DEF Become
        <3>4. PICK x \in Agent : x = agent[s]
            BY <1>1, <2>1
        <3>5. [x EXCEPT !.resume = r].timers = x.timers
            BY DEF Agent
        <3>6. [agent EXCEPT ![s].resume = r] = [agent EXCEPT ![s] = [x EXCEPT !.resume = r]]
            BY <3>4
        <3>7. ASSUME NEW t \in Slots, Used(t)'
              PROVE  agent'[t].timers = agent[t].timers
            <4>1. Kept(t, entry, Done(c))
                BY <3>3, <3>7 DEF Used, Kept
            <4>2. agent'[t] = [agent EXCEPT ![s] = [x EXCEPT !.resume = r]][t]
                BY <3>2, <3>6, <4>1
            <4> QED BY <1>1, <3>4, <3>5, <4>2
        <3> QED BY <3>7
    <2> QED BY <2>2, <2>3
<1>12. ASSUME NEW c \in Commands, NEW plain \in BOOLEAN, TakeProcess(c, plain)
       PROVE  \A t \in Slots : Used(t)' => agent[t].timers \subseteq agent'[t].timers
    <2> DEFINE s == commands[c].slot
    <2>1. s \in Slots
        <3>1. s \in Slots \cup {0} /\ s # 0
            BY <1>1, <1>12
            DEF AgentsInv, AgentsTyped, AgentCommand, WellAt, HasAgent, WithAgent, TakeProcess
        <3> QED BY <3>1
    <2>2. PICK x \in Agent : x = agent[s]
        BY <1>1, <2>1
    <2>3. PICK w : agent' = [agent EXCEPT ![s] = [x EXCEPT !.warm = w]]
        BY <1>1, <1>12, <2>1, <2>2 DEF TakeProcess
    <2>4. [x EXCEPT !.warm = w].timers = x.timers
        BY DEF Agent
    <2> QED BY <1>1, <2>1, <2>2, <2>3, <2>4
<1>13. ASSUME NEW c \in Commands, Fill(c)
       PROVE  \A t \in Slots : Used(t)' => agent[t].timers \subseteq agent'[t].timers
    <2> DEFINE s == commands[c].slot
    <2>1. s \in Slots
        <3>1. s \in Slots \cup {0} /\ s # 0
            BY <1>1, <1>13
            DEF AgentsInv, AgentsTyped, AgentCommand, WellAt, HasAgent, WithAgent, Fill
        <3> QED BY <3>1
    <2>2. PICK x \in Agent : x = agent[s]
        BY <1>1, <2>1
    <2>3. PICK a, y : /\ Become(entry, a, Done(c))
                      /\ \/ a = agent
                         \/ a = [agent EXCEPT ![s] = y] /\ x.timers \subseteq y.timers
        <3> DEFINE n == agent[s].fills + 1
                   b == [agent[s] EXCEPT !.warm = [key |-> agent[s].resume, n |-> n],
                                         !.fills = n, !.timers = @ \cup {n}]
                   z == [x EXCEPT !.warm = NoWarm]
        <3>1. [agent EXCEPT ![s].warm = NoWarm] = [agent EXCEPT ![s] = z]
            BY <1>1, <2>1, <2>2
        <3>2. x.timers \subseteq z.timers
            BY DEF Agent
        <3>3. x.timers \subseteq b.timers
            <4> HIDE DEF n
            <4> QED BY <2>2 DEF Agent
        <3>4. \/ Become(entry, agent, Done(c))
              \/ Become(entry, [agent EXCEPT ![s] = z], Done(c))
              \/ Become(entry, [agent EXCEPT ![s] = b], Done(c))
            BY <1>13, <3>1 DEF Fill
        <3> HIDE DEF b, z, s
        <3> QED BY <3>2, <3>3, <3>4
    <2>4. entry' = entry /\ commands' = Done(c)
        BY <2>3 DEF Become
    <2>5. ASSUME NEW t \in Slots, Used(t)' PROVE agent[t].timers \subseteq agent'[t].timers
        <3>1. Kept(t, entry, Done(c))
            BY <2>4, <2>5 DEF Used, Kept
        <3>2. agent'[t] = a[t]
            BY <2>3, <3>1 DEF Become
        <3> QED BY <1>1, <2>1, <2>2, <2>3, <3>2
    <2> QED BY <2>5
<1>14. ASSUME Disconnect
       PROVE  \A t \in Slots : Used(t)' => agent[t].timers \subseteq agent'[t].timers
    <2>1. \E e, cs : Become(e, agent, cs)
        BY <1>14 DEF Disconnect
    <2> QED BY <1>2, <2>1
<1>15. Disconnect \/ \E c \in Commands :
           \/ Send(c) \/ Prewarm(c) \/ ReadResume(c) \/ Make(c) \/ LockAgent(c) \/ GetAgent(c)
           \/ \E i \in Ids : SendBehind(c, i) \/ ChooseChat(c, i) \/ OpenChat(c, i) \/ Delete(c, i)
           \/ LockChat(c) \/ AdoptNew(c) \/ Fill(c)
           \/ \E plain \in BOOLEAN : TakeProcess(c, plain)
           \/ \E began \in BOOLEAN : EndTurn(c, began)
           \/ ReadOpen(c) \/ AskWindow(c) \/ ReadWindow(c) \/ GiveUp(c) \/ Connect(c)
           \/ ReadOpened(c) \/ OpenNew(c) \/ Adopt(c) \/ ForgetAgent(c)
    BY DEF AgentsNext
<1>16. ASSUME NEW c \in Commands,
              \/ Send(c) \/ Prewarm(c) \/ ReadResume(c) \/ Make(c) \/ LockAgent(c) \/ GetAgent(c)
              \/ \E i \in Ids : SendBehind(c, i) \/ ChooseChat(c, i) \/ OpenChat(c, i) \/ Delete(c, i)
              \/ LockChat(c) \/ AdoptNew(c) \/ Fill(c)
              \/ \E plain \in BOOLEAN : TakeProcess(c, plain)
              \/ \E began \in BOOLEAN : EndTurn(c, began)
              \/ ReadOpen(c) \/ AskWindow(c) \/ ReadWindow(c) \/ GiveUp(c) \/ Connect(c)
              \/ ReadOpened(c) \/ OpenNew(c) \/ Adopt(c) \/ ForgetAgent(c)
       PROVE  \A t \in Slots : Used(t)' => agent[t].timers \subseteq agent'[t].timers
    BY <1>3, <1>6, <1>7, <1>8, <1>9, <1>10, <1>11, <1>12, <1>13, <1>16
<1> QED BY <1>14, <1>15, <1>16

LEMMA AgesStep ==
    ASSUME AgentsInv, [AgentsNext]_agentVars
    PROVE  [AgesApart]_agentVars
<1> SUFFICES ASSUME AgentsNext PROVE AgesApart
    BY DEF agentVars
<1>1. agent \in [Slots -> Agent]
    BY DEF AgentsInv, AgentsTyped
<1> SUFFICES ASSUME NEW t \in Slots, agent[t].timers \ agent'[t].timers # {},
                    Kept(t, entry', commands'), agent[t].warm # agent'[t].warm
             PROVE  agent[t].warm.n \in agent[t].timers \ agent'[t].timers
    BY DEF AgesApart
<1>2. Used(t)'
    BY DEF Used, Kept
<1>3. PICK s \in Slots, n \in 1..MaxFills : TimerFires(s, n)
    BY <1>2, TimersStay
<1>4. PICK x \in Agent : x = agent[s]
    BY <1>1
<1> DEFINE y == [x EXCEPT !.timers = x.timers \ {n}, !.warm = IF x.warm.n = n THEN NoWarm ELSE x.warm]
<1>5. agent' = [agent EXCEPT ![s] = y] /\ n \in x.timers
    BY <1>1, <1>3, <1>4 DEF TimerFires, Agent
<1>6. y.timers = x.timers \ {n} /\ y.warm = IF x.warm.n = n THEN NoWarm ELSE x.warm
    BY DEF Agent
<1> HIDE DEF y
<1>7. t = s /\ agent'[s] = y
    BY <1>1, <1>5
<1>8. x.warm.n = n
    BY <1>4, <1>6, <1>7
<1> QED BY <1>4, <1>5, <1>6, <1>7, <1>8

(***************************************************************************)
(* While he uses the window with care: an agent is one chat's, and a turn  *)
(* runs a conversation of its own chat (agents.rs; OwnAgents).             *)
(***************************************************************************)
THEOREM AgentsAreTheirChats ==
    ASSUME \A s \in Uses : "careful" \in s
    PROVE  AgentsSpec => []OwnAgents
<1>1. UsedWithCare
    BY DEF UsedWithCare
<1>2. AgentsInit => AgentsInv
    BY AgentsInitInv
<1>3. AgentsInv /\ [AgentsNext]_agentVars => AgentsInv'
    BY <1>1, AgentsStep
<1>4. AgentsInv => OwnAgents
    BY OwnFromInv
<1> QED BY <1>2, <1>3, <1>4, PTL DEF AgentsSpec

(***************************************************************************)
(* While he uses the window with care: a process that waits for his        *)
(* message is killed by age only by the timer started with it              *)
(* (WarmSlot::fill; OnlyItsOwnTimer).                                      *)
(***************************************************************************)
THEOREM AgeKillsItsOwn ==
    ASSUME \A s \in Uses : "careful" \in s
    PROVE  AgentsSpec => OnlyItsOwnTimer
<1>1. UsedWithCare
    BY DEF UsedWithCare
<1>2. AgentsInit => AgentsInv
    BY AgentsInitInv
<1>3. AgentsInv /\ [AgentsNext]_agentVars => AgentsInv'
    BY <1>1, AgentsStep
<1>4. AgentsInv /\ [AgentsNext]_agentVars => [AgesApart]_agentVars
    BY AgesStep
<1> QED BY <1>2, <1>3, <1>4, PTL DEF AgentsSpec, OnlyItsOwnTimer

-----------------------------------------------------------------------------
(***************************************************************************)
(* Agents, when nothing of the rail or the list overlaps a turn: what an   *)
(* agent resumes is what its chat's log last recorded.                     *)
(***************************************************************************)

\* The conversation the next message of a chat goes on with.
Latest(p) == IF p = New THEN None ELSE log[p]

\* One turn at a time in a chat.
OneTurnAChat ==
    \A c, d \in Commands :
        commands[c].at \in WithChat /\ commands[d].at \in WithChat
        /\ commands[c].chat = commands[d].chat => c = d

\* A command at the rail or the list is alone.
RailAlone == \A c, d \in Commands : c # d /\ commands[c].at \in AtTheRail => commands[d] = Idle

\* The index has the newest connection's agents, each up to date with its log.
UpToDate ==
    \A p \in Targets, s \in Slots :
        entry[p].slot = s => entry[p].current /\ agent[s].resume = Latest(p)

\* What is open, used and in the index is a chat there is, or about to be
\* forgotten.
AllLive ==
    /\ focus \in live \cup {New}
    /\ \A c \in Commands : commands[c].at # "forgetting" => commands[c].aim \in live \cup {New}
    /\ \A i \in Ids : entry[i].slot # 0 =>
           i \in live \/ \E c \in Commands : commands[c].at = "forgetting" /\ commands[c].aim = i

\* A send has the agent the index has for its chat.  Until a chat just made is
\* given its agent it has none, and nobody has read its log for one.
HasIndexed(c) ==
    \A s \in Slots : SendsWith(c, s) =>
        IF commands[c].at = "named"
        THEN /\ entry[New].slot = s /\ log[commands[c].aim] = None
             /\ entry[commands[c].aim].slot = 0
             /\ \A d \in Commands : d # c /\ commands[d].aim = commands[c].aim =>
                    commands[d].at = "making"
        ELSE entry[commands[c].aim].slot = s

ReadLatest(c) ==
    /\ commands[c].at = "read" =>
           commands[c].read = Latest(commands[c].aim) \/ entry[commands[c].aim].slot # 0
    /\ commands[c].at \in {"connecting", "windowed", "built", "adopting"} =>
           commands[c].read = Latest(focus)
    /\ commands[c].at = "forgetting" /\ commands[c].kind = "open" => focus = New
    /\ commands[c].at = "running" => commands[c].runs = log[commands[c].chat]

CalmNow ==
    /\ RailAlone /\ UpToDate /\ AllLive
    /\ \A c \in Commands : HasIndexed(c) /\ ReadLatest(c)

CalmInv == OneTurnAChat /\ ("calm" \in use => CalmNow)

LEMMA RailAloneStays ==
    ASSUME RailAlone, NEW c \in Commands, Others(c),
           \/ commands'[c].at \notin AtTheRail
           \/ commands[c].at \in AtTheRail
           \/ \A d \in Commands : commands[d] = Idle,
           \/ commands'[c] = Idle \/ commands[c] # Idle
           \/ \A d \in Commands : commands[d].at \notin AtTheRail
    PROVE  RailAlone'
<1> SUFFICES ASSUME NEW d \in Commands, NEW e \in Commands, d # e, commands'[d].at \in AtTheRail
             PROVE  commands'[e] = Idle
    BY DEF RailAlone
<1>1. CASE d = c
    BY <1>1 DEF RailAlone, Others
<1>2. CASE e = c
    <2>1. commands'[d] = commands[d]
        BY <1>2 DEF Others
    <2>2. commands[c] = Idle
        BY <1>2, <2>1 DEF RailAlone
    <2> QED BY <1>2, <2>1, <2>2
<1>3. CASE d # c /\ e # c
    BY <1>3 DEF RailAlone, Others
<1> QED BY <1>1, <1>2, <1>3

LEMMA OneTurnStays ==
    ASSUME OneTurnAChat, NEW c \in Commands, Others(c),
           \/ commands'[c].at \notin WithChat
           \/ commands[c].at \in WithChat /\ commands'[c].chat = commands[c].chat
           \/ \A d \in Commands : commands[d].at \in WithChat => commands[d].chat # commands'[c].chat
    PROVE  OneTurnAChat'
<1> SUFFICES ASSUME NEW d \in Commands, NEW e \in Commands, d # e,
                    commands'[d].at \in WithChat, commands'[e].at \in WithChat,
                    commands'[d].chat = commands'[e].chat
             PROVE  FALSE
    BY DEF OneTurnAChat
<1>1. CASE d = c
    BY <1>1 DEF OneTurnAChat, Others
<1>2. CASE e = c
    BY <1>2 DEF OneTurnAChat, Others
<1>3. CASE d # c /\ e # c
    BY <1>3 DEF OneTurnAChat, Others
<1> QED BY <1>1, <1>2, <1>3

\* What the others have of the index, when it stays where they use it.
LEMMA IndexedStays ==
    ASSUME AgentsInv, CalmNow, NEW c \in Commands, NEW d \in Commands, d # c, Others(c),
           \A s \in Slots : SendsWith(d, s) /\ commands[d].at # "named" =>
               entry'[commands[d].aim].slot = entry[commands[d].aim].slot,
           commands[d].at = "named" =>
               /\ entry'[New].slot = entry[New].slot
               /\ entry[commands[d].aim].slot = 0 => entry'[commands[d].aim].slot = 0
               /\ log'[commands[d].aim] = log[commands[d].aim]
               /\ commands'[c].aim = commands[d].aim => commands'[c].at = "making"
    PROVE  HasIndexed(d)'
<1> SUFFICES ASSUME NEW s \in Slots, SendsWith(d, s)'
             PROVE  IF commands'[d].at = "named"
                    THEN /\ entry'[New].slot = s /\ log'[commands'[d].aim] = None
                         /\ entry'[commands'[d].aim].slot = 0
                         /\ \A e \in Commands : e # d /\ commands'[e].aim = commands'[d].aim =>
                                commands'[e].at = "making"
                    ELSE entry'[commands'[d].aim].slot = s
    BY DEF HasIndexed
<1>1. commands'[d] = commands[d] /\ HasIndexed(d)
    BY DEF Others, CalmNow
<1>2. SendsWith(d, s)
    BY <1>1 DEF SendsWith
<1>3. CASE commands[d].at = "named"
    <2>1. ASSUME NEW e \in Commands, e # d, commands'[e].aim = commands'[d].aim
          PROVE  commands'[e].at = "making"
        <3>1. CASE e = c
            BY <1>1, <1>3, <2>1, <3>1
        <3>2. CASE e # c
            BY <1>1, <1>2, <1>3, <2>1, <3>2 DEF HasIndexed, Others
        <3> QED BY <3>1, <3>2
    <2>2. entry[New].slot = s /\ log[commands[d].aim] = None /\ entry[commands[d].aim].slot = 0
        BY <1>1, <1>2, <1>3 DEF HasIndexed
    <2> QED BY <1>1, <1>3, <2>1, <2>2
<1>4. CASE commands[d].at # "named"
    BY <1>1, <1>2, <1>4 DEF HasIndexed
<1> QED BY <1>3, <1>4

\* The index, the chats and what agents resume stay, and one command moves.
LEMMA CalmQuiet ==
    ASSUME AgentsInv, CalmNow, NEW c \in Commands, Others(c), RailAlone',
           UNCHANGED << entry, focus, live, log >>,
           \A p \in Targets, s \in Slots : entry[p].slot = s => agent'[s].resume = agent[s].resume,
           commands[c].at # "forgetting", commands'[c].at # "forgetting",
           commands'[c].aim \in live \cup {New},
           HasIndexed(c)', ReadLatest(c)',
           commands'[c].at = "making"
               \/ \A d \in Commands : d # c /\ commands[d].at = "named" => commands'[c].aim # commands[d].aim
    PROVE  CalmNow'
<1>1. UpToDate'
    BY DEF CalmNow, UpToDate, Latest
<1>2. AllLive'
    <2>1. \A d \in Commands : commands'[d].at # "forgetting" => commands'[d].aim \in live' \cup {New}
        BY DEF CalmNow, AllLive, Others
    <2>2. ASSUME NEW i \in Ids, entry'[i].slot # 0, i \notin live'
          PROVE  \E d \in Commands : commands'[d].at = "forgetting" /\ commands'[d].aim = i
        <3>1. PICK d \in Commands : commands[d].at = "forgetting" /\ commands[d].aim = i
            BY <2>2 DEF CalmNow, AllLive
        <3>2. commands'[d] = commands[d]
            BY <3>1 DEF Others
        <3> QED BY <3>1, <3>2
    <2> QED BY <2>1, <2>2 DEF CalmNow, AllLive
<1>3. ASSUME NEW d \in Commands, d # c
      PROVE  HasIndexed(d)' /\ ReadLatest(d)'
    <2>1. commands'[d] = commands[d] /\ HasIndexed(d) /\ ReadLatest(d)
        BY <1>3 DEF Others, CalmNow
    <2>2. ReadLatest(d)'
        BY <2>1 DEF ReadLatest, Latest
    <2>3. HasIndexed(d)'
        BY <1>3, IndexedStays
    <2> QED BY <2>2, <2>3
<1> QED BY <1>1, <1>2, <1>3 DEF CalmNow

\* The same, when it is done.
LEMMA IdleIsCalm ==
    ASSUME AgentsInv, CalmNow, NEW c \in Commands, Others(c), commands'[c] = Idle,
           UNCHANGED << entry, focus, live, log >>,
           \A p \in Targets, s \in Slots : entry[p].slot = s => agent'[s].resume = agent[s].resume,
           commands[c].at # "forgetting"
    PROVE  CalmNow'
<1>1. /\ commands'[c].at = "idle" /\ commands'[c].aim = New /\ commands'[c].kind = ""
      /\ commands'[c].slot = 0
    BY AgentBasics
<1>2. RailAlone'
    BY <1>1, RailAloneStays DEF CalmNow, AtTheRail
<1>3. HasIndexed(c)' /\ ReadLatest(c)'
    BY <1>1 DEF HasIndexed, ReadLatest, SendsWith
<1>4. ASSUME NEW d \in Commands, commands[d].at = "named" PROVE commands[d].aim # New
    <2>1. WellAt(d) /\ New \notin Ids
        BY AgentBasics DEF AgentsInv
    <2> QED BY <1>4, <2>1 DEF WellAt, HasChosen
<1> QED BY <1>1, <1>2, <1>3, <1>4, CalmQuiet

\* A command goes on with the agent it has for the chat it is about.
LEMMA GoesOnCalm ==
    ASSUME AgentsInv, CalmNow, NEW c \in Commands, Others(c),
           UNCHANGED << entry, focus, live, log >>,
           \A p \in Targets, s \in Slots : entry[p].slot = s => agent'[s].resume = agent[s].resume,
           commands[c].at \in {"found", "waiting", "locked", "chosen", "turn"},
           commands'[c].at \in {"waiting", "locked", "chosen", "turn", "running"},
           commands'[c].kind = commands[c].kind, commands'[c].aim = commands[c].aim,
           commands'[c].slot = commands[c].slot,
           commands'[c].at = "running" => commands'[c].runs = log[commands'[c].chat]
    PROVE  CalmNow'
<1>1. RailAlone'
    <2>1. commands[c] # Idle
        BY AgentBasics
    <2> QED BY <2>1, RailAloneStays DEF CalmNow, AtTheRail
<1>2. HasIndexed(c) /\ commands[c].aim \in live \cup {New}
    BY DEF CalmNow, AllLive
<1>3. HasIndexed(c)'
    BY <1>2 DEF HasIndexed, SendsWith
<1>4. ReadLatest(c)'
    BY DEF ReadLatest
<1>5. ASSUME NEW d \in Commands, d # c, commands[d].at = "named" PROVE commands'[c].aim # commands[d].aim
    <2>1. WellAt(d) /\ HasIndexed(d) /\ commands \in [Commands -> AgentCommand]
        BY DEF AgentsInv, AgentsTyped, CalmNow
    <2>2. commands[d].kind = "send" /\ commands[d].slot \in Slots
        BY <1>5, <2>1 DEF WellAt, HasChosen, HasAgent, WithAgent, AgentCommand
    <2> QED BY <1>5, <2>1, <2>2 DEF HasIndexed, SendsWith
<1> QED BY <1>1, <1>2, <1>3, <1>4, <1>5, CalmQuiet

\* Who may begin something when nothing overlaps a turn.
LEMMA CalmIs ==
    ASSUME CalmInv, "calm" \in use
    PROVE  /\ CalmNow
           /\ \A w : May(w) => \A d \in Commands : commands[d] = Idle
           /\ \A p : MaySend(p) => \A d \in Commands : commands[d].at \notin AtTheRail
BY DEF May, MaySend, CalmInv

\* A step after which the command is in no turn.
LEMMA OutOfTurn ==
    ASSUME CalmInv, NEW c \in Commands, Others(c), use' = use,
           commands'[c].at \notin WithChat, "calm" \in use => CalmNow'
    PROVE  CalmInv'
BY OneTurnStays DEF CalmInv

LEMMA LooksCalm ==
    ASSUME AgentsInv, CalmInv, NEW c \in Commands, NEW p \in Targets,
           NEW k \in {"send", "warm"},
           commands[c] = Idle, MaySend(p), p = focus \/ p \in live,
           \/ Look(c, k, p)
           \/ /\ entry[p] # NoEntry
              /\ commands' = [commands EXCEPT ![c] =
                     [Idle EXCEPT !.at = "found", !.kind = k, !.aim = p, !.slot = entry[p].slot]],
           UNCHANGED << use, chats, spec, entry, agent >>
    PROVE  CalmInv'
<1>1. AgentsTyped /\ NoHalfEntry /\ UNCHANGED << use, focus, live, log, entry, agent >>
    BY DEF AgentsInv, chats
<1>2. \/ commands'[c] = Idle
      \/ /\ commands'[c].at = "making" /\ commands'[c].kind = k /\ commands'[c].aim = p
         /\ commands'[c].slot = 0
      \/ /\ commands'[c].at = "found" /\ commands'[c].kind = k /\ commands'[c].aim = p
         /\ commands'[c].slot = entry[p].slot /\ commands'[c].slot # 0
    BY <1>1, LookIs
<1>3. Others(c)
    BY <1>1, LookIs
<1>4. commands'[c].at \notin WithChat /\ commands[c].at = "idle"
    BY <1>2, AgentBasics DEF WithChat
<1>5. ASSUME "calm" \in use PROVE CalmNow'
    <2>1. CalmNow /\ \A d \in Commands : commands[d].at \notin AtTheRail
        BY <1>5, CalmIs
    <2>2. CASE commands'[c] = Idle
        BY <1>1, <1>3, <1>4, <2>1, <2>2, IdleIsCalm
    <2>3. CASE /\ commands'[c].at \in {"making", "found"} /\ commands'[c].aim = p
               /\ commands'[c].at = "making" => commands'[c].slot = 0
               /\ commands'[c].at = "found" => commands'[c].slot = entry[p].slot /\ commands'[c].slot # 0
        <3>1. RailAlone'
            BY <1>3, <2>1, <2>3, RailAloneStays DEF CalmNow, AtTheRail
        <3>2. commands'[c].aim \in live \cup {New}
            BY <2>1, <2>3 DEF CalmNow, AllLive
        <3>3. HasIndexed(c)'
            BY <1>1, <2>3, AgentBasics DEF HasIndexed, SendsWith
        <3>4. ReadLatest(c)'
            BY <2>3 DEF ReadLatest
        <3>5. ASSUME NEW d \in Commands, d # c, commands[d].at = "named", commands'[c].at # "making"
              PROVE  commands'[c].aim # commands[d].aim
            <4>1. WellAt(d) /\ HasIndexed(d) /\ commands[d] \in AgentCommand
                BY <1>1, <2>1 DEF AgentsInv, AgentsTyped, CalmNow
            <4>2. commands[d].kind = "send" /\ commands[d].slot \in Slots
                BY <3>5, <4>1 DEF WellAt, HasChosen, HasAgent, WithAgent, AgentCommand
            <4> QED BY <2>3, <3>5, <4>1, <4>2 DEF HasIndexed, SendsWith
        <3> QED BY <1>1, <1>3, <1>4, <2>1, <2>3, <3>1, <3>2, <3>3, <3>4, <3>5, CalmQuiet
    <2> QED BY <1>2, <2>2, <2>3
<1> QED BY <1>1, <1>3, <1>4, <1>5, OutOfTurn

LEMMA FindsCalm ==
    ASSUME AgentsInv, CalmInv, NEW c \in Commands,
           Send(c) \/ Prewarm(c) \/ \E i \in Ids : SendBehind(c, i)
    PROVE  CalmInv'
<1>1. focus \in Targets
    BY DEF AgentsInv, AgentsTyped
<1>2. CASE Send(c)
    BY <1>1, <1>2, LooksCalm DEF Send
<1>3. CASE Prewarm(c)
    BY <1>1, <1>3, LooksCalm DEF Prewarm
<1>4. ASSUME NEW i \in Ids, SendBehind(c, i) PROVE CalmInv'
    <2>1. i \in Targets
        BY AgentBasics
    <2> QED BY <1>4, <2>1, LooksCalm DEF SendBehind
<1> QED BY <1>2, <1>3, <1>4

LEMMA ReadResumeCalm ==
    ASSUME AgentsInv, CalmInv, NEW c \in Commands, ReadResume(c)
    PROVE  CalmInv'
<1> DEFINE i == commands[c].aim
           r == IF i = New THEN None ELSE log[i]
<1>1. /\ AgentsTyped /\ WellAt(c) /\ LogOwn /\ commands[c].at = "making" /\ commands[c] \in AgentCommand
      /\ UNCHANGED << use, focus, live, log, entry, agent >>
    BY DEF AgentsInv, AgentsTyped, ReadResume, chats
<1>2. commands[c].slot = 0
    BY <1>1 DEF WellAt, HasAgent, WithAgent
<1>3. r \in Talks
    BY <1>1, AgentBasics DEF AgentsTyped, AgentCommand, Targets
<1>4. CASE commands' = Done(c)
    <2>1. Others(c) /\ commands'[c] = Idle
        BY <1>1, <1>4, DoneIsIdle DEF Others
    <2>2. Idle.at \notin WithChat
        BY AgentBasics DEF WithChat
    <2>3. "calm" \in use => CalmNow'
        BY <1>1, <2>1, IdleIsCalm, CalmIs
    <2> QED BY <1>1, <2>1, <2>2, <2>3, OutOfTurn
<1>5. CASE commands' = AtReading(c, "read", r) /\ (i = New \/ ~LockedChat(i))
    <2>1. "read" \in Stages
        BY DEF Stages
    <2> HIDE DEF r
    <2>2. /\ Others(c) /\ commands'[c].at = "read" /\ commands'[c].aim = i
          /\ commands'[c].slot = 0 /\ commands'[c].read = r
        BY <1>1, <1>2, <1>3, <1>5, <2>1, MovedReading DEF Others
    <2>3. ASSUME "calm" \in use PROVE CalmNow'
        <3>1. CalmNow
            BY <2>3, CalmIs
        <3>2. RailAlone'
            <4>1. commands[c] # Idle
                BY <1>1, AgentBasics
            <4> QED BY <2>2, <3>1, <4>1, RailAloneStays DEF CalmNow, AtTheRail
        <3>3. commands'[c].aim \in live \cup {New}
            BY <1>1, <2>2, <3>1 DEF CalmNow, AllLive
        <3>4. HasIndexed(c)'
            BY <2>2, AgentBasics DEF HasIndexed, SendsWith
        <3>5. ReadLatest(c)'
            BY <1>1, <2>2 DEF ReadLatest, Latest, r
        <3>6. ASSUME NEW d \in Commands, d # c, commands[d].at = "named"
              PROVE  commands'[c].aim # commands[d].aim
            <4>1. WellAt(d) /\ New \notin Ids
                BY AgentBasics DEF AgentsInv
            <4> QED BY <1>5, <2>2, <3>6, <4>1 DEF WellAt, HasChosen, LockedChat, WithChat
        <3> QED BY <1>1, <2>2, <3>1, <3>2, <3>3, <3>4, <3>5, <3>6, CalmQuiet
    <2>4. commands'[c].at \notin WithChat
        BY <2>2 DEF WithChat
    <2> QED BY <1>1, <2>2, <2>3, <2>4, OutOfTurn
<1>6. \/ commands' = Done(c)
      \/ commands' = AtReading(c, "read", r) /\ (i = New \/ ~LockedChat(i))
    BY DEF ReadResume, AtReading
<1> QED BY <1>4, <1>5, <1>6

\* Become with the index as it was: what the index has, resumes what it did.
LEMMA BecomeResumes ==
    ASSUME NEW a \in [Slots -> Agent], NEW cs, Become(entry, a, cs),
           \A p \in Targets, s \in Slots : entry[p].slot = s => a[s].resume = agent[s].resume
    PROVE  /\ entry' = entry /\ commands' = cs
           /\ \A p \in Targets, s \in Slots : entry[p].slot = s => agent'[s].resume = agent[s].resume
<1>1. /\ entry' = entry /\ commands' = cs
      /\ \A s \in Slots : agent'[s] = IF Used(s)' THEN a[s] ELSE NewAgent(None)
    BY BecomeIs
<1>2. \A p \in Targets, s \in Slots : entry[p].slot = s => Used(s)'
    BY <1>1 DEF Used
<1> QED BY <1>1, <1>2

LEMMA GetsCalm ==
    ASSUME AgentsInv, CalmInv, NEW c \in Commands,
           LockAgent(c) \/ GetAgent(c) \/ LockChat(c)
    PROVE  CalmInv'
<1>1. /\ AgentsTyped /\ WellAt(c) /\ agent \in [Slots -> Agent] /\ commands[c] \in AgentCommand
      /\ UNCHANGED << use, focus, live, log >>
      /\ commands[c].at \in {"found", "waiting", "chosen"}
    BY DEF AgentsInv, AgentsTyped, LockAgent, GetAgent, LockChat, Step, chats
<1>2. PICK stage \in {"locked", "waiting", "turn", "idle"} :
          /\ stage # "idle" => commands' = Moved(c, stage)
          /\ stage = "idle" => commands' = Done(c)
          /\ stage = "turn" => ~LockedChat(commands[c].chat)
          /\ entry' = entry
          /\ \A p \in Targets, s \in Slots : entry[p].slot = s => agent'[s].resume = agent[s].resume
    <2>1. CASE LockAgent(c)
        <3>1. PICK cs : Become(entry, agent, cs) /\ cs \in {Moved(c, "locked"), Moved(c, "waiting"), Done(c)}
            BY <2>1 DEF LockAgent
        <3>2. /\ entry' = entry /\ commands' = cs
              /\ \A p \in Targets, s \in Slots :
                    entry[p].slot = s => agent'[s].resume = agent[s].resume
            BY <1>1, <3>1, BecomeResumes
        <3> QED BY <3>1, <3>2
    <2>2. CASE GetAgent(c) \/ LockChat(c)
        BY <2>2 DEF GetAgent, LockChat, Step
    <2> QED BY <2>1, <2>2
<1>3. CASE stage = "idle"
    <2>1. Others(c) /\ commands'[c] = Idle
        BY <1>1, <1>2, <1>3, DoneIsIdle DEF Others
    <2>2. Idle.at \notin WithChat
        BY AgentBasics DEF WithChat
    <2>3. "calm" \in use => CalmNow'
        BY <1>1, <1>2, <2>1, IdleIsCalm, CalmIs
    <2> QED BY <1>1, <2>1, <2>2, <2>3, OutOfTurn
<1>4. CASE stage # "idle"
    <2>1. stage \in Stages /\ stage \in {"locked", "waiting", "turn"}
        BY <1>4 DEF Stages
    <2>2. /\ Others(c) /\ commands'[c].at = stage /\ commands'[c].kind = commands[c].kind
          /\ commands'[c].aim = commands[c].aim /\ commands'[c].chat = commands[c].chat
          /\ commands'[c].slot = commands[c].slot
        BY <1>1, <1>2, <1>4, <2>1, MovedIs DEF Others
    <2>3. ASSUME "calm" \in use PROVE CalmNow'
        <3>1. CalmNow
            BY <2>3, CalmIs
        <3> QED BY <1>1, <1>2, <2>1, <2>2, <3>1, GoesOnCalm
    <2>4. OneTurnAChat'
        <3>1. stage = "turn" =>
                  \A d \in Commands : commands[d].at \in WithChat => commands[d].chat # commands'[c].chat
            BY <1>2, <2>2 DEF LockedChat
        <3>2. stage # "turn" => commands'[c].at \notin WithChat
            BY <2>1, <2>2 DEF WithChat
        <3> QED BY <2>2, <3>1, <3>2, OneTurnStays DEF CalmInv
    <2> QED BY <1>1, <2>3, <2>4 DEF CalmInv
<1> QED BY <1>3, <1>4

LEMMA TakeCalm ==
    ASSUME AgentsInv, CalmInv, NEW c \in Commands, NEW plain \in BOOLEAN, TakeProcess(c, plain)
    PROVE  CalmInv'
<1> DEFINE s == commands[c].slot
<1>1. /\ AgentsTyped /\ WellAt(c) /\ agent \in [Slots -> Agent] /\ commands[c] \in AgentCommand
      /\ commands[c].at = "turn" /\ UNCHANGED << use, focus, live, log, entry >>
    BY DEF AgentsInv, AgentsTyped, TakeProcess, chats
<1>2. /\ s \in Slots /\ commands[c].kind = "send" /\ commands[c].chat = commands[c].aim
      /\ commands[c].aim \in Ids /\ commands[c].aim # New
    <2>1. s \in Slots \cup {0} /\ s # 0 /\ New \notin Ids
        BY <1>1, AgentBasics DEF AgentCommand, WellAt, HasAgent, WithAgent
    <2>2. /\ commands[c].kind = "send" /\ commands[c].chat = commands[c].aim
          /\ commands[c].aim \in Ids
        BY <1>1 DEF WellAt, HasChosen
    <2> QED BY <2>1, <2>2
<1>3. PICK x \in Agent : x = agent[s]
    BY <1>1, <1>2
<1>4. commands' = AtRunning(c, "running", x.resume) /\ x.resume \in Talks /\ "running" \in Stages
    BY <1>3 DEF TakeProcess, AtRunning, Agent, Stages
<1>5. /\ Others(c) /\ commands'[c].at = "running" /\ commands'[c].kind = commands[c].kind
      /\ commands'[c].aim = commands[c].aim /\ commands'[c].chat = commands[c].chat
      /\ commands'[c].slot = s /\ commands'[c].runs = x.resume
    BY <1>1, <1>4, MovedRunning DEF Others
<1>6. \A t \in Slots : agent'[t].resume = agent[t].resume
    <2>1. PICK w \in Warm : agent' = [agent EXCEPT ![s].warm = w]
        BY <1>1, <1>2, <1>3, AgentBasics DEF TakeProcess, Agent
    <2>2. [x EXCEPT !.warm = w] \in Agent /\ [x EXCEPT !.warm = w].resume = x.resume
        BY DEF Agent
    <2>3. agent' = [agent EXCEPT ![s] = [x EXCEPT !.warm = w]]
        BY <1>1, <1>2, <1>3, <2>1
    <2> QED BY <1>1, <1>2, <1>3, <2>2, <2>3
<1>7. ASSUME "calm" \in use PROVE CalmNow'
    <2>1. CalmNow
        BY <1>7, CalmIs
    <2>2. entry[commands[c].aim].slot = s
        BY <1>1, <1>2, <2>1 DEF CalmNow, HasIndexed, SendsWith
    <2>3. x.resume = log[commands[c].aim]
        <3>1. commands[c].aim \in Targets
            BY <1>2, AgentBasics
        <3> QED BY <1>2, <1>3, <2>1, <2>2, <3>1 DEF CalmNow, UpToDate, Latest
    <2>4. commands'[c].runs = log[commands'[c].chat]
        BY <1>2, <1>5, <2>3
    <2> QED BY <1>1, <1>5, <1>6, <2>1, <2>4, GoesOnCalm
<1>8. OneTurnAChat'
    BY <1>1, <1>5, OneTurnStays DEF CalmInv, WithChat
<1> QED BY <1>1, <1>7, <1>8 DEF CalmInv

LEMMA FillCalm ==
    ASSUME AgentsInv, CalmInv, NEW c \in Commands, Fill(c)
    PROVE  CalmInv'
<1>1. /\ AgentsTyped /\ UNCHANGED << use, focus, live, log >> /\ commands[c].at = "locked"
    BY DEF AgentsInv, AgentsTyped, Fill, chats
<1>2. PICK a \in [Slots -> Agent] :
          Become(entry, a, Done(c)) /\ \A s \in Slots : a[s].resume = agent[s].resume
    BY FillIs
<1>3. /\ entry' = entry /\ commands' = Done(c)
      /\ \A p \in Targets, s \in Slots : entry[p].slot = s => agent'[s].resume = agent[s].resume
    BY <1>2, BecomeResumes
<1>4. Others(c) /\ commands'[c] = Idle
    BY <1>1, <1>3, DoneIsIdle DEF Others
<1>5. Idle.at \notin WithChat
    BY AgentBasics DEF WithChat
<1>6. "calm" \in use => CalmNow'
    BY <1>1, <1>3, <1>4, IdleIsCalm, CalmIs
<1> QED BY <1>1, <1>4, <1>5, <1>6, OutOfTurn

\* Where the index is up to date, an entry is in use as it is.
LEMMA UsableIs ==
    ASSUME AgentsInv, CalmNow, NEW p \in Targets
    PROVE  /\ entry[p] = NoEntry => entry[p].slot = 0
           /\ entry[p] # NoEntry => entry[p].slot \in Slots /\ entry[p].current
           /\ (Usable(p) <=> entry[p] # NoEntry)
<1>1. entry[p] \in Entry /\ NoHalfEntry
    BY DEF AgentsInv, AgentsTyped
<1>2. entry[p] # NoEntry => entry[p].slot \in Slots
    BY <1>1 DEF Entry, NoHalfEntry
<1>3. entry[p] # NoEntry => entry[p].current
    BY <1>2 DEF CalmNow, UpToDate
<1> QED BY <1>2, <1>3, AgentBasics DEF Usable

\* A command that has no agent yet, or waits, is about no chat that is named.
LEMMA NamedApart ==
    ASSUME AgentsInv, CalmNow, NEW c \in Commands, NEW d \in Commands, d # c,
           commands[d].at = "named"
    PROVE  /\ commands[c].at # "making" => commands[c].aim # commands[d].aim
           /\ commands[d].aim \in Ids /\ commands[d].aim # New /\ commands[d].chat = commands[d].aim
           /\ Making(d) /\ commands[d].slot \in Slots /\ SendsWith(d, commands[d].slot)
<1>1. WellAt(d) /\ HasIndexed(d) /\ commands[d] \in AgentCommand /\ New \notin Ids
    BY AgentBasics DEF AgentsInv, AgentsTyped, CalmNow
<1>2. /\ commands[d].kind = "send" /\ commands[d].slot \in Slots
      /\ commands[d].aim \in Ids /\ commands[d].chat = commands[d].aim
    BY <1>1 DEF WellAt, HasChosen, HasAgent, WithAgent, AgentCommand
<1> QED BY <1>1, <1>2 DEF HasIndexed, SendsWith, Making

LEMMA MakeCalm ==
    ASSUME AgentsInv, CalmInv, NEW c \in Commands, Make(c)
    PROVE  CalmInv'
<1> DEFINE p == commands[c].aim
           u == Unused
<1>1. /\ AgentsTyped /\ WellAt(c) /\ ReadOwn(c) /\ NoHalfEntry /\ agent \in [Slots -> Agent]
      /\ entry \in [Targets -> Entry] /\ commands[c] \in AgentCommand /\ p \in Targets
      /\ commands[c].at = "read" /\ UNCHANGED << use, focus, live, log >>
    BY DEF AgentsInv, AgentsTyped, AgentCommand, Make, chats
<1>2. commands[c].slot = 0 /\ commands[c].read \in Talks /\ commands[c] # Idle
    BY <1>1, AgentBasics DEF WellAt, HasAgent, WithAgent, AgentCommand
<1>3. CASE Become(entry, agent, Done(c))
    <2>1. /\ entry' = entry /\ commands' = Done(c)
          /\ \A q \in Targets, s \in Slots : entry[q].slot = s => agent'[s].resume = agent[s].resume
        BY <1>1, <1>3, BecomeResumes
    <2>2. Others(c) /\ commands'[c] = Idle
        BY <1>1, <2>1, DoneIsIdle DEF Others
    <2>3. Idle.at \notin WithChat
        BY AgentBasics DEF WithChat
    <2>4. "calm" \in use => CalmNow'
        BY <1>1, <2>1, <2>2, IdleIsCalm, CalmIs
    <2> QED BY <1>1, <2>2, <2>3, <2>4, OutOfTurn
<1>4. ASSUME NEW s \in Slots, NEW e, NEW a, Become(e, a, AtFinding(c, s))
      PROVE  /\ entry' = e /\ Others(c)
             /\ commands'[c].at = "found" /\ commands'[c].aim = p /\ commands'[c].slot = s
             /\ ("calm" \in use => CalmNow') => CalmInv'
    <2>1. commands' = AtFinding(c, s) /\ entry' = e
        BY <1>4 DEF Become
    <2>2. /\ Others(c) /\ commands'[c].at = "found" /\ commands'[c].aim = p
          /\ commands'[c].slot = s
        BY <1>1, <2>1, MovedFinding DEF Others
    <2>3. commands'[c].at \notin WithChat
        BY <2>2 DEF WithChat
    <2> QED BY <1>1, <2>1, <2>2, <2>3, OutOfTurn
<1>5. CASE Usable(p)
    <2> DEFINE s == entry[p].slot
    <2>1. s \in Slots
        BY <1>1, <1>5 DEF Usable, NoHalfEntry, Entry
    <2>2. Become(entry, agent, AtFinding(c, s))
        BY <1>5 DEF Make, AtFinding
    <2>3. \A q \in Targets, t \in Slots : entry[q].slot = t => agent'[t].resume = agent[t].resume
        BY <1>1, <2>2, BecomeResumes
    <2> HIDE DEF s
    <2>4. /\ entry' = entry /\ Others(c)
          /\ commands'[c].at = "found" /\ commands'[c].aim = p /\ commands'[c].slot = s
          /\ ("calm" \in use => CalmNow') => CalmInv'
        BY <1>4, <2>1, <2>2
    <2>5. ASSUME "calm" \in use PROVE CalmNow'
        <3>1. CalmNow
            BY <2>5, CalmIs
        <3>2. RailAlone'
            BY <1>2, <2>4, <3>1, RailAloneStays DEF CalmNow, AtTheRail
        <3>3. commands'[c].aim \in live \cup {New}
            BY <1>1, <2>4, <3>1 DEF CalmNow, AllLive
        <3>4. HasIndexed(c)'
            BY <2>4 DEF HasIndexed, SendsWith, s
        <3>5. ReadLatest(c)'
            BY <2>4 DEF ReadLatest
        <3>6. ASSUME NEW d \in Commands, d # c, commands[d].at = "named"
              PROVE  commands'[c].aim # commands[d].aim
            BY <1>1, <2>4, <3>1, <3>6, NamedApart
        <3> QED BY <1>1, <2>3, <2>4, <3>1, <3>2, <3>3, <3>4, <3>5, <3>6, CalmQuiet
    <2> QED BY <2>4, <2>5
<1>6. CASE ~Usable(p) /\ spec # Off
    <2> DEFINE e == [entry EXCEPT ![p] = [slot |-> u, current |-> TRUE]]
               a == [agent EXCEPT ![u] = NewAgent(commands[c].read)]
    <2>1. u \in Slots /\ ~Used(u)
        BY <1>1, <1>2, UnusedIs
    <2>2. Become(e, a, AtFinding(c, u))
        BY <1>6 DEF Make, AtFinding
    <2> HIDE DEF u
    <2>3. e[p].slot = u /\ e[p].current /\ \A q \in Targets : q # p => e[q] = entry[q]
        BY <1>1
    <2>4. /\ a \in [Slots -> Agent] /\ a[u].resume = commands[c].read
          /\ \A s \in Slots : s # u => a[s] = agent[s]
        <3>1. NewAgent(commands[c].read) \in Agent /\ NewAgent(commands[c].read).resume = commands[c].read
            BY <1>2, AgentBasics
        <3> QED BY <1>1, <2>1, <3>1
    <2> HIDE DEF e, a
    <2>5. /\ entry' = e /\ Others(c)
          /\ commands'[c].at = "found" /\ commands'[c].aim = p /\ commands'[c].slot = u
          /\ ("calm" \in use => CalmNow') => CalmInv'
        BY <1>4, <2>1, <2>2
    <2>6. \A q \in Targets, s \in Slots : entry'[q].slot = s => agent'[s] = a[s]
        <3>1. \A s \in Slots : agent'[s] = IF Used(s)' THEN a[s] ELSE NewAgent(None)
            BY <2>2, <2>4, BecomeIs
        <3> QED BY <3>1 DEF Used
    <2>7. ASSUME "calm" \in use PROVE CalmNow'
        <3>1. CalmNow /\ HasIndexed(c) /\ ReadLatest(c)
            BY <2>7, CalmIs DEF CalmNow
        <3>2. entry[p].slot = 0
            BY <1>1, <1>6, <3>1, UsableIs
        <3>3. commands[c].read = Latest(p)
            BY <1>1, <3>1, <3>2 DEF ReadLatest
        <3>4. RailAlone'
            BY <1>2, <2>5, <3>1, RailAloneStays DEF CalmNow, AtTheRail
        <3>5. UpToDate'
            <4> SUFFICES ASSUME NEW q \in Targets, NEW s \in Slots, entry'[q].slot = s
                         PROVE  entry'[q].current /\ agent'[s].resume = Latest(q)
                BY <1>1 DEF UpToDate, Latest
            <4>1. agent'[s] = a[s]
                BY <2>6
            <4>2. CASE q = p
                BY <2>3, <2>4, <2>5, <3>3, <4>1, <4>2
            <4>3. CASE q # p
                <5>1. entry'[q] = entry[q] /\ s # u
                    BY <2>1, <2>3, <2>5, <4>3 DEF Used
                <5> QED BY <2>4, <3>1, <4>1, <5>1 DEF CalmNow, UpToDate
            <4> QED BY <4>2, <4>3
        <3>6. AllLive'
            <4>1. p \in live \cup {New}
                BY <1>1, <3>1 DEF CalmNow, AllLive
            <4>2. \A d \in Commands : commands'[d].at # "forgetting" => commands'[d].aim \in live \cup {New}
                BY <1>1, <2>5, <3>1, <4>1 DEF CalmNow, AllLive, Others
            <4>3. ASSUME NEW i \in Ids, entry'[i].slot # 0, i \notin live
                  PROVE  \E d \in Commands : commands'[d].at = "forgetting" /\ commands'[d].aim = i
                <5>1. i # p /\ i \in Targets
                    BY <4>1, <4>3, AgentBasics
                <5>2. entry[i].slot # 0
                    BY <2>3, <2>5, <4>3, <5>1
                <5>3. PICK d \in Commands : commands[d].at = "forgetting" /\ commands[d].aim = i
                    BY <3>1, <4>3, <5>2 DEF CalmNow, AllLive
                <5>4. commands'[d] = commands[d]
                    BY <1>1, <2>5, <5>3 DEF Others
                <5> QED BY <5>3, <5>4
            <4> QED BY <1>1, <3>1, <4>2, <4>3 DEF CalmNow, AllLive
        <3>7. HasIndexed(c)' /\ ReadLatest(c)'
            BY <2>3, <2>5 DEF HasIndexed, ReadLatest, SendsWith
        <3>8. ASSUME NEW d \in Commands, d # c
              PROVE  HasIndexed(d)' /\ ReadLatest(d)'
            <4>1. /\ commands'[d] = commands[d] /\ HasIndexed(d) /\ ReadLatest(d)
                  /\ commands[d] \in AgentCommand /\ commands[d].aim \in Targets
                BY <1>1, <2>5, <3>1, <3>8 DEF Others, CalmNow, AgentsTyped, AgentCommand
            <4>2. \A q \in Targets : entry[q].slot # 0 => entry'[q] = entry[q]
                BY <2>3, <2>5, <3>2
            <4>3. ReadLatest(d)'
                BY <1>1, <4>1, <4>2 DEF ReadLatest, Latest
            <4>4. ASSUME NEW s \in Slots, SendsWith(d, s), commands[d].at # "named"
                  PROVE  entry'[commands[d].aim] = entry[commands[d].aim]
                BY <4>1, <4>2, <4>4, AgentBasics DEF HasIndexed
            <4>5. ASSUME commands[d].at = "named"
                  PROVE  /\ entry'[New] = entry[New]
                         /\ entry'[commands[d].aim] = entry[commands[d].aim]
                         /\ commands'[c].aim # commands[d].aim
                <5>1. /\ commands[d].aim # p /\ commands[d].slot \in Slots
                      /\ SendsWith(d, commands[d].slot)
                    BY <1>1, <3>1, <3>8, <4>5, NamedApart
                <5>2. entry[New].slot = commands[d].slot /\ commands[d].slot # 0 /\ New \in Targets
                    BY <4>1, <4>5, <5>1, AgentBasics DEF HasIndexed
                <5> QED BY <2>3, <2>5, <4>1, <4>2, <5>1, <5>2
            <4>6. HasIndexed(d)'
                BY <1>1, <2>5, <3>1, <3>8, <4>4, <4>5, IndexedStays
            <4> QED BY <4>3, <4>6
        <3> QED BY <3>4, <3>5, <3>6, <3>7, <3>8 DEF CalmNow
    <2> QED BY <2>5, <2>7
<1> QED BY <1>3, <1>5, <1>6 DEF Make

LEMMA ChooseCalm ==
    ASSUME AgentsInv, CalmInv, NEW c \in Commands, NEW i \in Ids, ChooseChat(c, i)
    PROVE  CalmInv'
<1>1. /\ AgentsTyped /\ WellAt(c) /\ OneMaking /\ "chosen" \in Stages /\ "named" \in Stages
      /\ commands[c].at = "locked" /\ commands[c].kind = "send" /\ commands[c] # Idle
      /\ UNCHANGED << use, log, entry, agent >> /\ i # New /\ i \in Targets
    BY AgentBasics DEF AgentsInv, AgentsTyped, ChooseChat, Stages
<1>2. CASE commands[c].aim # New
    <2>1. /\ i = commands[c].aim /\ commands' = AtChoosing(c, "chosen", i)
          /\ UNCHANGED << focus, fromNew, live >>
        BY <1>2 DEF ChooseChat, AtChoosing
    <2>2. /\ Others(c) /\ commands'[c].at = "chosen" /\ commands'[c].kind = commands[c].kind
          /\ commands'[c].slot = commands[c].slot /\ commands'[c].aim = commands[c].aim
        BY <1>1, <2>1, MovedChoosing DEF Others
    <2>3. "calm" \in use => CalmNow'
        BY <1>1, <2>1, <2>2, GoesOnCalm, CalmIs
    <2>4. commands'[c].at \notin WithChat
        BY <2>2 DEF WithChat
    <2> QED BY <1>1, <2>2, <2>3, <2>4, OutOfTurn
<1>3. CASE commands[c].aim = New
    <2>1. focus = New \/ focus # fromNew
        BY <1>1, <1>3 DEF OneMaking
    <2>2. (MakesChat(c, i, i, i) /\ focus = New) \/ MakesChat(c, i, focus, fromNew)
        BY <1>3, <2>1 DEF ChooseChat
    <2>3. /\ i \notin live /\ log[i] = None /\ \A d \in Commands : commands[d].aim # i
          /\ live' = live \cup {i} /\ commands' = AtChoosing(c, "named", i)
          /\ focus' \in {i, focus}
        BY <2>2 DEF MakesChat, AtChoosing, Unborn
    <2>4. /\ Others(c) /\ commands'[c].at = "named" /\ commands'[c].kind = "send"
          /\ commands'[c].slot = commands[c].slot
          /\ commands'[c].chat = i /\ commands'[c].aim = i
        BY <1>1, <2>3, MovedChoosing DEF Others
    <2>5. OneTurnAChat'
        <3>1. ASSUME NEW d \in Commands, commands[d].at \in WithChat PROVE commands[d].chat # i
            <4>1. WellAt(d)
                BY DEF AgentsInv
            <4> QED BY <2>3, <3>1, <4>1 DEF WellAt, HasChosen, WithChat
        <3> QED BY <2>4, <3>1, OneTurnStays DEF CalmInv
    <2>6. ASSUME "calm" \in use PROVE CalmNow'
        <3>1. CalmNow /\ HasIndexed(c)
            BY <2>6, CalmIs DEF CalmNow
        <3>2. RailAlone' /\ \A d \in Commands : commands[d].at \notin AtTheRail
            <4>1. RailAlone'
                BY <1>1, <2>4, <3>1, RailAloneStays DEF CalmNow, AtTheRail
            <4>2. commands[c].at \notin AtTheRail
                BY <1>1 DEF AtTheRail
            <4> QED BY <1>1, <3>1, <4>1, <4>2 DEF CalmNow, RailAlone
        <3>3. UpToDate'
            BY <1>1, <3>1 DEF CalmNow, UpToDate, Latest
        <3>4. AllLive'
            <4>1. \A d \in Commands : commands'[d].at # "forgetting" => commands'[d].aim \in live' \cup {New}
                BY <2>3, <2>4, <3>1 DEF CalmNow, AllLive, Others
            <4>2. ASSUME NEW j \in Ids, entry'[j].slot # 0 PROVE j \in live'
                BY <1>1, <2>3, <3>1, <3>2, <4>2 DEF CalmNow, AllLive, AtTheRail
            <4>3. focus' \in live' \cup {New}
                BY <2>3, <3>1 DEF CalmNow, AllLive
            <4> QED BY <4>1, <4>2, <4>3 DEF AllLive
        <3>5. HasIndexed(c)'
            <4>1. entry[i].slot = 0
                BY <1>1, <2>3, <3>1, <3>2 DEF CalmNow, AllLive, AtTheRail
            <4>2. \A d \in Commands : d # c => commands'[d].aim # i
                BY <2>3, <2>4 DEF Others
            <4>3. \A s \in Slots : SendsWith(c, s)' => entry[New].slot = s
                BY <1>1, <1>3, <2>4, <3>1 DEF HasIndexed, SendsWith
            <4> QED BY <1>1, <2>3, <2>4, <4>1, <4>2, <4>3 DEF HasIndexed
        <3>6. ReadLatest(c)'
            BY <2>4 DEF ReadLatest
        <3>7. ASSUME NEW d \in Commands, d # c PROVE HasIndexed(d)' /\ ReadLatest(d)'
            <4>1. /\ commands'[d] = commands[d] /\ ReadLatest(d) /\ commands[d].at \notin AtTheRail
                  /\ commands[d].aim # i
                BY <2>3, <2>4, <3>1, <3>2, <3>7 DEF Others, CalmNow
            <4>2. ReadLatest(d)'
                BY <1>1, <4>1 DEF ReadLatest, Latest, AtTheRail
            <4>3. HasIndexed(d)'
                BY <1>1, <2>4, <3>1, <3>7, <4>1, IndexedStays
            <4> QED BY <4>2, <4>3
        <3> QED BY <3>2, <3>3, <3>4, <3>5, <3>6, <3>7 DEF CalmNow
    <2> QED BY <1>1, <2>5, <2>6 DEF CalmInv
<1> QED BY <1>2, <1>3

LEMMA AdoptNewCalm ==
    ASSUME AgentsInv, CalmInv, NEW c \in Commands, AdoptNew(c)
    PROVE  CalmInv'
<1> DEFINE u == commands[c].slot
           i == commands[c].chat
           own == entry[New].slot = u
           e == [entry EXCEPT ![i] = [slot |-> u, current |-> own => entry[New].current]]
           f == IF own THEN [e EXCEPT ![New] = NoEntry] ELSE e
<1>1. /\ AgentsTyped /\ WellAt(c) /\ agent \in [Slots -> Agent] /\ OneMaking
      /\ entry \in [Targets -> Entry] /\ commands[c] \in AgentCommand
      /\ commands[c].at = "named" /\ commands[c] # Idle /\ UNCHANGED << use, focus, live, log >>
      /\ Become(f, agent, Moved(c, "turn")) /\ "turn" \in Stages
    BY AgentBasics DEF AgentsInv, AgentsTyped, AdoptNew, chats, Stages
<1> HIDE DEF own, e, f
<1>2. /\ u \in Slots /\ commands[c].kind = "send" /\ i = commands[c].aim /\ i \in Ids
      /\ i \in Targets /\ i # New /\ New \in Targets
    <2>1. u \in Slots \cup {0} /\ u # 0
        BY <1>1 DEF AgentCommand, WellAt, HasAgent, WithAgent
    <2>2. commands[c].kind = "send" /\ i = commands[c].aim /\ i \in Ids
        BY <1>1 DEF WellAt, HasChosen
    <2> QED BY <2>1, <2>2, AgentBasics
<1>3. SendsWith(c, u)
    BY <1>2 DEF SendsWith
<1>4. Making(c)
    BY <1>1, <1>2 DEF Making
<1>5. /\ entry' = f /\ commands' = Moved(c, "turn")
      /\ \A s \in Slots : agent'[s] = IF Used(s)' THEN agent[s] ELSE NewAgent(None)
    BY <1>1, BecomeIs
<1> USE DEF own, e, f
<1>6. /\ Others(c) /\ commands'[c].at = "turn" /\ commands'[c].kind = commands[c].kind
      /\ commands'[c].aim = i /\ commands'[c].chat = i /\ commands'[c].slot = u
    BY <1>1, <1>2, <1>5, MovedIs DEF Others
<1>7. OneTurnAChat'
    BY <1>1, <1>6, OneTurnStays DEF CalmInv, WithChat
<1>8. ASSUME "calm" \in use PROVE CalmNow'
    <2>1. CalmNow /\ HasIndexed(c)
        BY <1>8, CalmIs DEF CalmNow
    <2>2. /\ entry[New].slot = u /\ entry[New].current /\ log[i] = None /\ entry[i].slot = 0
          /\ \A d \in Commands : d # c /\ commands[d].aim = i => commands[d].at = "making"
          /\ agent[u].resume = None
        BY <1>1, <1>2, <1>3, <2>1 DEF HasIndexed, CalmNow, UpToDate, Latest
    <2>3. /\ entry'[i].slot = u /\ entry'[i].current /\ entry'[New] = NoEntry
          /\ \A q \in Targets : q # i /\ q # New => entry'[q] = entry[q]
        <3>1. [slot |-> u, current |-> own => entry[New].current].current
            BY <2>2
        <3> DEFINE z == [slot |-> u, current |-> own => entry[New].current]
        <3>2. z.slot = u
            OBVIOUS
        <3> HIDE DEF z
        <3>3. e = [entry EXCEPT ![i] = z]
            BY DEF z
        <3>4. f = [e EXCEPT ![New] = NoEntry]
            BY <2>2
        <3> HIDE DEF e, f, own
        <3> QED BY <1>1, <1>2, <1>5, <3>1, <3>2, <3>3, <3>4 DEF z
    <2> HIDE DEF e, f, own
    <2>4. RailAlone'
        BY <1>1, <1>6, <2>1, RailAloneStays DEF CalmNow, AtTheRail
    <2>5. UpToDate'
        <3> SUFFICES ASSUME NEW q \in Targets, NEW s \in Slots, entry'[q].slot = s
                     PROVE  entry'[q].current /\ agent'[s].resume = Latest(q)
            BY <1>1 DEF UpToDate, Latest
        <3>1. agent'[s] = agent[s] /\ s # 0
            BY <1>5, AgentBasics DEF Used
        <3>2. CASE q = i
            BY <1>2, <2>2, <2>3, <3>1, <3>2 DEF Latest
        <3>3. CASE q = New
            BY <2>3, <3>1, <3>3, AgentBasics
        <3>4. CASE q # i /\ q # New
            BY <2>1, <2>3, <3>1, <3>4 DEF CalmNow, UpToDate
        <3> QED BY <3>2, <3>3, <3>4
    <2>6. AllLive'
        <3>1. i \in live
            BY <1>1, <1>2, <2>1 DEF CalmNow, AllLive
        <3>2. \A d \in Commands : commands'[d].at # "forgetting" => commands'[d].aim \in live \cup {New}
            BY <1>6, <2>1, <3>1 DEF CalmNow, AllLive, Others
        <3>3. ASSUME NEW j \in Ids, entry'[j].slot # 0, j \notin live
              PROVE  \E d \in Commands : commands'[d].at = "forgetting" /\ commands'[d].aim = j
            <4>1. j # i /\ j \in Targets /\ j # New
                BY <3>1, <3>3, AgentBasics
            <4>2. PICK d \in Commands : commands[d].at = "forgetting" /\ commands[d].aim = j
                BY <2>1, <2>3, <3>3, <4>1 DEF CalmNow, AllLive
            <4>3. commands'[d] = commands[d]
                BY <1>1, <1>6, <4>2 DEF Others
            <4> QED BY <4>2, <4>3
        <3> QED BY <1>1, <2>1, <3>2, <3>3 DEF CalmNow, AllLive
    <2>7. HasIndexed(c)' /\ ReadLatest(c)'
        BY <1>6, <2>3 DEF HasIndexed, ReadLatest, SendsWith
    <2>8. ASSUME NEW d \in Commands, d # c PROVE HasIndexed(d)' /\ ReadLatest(d)'
        <3>1. /\ commands'[d] = commands[d] /\ HasIndexed(d) /\ ReadLatest(d) /\ WellAt(d) /\ ReadOwn(d)
              /\ commands[d] \in AgentCommand /\ commands[d].aim \in Targets /\ ~Making(d)
            BY <1>1, <1>4, <1>6, <2>1, <2>8
            DEF Others, CalmNow, AgentsInv, AgentsTyped, AgentCommand, OneMaking
        <3>2. ReadLatest(d)'
            <4>1. commands[d].at = "read" =>
                      commands[d].read = Latest(commands[d].aim) \/ entry'[commands[d].aim].slot # 0
                <5> SUFFICES ASSUME commands[d].at = "read", commands[d].read # Latest(commands[d].aim)
                             PROVE  entry'[commands[d].aim].slot # 0
                    OBVIOUS
                <5>1. entry[commands[d].aim].slot # 0
                    BY <3>1 DEF ReadLatest
                <5>2. commands[d].aim # New
                    BY <3>1, AgentBasics DEF ReadOwn, Own, Latest, AgentCommand
                <5>3. commands[d].aim # i
                    BY <2>2, <5>1
                <5> QED BY <2>3, <3>1, <5>1, <5>2, <5>3
            <4> QED BY <1>1, <3>1, <4>1 DEF ReadLatest, Latest
        <3>3. HasIndexed(d)'
            <4>1. commands[d].at # "named"
                BY <3>1 DEF WellAt, HasChosen, Making
            <4>2. ASSUME NEW s \in Slots, SendsWith(d, s)
                  PROVE  entry'[commands[d].aim].slot = entry[commands[d].aim].slot
                <5>1. entry[commands[d].aim].slot = s /\ s # 0
                    BY <3>1, <4>1, <4>2, AgentBasics DEF HasIndexed
                <5>2. commands[d].aim # New
                    BY <3>1, <4>2 DEF Making, SendsWith
                <5>3. commands[d].aim # i
                    BY <2>2, <5>1
                <5> QED BY <2>3, <3>1, <5>2, <5>3
            <4> QED BY <1>6, <2>1, <2>8, <4>1, <4>2, IndexedStays
        <3> QED BY <3>2, <3>3
    <2> QED BY <2>4, <2>5, <2>6, <2>7, <2>8 DEF CalmNow
<1> QED BY <1>1, <1>7, <1>8 DEF CalmInv

LEMMA EndTurnCalm ==
    ASSUME AgentsInv, CalmInv, NEW c \in Commands, NEW began \in BOOLEAN, EndTurn(c, began)
    PROVE  CalmInv'
<1> DEFINE i == commands[c].chat
           s == commands[c].slot
<1>1. /\ AgentsTyped /\ WellAt(c) /\ agent \in [Slots -> Agent] /\ log \in [Ids -> Talks]
      /\ commands[c] \in AgentCommand /\ commands[c].at = "running" /\ OneChatPerAgent
      /\ UNCHANGED << use, focus, live >>
    BY DEF AgentsInv, AgentsTyped, EndTurn
<1>2. /\ s \in Slots /\ s # 0 /\ commands[c].kind = "send" /\ i = commands[c].aim
      /\ i \in Ids /\ i \in Targets /\ i # New
    <2>1. s \in Slots \cup {0} /\ s # 0
        BY <1>1 DEF AgentCommand, WellAt, HasAgent, WithAgent
    <2>2. commands[c].kind = "send" /\ i = commands[c].aim /\ i \in Ids
        BY <1>1 DEF WellAt, HasChosen
    <2> QED BY <2>1, <2>2, AgentBasics
<1>3. entry' = entry /\ commands' = Done(c)
    BY EndTurnIs DEF Become
<1>4. Others(c) /\ commands'[c] = Idle
    BY <1>1, <1>3, DoneIsIdle DEF Others
<1>5. Idle.at \notin WithChat /\ Idle.at \notin AtTheRail /\ Idle.at # "forgetting"
    BY AgentBasics DEF WithChat, AtTheRail
<1>6. CASE log' = log /\ Become(entry, agent, Done(c))
    <2>1. \A p \in Targets, t \in Slots : entry[p].slot = t => agent'[t].resume = agent[t].resume
        BY <1>1, <1>6, BecomeResumes
    <2>2. "calm" \in use => CalmNow'
        BY <1>1, <1>3, <1>4, <1>6, <2>1, IdleIsCalm, CalmIs
    <2> QED BY <1>1, <1>4, <1>5, <2>2, OutOfTurn
<1>7. ASSUME NEW talk \in Talks, log' = [log EXCEPT ![i] = talk],
             Become(entry, [agent EXCEPT ![s].resume = talk], Done(c))
      PROVE  CalmInv'
    <2>1. PICK x \in Agent : x = agent[s]
        BY <1>1, <1>2
    <2> DEFINE b == [x EXCEPT !.resume = talk]
               a == [agent EXCEPT ![s] = b]
    <2>2. b \in Agent /\ b.resume = talk
        BY DEF Agent
    <2>3. Become(entry, a, Done(c))
        BY <1>7, <2>1
    <2> HIDE DEF b
    <2>4. a \in [Slots -> Agent] /\ a[s] = b /\ \A t \in Slots : t # s => a[t] = agent[t]
        BY <1>1, <1>2, <2>2
    <2> HIDE DEF a
    <2>5. \A p \in Targets, t \in Slots : entry[p].slot = t => agent'[t] = a[t]
        <3>1. \A t \in Slots : agent'[t] = IF Used(t)' THEN a[t] ELSE NewAgent(None)
            BY <2>3, <2>4, BecomeIs
        <3> QED BY <1>3, <3>1 DEF Used
    <2>6. log'[i] = talk /\ \A j \in Ids : j # i => log'[j] = log[j]
        BY <1>1, <1>2, <1>7
    <2>7. ASSUME "calm" \in use PROVE CalmNow'
        <3>1. CalmNow /\ HasIndexed(c)
            BY <2>7, CalmIs DEF CalmNow
        <3>2. entry[i].slot = s
            BY <1>1, <1>2, <3>1 DEF HasIndexed, SendsWith
        <3>3. RailAlone' /\ \A d \in Commands : commands[d].at \notin AtTheRail
            <4>1. commands[c] # Idle /\ commands[c].at \notin AtTheRail
                BY <1>1, AgentBasics DEF AtTheRail
            <4>2. \A d \in Commands : commands[d].at \notin AtTheRail
                BY <3>1, <4>1 DEF CalmNow, RailAlone
            <4> QED BY <1>4, <1>5, <3>1, <4>2, RailAloneStays DEF CalmNow
        <3>4. UpToDate'
            <4> SUFFICES ASSUME NEW p \in Targets, NEW t \in Slots, entry[p].slot = t
                         PROVE  entry[p].current /\ agent'[t].resume = Latest(p)'
                BY <1>3 DEF UpToDate
            <4>1. agent'[t] = a[t] /\ entry[p].current /\ agent[t].resume = Latest(p)
                BY <2>5, <3>1 DEF CalmNow, UpToDate
            <4>2. CASE p = i
                BY <1>2, <2>2, <2>4, <2>6, <3>2, <4>1, <4>2 DEF Latest
            <4>3. CASE p # i
                <5>1. t # s
                    BY <1>1, <1>2, <3>2, <4>3 DEF OneChatPerAgent
                <5>2. Latest(p)' = Latest(p)
                    BY <2>6, <4>3 DEF Latest, Targets
                <5> QED BY <2>4, <4>1, <5>1, <5>2
            <4> QED BY <4>2, <4>3
        <3>5. AllLive'
            <4>1. \A d \in Commands : commands'[d].at # "forgetting" => commands'[d].aim \in live \cup {New}
                BY <1>4, <3>1, AgentBasics DEF CalmNow, AllLive, Others
            <4>2. \A j \in Ids : entry[j].slot # 0 => j \in live
                BY <3>1, <3>3 DEF CalmNow, AllLive, AtTheRail
            <4> QED BY <1>1, <1>3, <3>1, <4>1, <4>2 DEF CalmNow, AllLive
        <3>6. HasIndexed(c)' /\ ReadLatest(c)'
            <4>1. /\ commands'[c].at = "idle" /\ commands'[c].kind = ""
                BY <1>4, AgentBasics
            <4> QED BY <4>1 DEF HasIndexed, ReadLatest, SendsWith
        <3>7. ASSUME NEW d \in Commands, d # c PROVE HasIndexed(d)' /\ ReadLatest(d)'
            <4>1. /\ commands'[d] = commands[d] /\ ReadLatest(d) /\ commands[d].at \notin AtTheRail
                  /\ commands[d] \in AgentCommand /\ commands[d].aim \in Targets /\ WellAt(d)
                BY <1>1, <1>4, <3>1, <3>3, <3>7 DEF Others, CalmNow, AgentsInv, AgentsTyped, AgentCommand
            <4>2. ReadLatest(d)'
                <5>1. commands[d].at = "read" =>
                          commands[d].read = Latest(commands[d].aim)' \/ entry[commands[d].aim].slot # 0
                    <6>1. CASE commands[d].aim = i
                        BY <1>2, <3>2, <6>1
                    <6>2. CASE commands[d].aim # i
                        <7>1. Latest(commands[d].aim)' = Latest(commands[d].aim)
                            BY <2>6, <4>1, <6>2 DEF Latest, Targets
                        <7> QED BY <4>1, <7>1 DEF ReadLatest
                    <6> QED BY <6>1, <6>2
                <5>2. commands[d].at = "running" => commands[d].runs = log'[commands[d].chat]
                    <6> SUFFICES ASSUME commands[d].at = "running"
                                 PROVE  commands[d].runs = log'[commands[d].chat]
                        OBVIOUS
                    <6>1. commands[d].chat # i
                        BY <1>1, <3>7 DEF CalmInv, OneTurnAChat, WithChat
                    <6>2. commands[d].chat \in Ids
                        BY <4>1 DEF WellAt, HasChosen
                    <6> QED BY <2>6, <4>1, <6>1, <6>2 DEF ReadLatest
                <5> QED BY <1>3, <4>1, <5>1, <5>2 DEF ReadLatest, AtTheRail
            <4>3. HasIndexed(d)'
                <5>1. commands[d].at = "named" =>
                          /\ log'[commands[d].aim] = log[commands[d].aim]
                          /\ commands'[c].aim # commands[d].aim
                    <6> SUFFICES ASSUME commands[d].at = "named"
                                 PROVE  /\ log'[commands[d].aim] = log[commands[d].aim]
                                        /\ commands'[c].aim # commands[d].aim
                        OBVIOUS
                    <6>1. commands[d].aim # i /\ commands[d].aim \in Ids /\ commands[d].aim # New
                        BY <1>1, <1>2, <3>1, <3>7, NamedApart
                    <6> QED BY <1>4, <2>6, <6>1, AgentBasics
                <5> QED BY <1>3, <1>4, <3>1, <3>7, <5>1, IndexedStays
            <4> QED BY <4>2, <4>3
        <3> QED BY <3>3, <3>4, <3>5, <3>6, <3>7 DEF CalmNow
    <2> QED BY <1>1, <1>4, <1>5, <2>7, OutOfTurn
<1> QED BY <1>6, <1>7, EndTurnIs

\* Command c moves, nothing else is under way, and it has no agent.
LEMMA AloneIsCalm ==
    ASSUME NEW c \in Commands, \A d \in Commands : d # c => commands'[d] = Idle,
           commands'[c].kind # "send", UpToDate', AllLive', ReadLatest(c)'
    PROVE  CalmNow' /\ OneTurnAChat'
<1>1. \A d \in Commands : d # c => /\ commands'[d].at = "idle" /\ commands'[d].kind = ""
    BY AgentBasics
<1>2. RailAlone'
    BY <1>1 DEF RailAlone, AtTheRail
<1>3. OneTurnAChat'
    BY <1>1 DEF OneTurnAChat, WithChat
<1>4. ASSUME NEW d \in Commands PROVE HasIndexed(d)' /\ ReadLatest(d)'
    <2>1. HasIndexed(d)'
        BY <1>1 DEF HasIndexed, SendsWith
    <2>2. ReadLatest(d)'
        <3>1. CASE d = c
            BY <3>1
        <3>2. CASE d # c
            BY <1>1, <3>2 DEF ReadLatest
        <3> QED BY <3>1, <3>2
    <2> QED BY <2>1, <2>2
<1> QED BY <1>2, <1>3, <1>4 DEF CalmNow

\* The same, when the index and the chats stay, save for which is open.
LEMMA AloneAsItIs ==
    ASSUME CalmNow, NEW c \in Commands, \A d \in Commands : d # c => commands[d] = Idle,
           Others(c), commands'[c].kind # "send",
           UNCHANGED << entry, live, log >>, focus' \in live \cup {New},
           \A p \in Targets, s \in Slots : entry[p].slot = s => agent'[s].resume = agent[s].resume,
           commands[c].at # "forgetting", commands'[c].at # "forgetting",
           commands'[c].aim \in live \cup {New}, ReadLatest(c)'
    PROVE  CalmNow' /\ OneTurnAChat'
<1>1. \A d \in Commands : d # c => commands'[d] = Idle /\ commands[d].at = "idle" /\ Idle.aim = New
    BY AgentBasics DEF Others
<1>2. UpToDate'
    BY DEF CalmNow, UpToDate, Latest
<1>3. AllLive'
    <2>1. \A d \in Commands : commands'[d].at # "forgetting" => commands'[d].aim \in live \cup {New}
        BY <1>1
    <2>2. \A i \in Ids : entry[i].slot # 0 => i \in live
        BY <1>1 DEF CalmNow, AllLive
    <2> QED BY <2>1, <2>2 DEF AllLive
<1> QED BY <1>1, <1>2, <1>3, AloneIsCalm

\* What a command of the rail or the list finds: nothing else is under way.
LEMMA AloneThere ==
    ASSUME CalmNow, NEW c \in Commands, commands[c].at \in AtTheRail
    PROVE  \A d \in Commands : d # c => commands[d] = Idle
BY DEF CalmNow, RailAlone

LEMMA NothingLocked ==
    ASSUME NEW c \in Commands, commands[c].at \notin WithAgent \cup {"waiting"},
           \A d \in Commands : d # c => commands[d] = Idle
    PROVE  \A s \in Slots : ~Locked(s)
<1>1. \A d \in Commands : commands[d].at \notin WithAgent \cup {"waiting"}
    BY AgentBasics DEF WithAgent
<1> QED BY <1>1 DEF Locked, LockedIn

LEMMA RailStarts ==
    ASSUME AgentsInv, CalmInv, NEW c \in Commands, ReadOpen(c) \/ OpenNew(c)
    PROVE  CalmInv'
<1> DEFINE r == IF focus = New THEN None ELSE log[focus]
<1>1. /\ AgentsTyped /\ commands[c] = Idle /\ UNCHANGED << use, live, log, entry, agent >>
      /\ focus \in Targets
    BY DEF AgentsInv, AgentsTyped, ReadOpen, OpenNew, chats
<1>2. PICK z \in AgentCommand : z = Idle
    BY AgentBasics
<1>3. z.at = "idle" /\ z.kind = "" /\ z.aim = New /\ z.read = None /\ z.slot = 0
    BY <1>2 DEF Idle
<1>4. r \in Talks /\ r = Latest(focus)
    BY <1>1, AgentBasics DEF AgentsTyped, Targets, Latest
<1>5. PICK x \in AgentCommand :
          /\ commands' = [commands EXCEPT ![c] = x] /\ x.kind = "" /\ x.aim = New
          /\ x.at \in {"connecting", "adopting"} /\ x.read = Latest(focus)'
          /\ focus' \in {focus, New}
    <2>1. CASE ReadOpen(c)
        <3> HIDE DEF r
        <3> DEFINE y == [z EXCEPT !.at = "connecting", !.read = r]
        <3>1. y \in AgentCommand /\ y.at = "connecting" /\ y.read = r /\ y.kind = "" /\ y.aim = New
            BY <1>3, <1>4 DEF AgentCommand, Stages
        <3>2. commands' = [commands EXCEPT ![c] = y] /\ focus' = focus
            BY <1>2, <2>1 DEF ReadOpen, chats, r
        <3>3. Latest(focus)' = Latest(focus)
            BY <1>1, <3>2 DEF Latest
        <3> HIDE DEF y
        <3> QED BY <1>4, <3>1, <3>2, <3>3
    <2>2. CASE OpenNew(c)
        <3> DEFINE y == [z EXCEPT !.at = "adopting"]
        <3>1. y \in AgentCommand /\ y.at = "adopting" /\ y.read = None /\ y.kind = "" /\ y.aim = New
            BY <1>3 DEF AgentCommand, Stages
        <3>2. commands' = [commands EXCEPT ![c] = y] /\ focus' = New
            BY <1>2, <2>2 DEF OpenNew
        <3>3. Latest(focus)' = None
            BY <3>2 DEF Latest
        <3> HIDE DEF y
        <3> QED BY <3>1, <3>2, <3>3
    <2> QED BY <2>1, <2>2
<1>6. commands'[c] = x /\ Others(c)
    BY <1>1, <1>5, CommandBecomes
<1>7. x.at \notin WithChat /\ x.at # "forgetting" /\ Idle.at # "forgetting"
    BY <1>5, AgentBasics DEF WithChat
<1>8. ASSUME "calm" \in use PROVE CalmNow'
    <2>1. CalmNow /\ \A d \in Commands : commands[d] = Idle
        BY <1>8, CalmIs DEF ReadOpen, OpenNew
    <2>2. ReadLatest(c)'
        BY <1>5, <1>6 DEF ReadLatest
    <2>3. focus' \in live \cup {New}
        BY <1>5, <2>1 DEF CalmNow, AllLive
    <2> QED BY <1>1, <1>5, <1>6, <1>7, <2>1, <2>2, <2>3, AloneAsItIs
<1> QED BY <1>1, <1>6, <1>7, <1>8, OutOfTurn

LEMMA OpenChatCalm ==
    ASSUME AgentsInv, CalmInv, NEW c \in Commands, NEW i \in Ids, OpenChat(c, i)
    PROVE  CalmInv'
<1>1. /\ AgentsTyped /\ commands[c] = Idle /\ UNCHANGED << use, live, log, entry, agent >>
      /\ i \in live /\ focus' = i /\ i \in Targets
    BY AgentBasics DEF AgentsInv, OpenChat
<1>2. PICK z \in AgentCommand : z = Idle
    BY AgentBasics
<1> DEFINE x == [z EXCEPT !.at = "opened", !.aim = i]
<1>3. x \in AgentCommand /\ x.at = "opened" /\ x.aim = i /\ x.kind = ""
    <2>1. z.kind = ""
        BY <1>2, AgentBasics
    <2> QED BY <1>1, <2>1 DEF AgentCommand, Stages
<1>4. commands' = [commands EXCEPT ![c] = x]
    BY <1>2 DEF OpenChat
<1> HIDE DEF x
<1>5. commands'[c] = x /\ Others(c)
    BY <1>1, <1>3, <1>4, CommandBecomes
<1>6. x.at \notin WithChat /\ Idle.at # "forgetting"
    BY <1>3, AgentBasics DEF WithChat
<1>7. ASSUME "calm" \in use PROVE CalmNow'
    <2>1. CalmNow /\ \A d \in Commands : commands[d] = Idle
        BY <1>7, CalmIs DEF OpenChat
    <2>2. ReadLatest(c)'
        BY <1>3, <1>5 DEF ReadLatest
    <2> QED BY <1>1, <1>3, <1>5, <1>6, <2>1, <2>2, AloneAsItIs
<1> QED BY <1>1, <1>5, <1>6, <1>7, OutOfTurn

LEMMA RailGoesOn ==
    ASSUME AgentsInv, CalmInv, NEW c \in Commands,
           AskWindow(c) \/ ReadWindow(c) \/ ReadOpened(c)
    PROVE  CalmInv'
<1>1. /\ AgentsTyped /\ WellAt(c) /\ ReadOwn(c) /\ commands[c] \in AgentCommand
      /\ log \in [Ids -> Talks] /\ focus \in Targets
      /\ UNCHANGED << use, focus, live, log, entry, agent >>
      /\ commands[c].at \in {"connecting", "windowed", "opened"}
    BY DEF AgentsInv, AgentsTyped, AskWindow, ReadWindow, ReadOpened, Step, chats
<1>2. commands[c].kind # "send" /\ commands[c].read \in Talks /\ commands[c].at \in AtTheRail
    BY <1>1 DEF WellAt, HasAgent, WithAgent, AgentCommand, AtTheRail
<1>3. "windowed" \in Stages /\ "built" \in Stages /\ "adopting" \in Stages
    BY DEF Stages
<1>4. /\ Others(c) /\ commands'[c].at \in {"windowed", "built", "adopting"}
      /\ commands'[c].kind = commands[c].kind /\ commands'[c].aim \in {commands[c].aim, focus}
      /\ \/ commands[c].at # "opened" /\ commands'[c].read = commands[c].read
         \/ commands'[c].read = Latest(focus)
    <2>1. CASE AskWindow(c)
        <3>1. commands' = AtAiming(c, "windowed", focus)
            BY <2>1 DEF AskWindow, AtAiming
        <3>2. commands[c].at # "opened"
            BY <2>1 DEF AskWindow
        <3> QED BY <1>1, <1>3, <3>1, <3>2, MovedAiming DEF Others
    <2>2. CASE ReadWindow(c)
        <3>1. commands' = Moved(c, "built") /\ commands[c].at # "opened"
            BY <2>2 DEF ReadWindow, Step
        <3> QED BY <1>1, <1>3, <3>1, MovedIs DEF Others
    <2>3. CASE ReadOpened(c)
        <3>1. commands' = AtReading(c, "adopting", log[commands[c].aim]) /\ commands[c].at = "opened"
            BY <2>3 DEF ReadOpened, AtReading
        <3>2. commands[c].aim = focus /\ focus \in Ids /\ focus # New
            <4>1. commands[c].aim = focus /\ focus \in Ids
                BY <1>1, <3>1 DEF ReadOwn
            <4> QED BY <4>1, AgentBasics
        <3>3. log[commands[c].aim] \in Talks /\ log[commands[c].aim] = Latest(focus)
            BY <1>1, <3>2 DEF Latest
        <3> QED BY <1>1, <1>3, <3>1, <3>3, MovedReading DEF Others
    <2> QED BY <2>1, <2>2, <2>3
<1>5. commands'[c].at \notin WithChat
    BY <1>4 DEF WithChat
<1>6. ASSUME "calm" \in use PROVE CalmNow'
    <2>1. CalmNow /\ ReadLatest(c)
        BY <1>6, CalmIs DEF CalmNow
    <2>2. \A d \in Commands : d # c => commands[d] = Idle
        BY <1>2, <2>1, AloneThere
    <2>3. commands'[c].read = Latest(focus)
        BY <1>1, <1>4, <2>1 DEF ReadLatest
    <2>4. ReadLatest(c)'
        BY <1>1, <1>4, <2>3 DEF ReadLatest, Latest
    <2>5. focus \in live \cup {New} /\ commands[c].aim \in live \cup {New}
        BY <1>1, <2>1 DEF CalmNow, AllLive
    <2> QED BY <1>1, <1>2, <1>4, <2>1, <2>2, <2>4, <2>5, AloneAsItIs
<1> QED BY <1>1, <1>4, <1>5, <1>6, OutOfTurn

\* A command of the rail is done, and what the index has resumes what it did.
LEMMA RailEnds ==
    ASSUME AgentsInv, CalmInv, NEW c \in Commands, GiveUp(c) \/ Adopt(c)
    PROVE  CalmInv'
<1> DEFINE s == entry[focus].slot
           r == commands[c].read
<1>1. /\ AgentsTyped /\ agent \in [Slots -> Agent] /\ entry \in [Targets -> Entry]
      /\ focus \in Targets /\ commands[c] \in AgentCommand
      /\ UNCHANGED << use, focus, live, log >>
      /\ commands[c].at \in {"connecting", "windowed", "adopting"}
    BY DEF AgentsInv, AgentsTyped, GiveUp, Adopt, chats
<1>2. commands' = Done(c) /\ entry' = entry
    BY DEF GiveUp, Adopt, Become
<1>3. Others(c) /\ commands'[c] = Idle
    BY <1>1, <1>2, DoneIsIdle DEF Others
<1>4. Idle.at \notin WithChat
    BY AgentBasics DEF WithChat
<1>5. ASSUME "calm" \in use PROVE CalmNow'
    <2>1. CalmNow /\ ReadLatest(c)
        BY <1>5, CalmIs DEF CalmNow
    <2>2. \A q \in Targets, t \in Slots : entry[q].slot = t => agent'[t].resume = agent[t].resume
        <3>1. CASE GiveUp(c)
            BY <3>1 DEF GiveUp
        <3>2. CASE Adopt(c) /\ ~(s # 0 /\ ~Locked(s))
            <4>1. Become(entry, agent, Done(c))
                BY <3>2 DEF Adopt
            <4> QED BY <1>1, <4>1, BecomeResumes
        <3>3. CASE Adopt(c) /\ s # 0 /\ ~Locked(s)
            <4>1. s \in Slots /\ r \in Talks
                BY <1>1, <3>3 DEF Entry, AgentCommand
            <4>2. r = agent[s].resume
                <5>1. r = Latest(focus)
                    BY <2>1, <3>3 DEF ReadLatest, Adopt
                <5>2. agent[s].resume = Latest(focus)
                    BY <1>1, <2>1, <4>1 DEF CalmNow, UpToDate
                <5> QED BY <5>1, <5>2
            <4>3. Become(entry, [agent EXCEPT ![s].resume = r], Done(c))
                BY <3>3 DEF Adopt
            <4>4. [agent EXCEPT ![s].resume = r] = agent
                <5>1. PICK x \in Agent : x = agent[s]
                    BY <1>1, <4>1
                <5>2. [x EXCEPT !.resume = x.resume] = x
                    BY DEF Agent
                <5> QED BY <1>1, <4>1, <4>2, <5>1, <5>2
            <4> QED BY <1>1, <4>3, <4>4, BecomeResumes
        <3> QED BY <3>1, <3>2, <3>3
    <2> QED BY <1>1, <1>2, <1>3, <2>1, <2>2, IdleIsCalm
<1> QED BY <1>1, <1>3, <1>4, <1>5, OutOfTurn

LEMMA ConnectCalm ==
    ASSUME AgentsInv, CalmInv, NEW c \in Commands, Connect(c)
    PROVE  CalmInv'
<1> DEFINE u == Unused
           r == commands[c].read
           b == [Outdated EXCEPT ![focus] = [slot |-> u, current |-> TRUE]]
           a == [agent EXCEPT ![u] = NewAgent(r)]
<1>1. /\ AgentsTyped /\ WellAt(c) /\ agent \in [Slots -> Agent] /\ focus \in Targets
      /\ entry \in [Targets -> Entry] /\ commands[c] \in AgentCommand
      /\ commands[c].at = "built" /\ UNCHANGED << use, focus, live, log >>
    BY DEF AgentsInv, AgentsTyped, Connect, chats
<1>2. commands[c].slot = 0 /\ r \in Talks /\ commands[c].at \in AtTheRail
    BY <1>1 DEF WellAt, HasAgent, WithAgent, AgentCommand, AtTheRail
<1>3. commands' = Done(c)
    BY DEF Connect, Become
<1>4. Others(c) /\ commands'[c] = Idle
    BY <1>1, <1>3, DoneIsIdle DEF Others
<1>5. Idle.at \notin WithChat /\ Idle.at = "idle" /\ Idle.kind = "" /\ Idle.aim = New
    BY AgentBasics DEF WithChat
<1>6. ASSUME "calm" \in use PROVE CalmNow'
    <2>1. CalmNow /\ ReadLatest(c)
        BY <1>6, CalmIs DEF CalmNow
    <2>2. \A d \in Commands : d # c => commands[d] = Idle
        BY <1>2, <2>1, AloneThere
    <2>3. \A s \in Slots : ~Locked(s)
        BY <1>1, <2>2, NothingLocked DEF WithAgent
    <2>4. ~(entry[focus] # NoEntry /\ Locked(entry[focus].slot))
        BY <1>1, <2>1, <2>3, UsableIs
    <2>5. Become(Prune(b), a, Done(c))
        BY <2>4 DEF Connect
    <2>6. u \in Slots /\ u # 0
        <3>1. u \in Slots
            BY <1>1, <1>2, UnusedIs
        <3> QED BY <3>1, AgentBasics
    <2> HIDE DEF u
    <2>7. b[focus].slot = u /\ b[focus].current /\ \A q \in Targets : q # focus => ~b[q].current
        <3>1. Outdated \in [Targets -> Entry] /\ \A q \in Targets : ~Outdated[q].current
            BY <1>1, OutdatedIs DEF Outdated, Entry
        <3> QED BY <1>1, <3>1
    <2>8. b \in [Targets -> Entry]
        <3>1. [slot |-> u, current |-> TRUE] \in Entry
            BY <2>6 DEF Entry
        <3> QED BY <1>1, <3>1, OutdatedIs
    <2> HIDE DEF b
    <2>9. /\ Prune(b)[focus].slot = u /\ Prune(b)[focus].current
          /\ \A q \in Targets : q # focus => Prune(b)[q] = NoEntry
        <3>1. Prune(b)[focus] = b[focus]
            BY <1>1, <2>6, <2>7 DEF Prune
        <3>2. ASSUME NEW q \in Targets, q # focus PROVE Prune(b)[q] = NoEntry
            <4>1. b[q].slot \in Slots \cup {0}
                BY <2>8 DEF Entry
            <4> QED BY <2>3, <2>7, <3>2, <4>1 DEF Prune
        <3> QED BY <2>7, <3>1, <3>2
    <2>10. a \in [Slots -> Agent] /\ a[u].resume = r
        <3>1. NewAgent(r) \in Agent /\ NewAgent(r).resume = r
            BY <1>2, AgentBasics
        <3> HIDE DEF r
        <3> QED BY <1>1, <2>6, <3>1
    <2> HIDE DEF a
    <2>11. /\ entry' = Prune(b)
           /\ \A s \in Slots : agent'[s] = IF Used(s)' THEN a[s] ELSE NewAgent(None)
        BY <2>5, <2>10, BecomeIs
    <2>12. UpToDate'
        <3> SUFFICES ASSUME NEW q \in Targets, NEW s \in Slots, entry'[q].slot = s
                     PROVE  entry'[q].current /\ agent'[s].resume = Latest(q)
            BY <1>1 DEF UpToDate, Latest
        <3>1. q = focus
            BY <2>9, <2>11, AgentBasics
        <3>2. s = u
            BY <2>9, <2>11, <3>1
        <3>3. agent'[u] = a[u]
            BY <2>6, <2>11, <3>2 DEF Used
        <3>4. r = Latest(focus)
            BY <1>1, <2>1 DEF ReadLatest
        <3> QED BY <2>9, <2>10, <2>11, <3>1, <3>2, <3>3, <3>4
    <2>13. AllLive'
        <3>1. ASSUME NEW d \in Commands PROVE commands'[d].aim = New
            BY <1>4, <1>5, <2>2 DEF Others
        <3>2. ASSUME NEW i \in Ids, entry'[i].slot # 0 PROVE i \in live
            <4>1. i \in Targets /\ i # New
                BY AgentBasics
            <4>2. i = focus
                BY <2>9, <2>11, <3>2, <4>1, AgentBasics
            <4> QED BY <2>1, <4>1, <4>2 DEF CalmNow, AllLive
        <3> QED BY <1>1, <2>1, <3>1, <3>2 DEF CalmNow, AllLive
    <2>14. ReadLatest(c)' /\ commands'[c].kind # "send"
        BY <1>4, <1>5 DEF ReadLatest
    <2>15. \A d \in Commands : d # c => commands'[d] = Idle
        BY <1>4, <2>2 DEF Others
    <2> QED BY <2>12, <2>13, <2>14, <2>15, AloneIsCalm
<1> QED BY <1>1, <1>4, <1>5, <1>6, OutOfTurn

LEMMA DisconnectCalm ==
    ASSUME AgentsInv, CalmInv, Disconnect
    PROVE  CalmInv'
<1>1. /\ agent \in [Slots -> Agent] /\ entry \in [Targets -> Entry]
      /\ Become(Prune(Outdated), agent, commands)
      /\ UNCHANGED << use, focus, live, log >>
    BY DEF AgentsInv, AgentsTyped, Disconnect, chats
<1>2. commands' = commands /\ entry' = Prune(Outdated)
    BY <1>1 DEF Become
<1>3. OneTurnAChat'
    BY <1>2 DEF CalmInv, OneTurnAChat
<1>4. ASSUME "calm" \in use PROVE CalmNow'
    <2>1. CalmNow /\ \A d \in Commands : commands[d] = Idle
        BY <1>4, CalmIs DEF Disconnect
    <2>2. \A d \in Commands : commands'[d].at = "idle" /\ commands'[d].kind = "" /\ commands'[d].aim = New
        BY <1>2, <2>1, AgentBasics
    <2>3. \A s : ~Locked(s)
        BY <1>2, <2>2 DEF Locked, LockedIn, WithAgent
    <2>4. \A q \in Targets : entry'[q] = NoEntry /\ entry'[q].slot = 0
        <3>1. \A q \in Targets : ~Outdated[q].current
            BY <1>1 DEF Outdated, Entry
        <3>2. \A q \in Targets : entry'[q] = NoEntry
            BY <1>2, <2>3, <3>1 DEF Prune
        <3> QED BY <3>2, AgentBasics
    <2>5. UpToDate'
        BY <2>4, AgentBasics DEF UpToDate
    <2>6. AllLive'
        <3>1. \A i \in Ids : entry'[i].slot = 0
            BY <2>4, AgentBasics
        <3> QED BY <1>1, <2>1, <2>2, <3>1 DEF CalmNow, AllLive
    <2>7. RailAlone' /\ \A d \in Commands : HasIndexed(d)' /\ ReadLatest(d)'
        BY <2>2 DEF RailAlone, AtTheRail, HasIndexed, SendsWith, ReadLatest
    <2> QED BY <2>5, <2>6, <2>7 DEF CalmNow
<1> QED BY <1>1, <1>3, <1>4 DEF CalmInv

LEMMA DeleteCalm ==
    ASSUME AgentsInv, CalmInv, NEW c \in Commands, NEW i \in Ids, Delete(c, i)
    PROVE  CalmInv'
<1>1. /\ AgentsTyped /\ commands[c] = Idle /\ UNCHANGED << use, log, entry, agent >>
      /\ i \in live /\ i \in Targets /\ i # New
      /\ live' = live \ {i} /\ focus' = IF focus = i THEN New ELSE focus
    BY AgentBasics DEF AgentsInv, Delete
<1>2. PICK z \in AgentCommand : z = Idle
    BY AgentBasics
<1> DEFINE k == IF focus = i THEN "open" ELSE ""
           x == [z EXCEPT !.at = "forgetting", !.aim = i, !.kind = k]
<1>3. x \in AgentCommand /\ x.at = "forgetting" /\ x.aim = i /\ x.kind = k /\ k \in {"", "open"}
    <2>1. k \in {"", "open"}
        OBVIOUS
    <2> HIDE DEF k
    <2> QED BY <1>1, <2>1 DEF AgentCommand, Stages
<1>4. commands' = [commands EXCEPT ![c] = x]
    BY <1>2 DEF Delete
<1> HIDE DEF x
<1>5. commands'[c] = x /\ Others(c)
    BY <1>1, <1>3, <1>4, CommandBecomes
<1>6. x.at \notin WithChat /\ Idle.at # "forgetting" /\ Idle.aim = New
    BY <1>3, AgentBasics DEF WithChat
<1>7. ASSUME "calm" \in use PROVE CalmNow'
    <2>1. CalmNow /\ \A d \in Commands : commands[d] = Idle
        BY <1>7, CalmIs DEF Delete
    <2>2. UpToDate'
        BY <1>1, <2>1 DEF CalmNow, UpToDate, Latest
    <2>3. AllLive'
        <3>1. focus' \in live' \cup {New}
            BY <1>1, <2>1 DEF CalmNow, AllLive
        <3>2. \A d \in Commands : commands'[d].at # "forgetting" => commands'[d].aim \in live' \cup {New}
            BY <1>3, <1>5, <1>6, <2>1 DEF Others
        <3>3. \A j \in Ids : entry'[j].slot # 0 => j \in live' \/ j = i
            BY <1>1, <1>6, <2>1 DEF CalmNow, AllLive
        <3>4. commands'[c].at = "forgetting" /\ commands'[c].aim = i
            BY <1>3, <1>5
        <3> QED BY <3>1, <3>2, <3>3, <3>4 DEF AllLive
    <2>4. ReadLatest(c)' /\ commands'[c].kind # "send"
        BY <1>1, <1>3, <1>5 DEF ReadLatest
    <2>5. \A d \in Commands : d # c => commands'[d] = Idle
        BY <1>5, <2>1 DEF Others
    <2> QED BY <2>2, <2>3, <2>4, <2>5, AloneIsCalm
<1> QED BY <1>1, <1>5, <1>6, <1>7, OutOfTurn

LEMMA ForgetCalm ==
    ASSUME AgentsInv, CalmInv, NEW c \in Commands, ForgetAgent(c)
    PROVE  CalmInv'
<1> DEFINE i == commands[c].aim
           e == [entry EXCEPT ![i] = NoEntry]
<1>1. /\ AgentsTyped /\ agent \in [Slots -> Agent] /\ entry \in [Targets -> Entry]
      /\ commands[c] \in AgentCommand /\ commands[c].at = "forgetting" /\ i \in Targets
      /\ UNCHANGED << use, focus, live, log >>
    BY DEF AgentsInv, AgentsTyped, AgentCommand, ForgetAgent, chats
<1>2. PICK z \in AgentCommand : z = Idle
    BY AgentBasics
<1>3. z.at = "idle" /\ z.kind = "" /\ z.aim = New /\ z.read = None
    BY <1>2 DEF Idle
<1>4. PICK x \in AgentCommand :
          /\ Become(e, agent, [commands EXCEPT ![c] = x])
          /\ x.at \in {"idle", "adopting"} /\ x.kind = "" /\ x.aim = New
          /\ x.at = "adopting" => commands[c].kind = "open" /\ x.read = None
    <2>1. CASE commands[c].kind = "open"
        <3> DEFINE y == [z EXCEPT !.at = "adopting"]
        <3>1. y \in AgentCommand /\ y.at = "adopting" /\ y.read = None /\ y.kind = "" /\ y.aim = New
            BY <1>3 DEF AgentCommand, Stages
        <3>2. Become(e, agent, [commands EXCEPT ![c] = y])
            BY <1>2, <2>1 DEF ForgetAgent
        <3> HIDE DEF y, e
        <3> QED BY <2>1, <3>1, <3>2
    <2>2. CASE commands[c].kind # "open"
        <3>1. Become(e, agent, [commands EXCEPT ![c] = z])
            BY <1>2, <2>2 DEF ForgetAgent, Done
        <3> HIDE DEF e
        <3> QED BY <1>3, <3>1
    <2> QED BY <2>1, <2>2
<1>5. e[i].slot = 0 /\ \A q \in Targets : q # i => e[q] = entry[q]
    BY <1>1, AgentBasics
<1> HIDE DEF e
<1>6. /\ entry' = e /\ commands' = [commands EXCEPT ![c] = x]
      /\ \A s \in Slots : agent'[s] = IF Used(s)' THEN agent[s] ELSE NewAgent(None)
    BY <1>1, <1>4, BecomeIs
<1>7. commands'[c] = x /\ Others(c)
    BY <1>1, <1>6, CommandBecomes
<1>8. x.at \notin WithChat /\ commands[c].at \in AtTheRail /\ Idle.aim = New /\ Idle.at = "idle"
    BY <1>1, <1>4, AgentBasics DEF WithChat, AtTheRail
<1>9. ASSUME "calm" \in use PROVE CalmNow'
    <2>1. CalmNow /\ ReadLatest(c)
        BY <1>9, CalmIs DEF CalmNow
    <2>2. \A d \in Commands : d # c => commands[d] = Idle
        BY <1>8, <2>1, AloneThere
    <2>3. UpToDate'
        <3> SUFFICES ASSUME NEW q \in Targets, NEW s \in Slots, entry'[q].slot = s
                     PROVE  entry'[q].current /\ agent'[s].resume = Latest(q)
            BY <1>1 DEF UpToDate, Latest
        <3>1. agent'[s] = agent[s] /\ s # 0
            BY <1>6, AgentBasics DEF Used
        <3>2. q # i
            BY <1>5, <1>6, <3>1
        <3>3. entry'[q] = entry[q]
            BY <1>5, <1>6, <3>2
        <3> QED BY <2>1, <3>1, <3>3 DEF CalmNow, UpToDate
    <2>4. AllLive'
        <3>1. \A d \in Commands : commands'[d].aim = New
            BY <1>4, <1>7, <1>8, <2>2 DEF Others
        <3>2. ASSUME NEW j \in Ids, entry'[j].slot # 0 PROVE j \in live
            <4>1. j \in Targets /\ j # i
                BY <1>5, <1>6, <3>2, AgentBasics
            <4>2. entry[j].slot # 0
                BY <1>5, <1>6, <3>2, <4>1
            <4> QED BY <1>8, <2>1, <2>2, <4>1, <4>2 DEF CalmNow, AllLive
        <3> QED BY <1>1, <2>1, <3>1, <3>2 DEF CalmNow, AllLive
    <2>5. ReadLatest(c)' /\ commands'[c].kind # "send"
        BY <1>1, <1>4, <1>7, <2>1 DEF ReadLatest, Latest
    <2>6. \A d \in Commands : d # c => commands'[d] = Idle
        BY <1>7, <2>2 DEF Others
    <2> QED BY <2>3, <2>4, <2>5, <2>6, AloneIsCalm
<1> QED BY <1>1, <1>7, <1>8, <1>9, OutOfTurn

\* Neither the commands nor the index nor the chats move.
LEMMA SameIsCalm ==
    ASSUME CalmInv, UNCHANGED << use, chats, entry, commands >>,
           \A s \in Slots : agent'[s].resume = agent[s].resume
    PROVE  CalmInv'
<1>1. UNCHANGED << use, focus, live, log, entry, commands >>
    BY DEF chats
<1>2. OneTurnAChat'
    BY <1>1 DEF CalmInv, OneTurnAChat
<1>3. ASSUME CalmNow PROVE CalmNow'
    <2>1. RailAlone' /\ UpToDate' /\ AllLive'
        BY <1>1, <1>3 DEF CalmNow, RailAlone, UpToDate, AllLive, Latest
    <2>2. ASSUME NEW d \in Commands PROVE HasIndexed(d)' /\ ReadLatest(d)'
        <3>1. HasIndexed(d) /\ ReadLatest(d)
            BY <1>3 DEF CalmNow
        <3> QED BY <1>1, <3>1 DEF HasIndexed, SendsWith, ReadLatest, Latest
    <2> QED BY <2>1, <2>2 DEF CalmNow
<1> QED BY <1>1, <1>2, <1>3 DEF CalmInv

LEMMA TimerCalm ==
    ASSUME AgentsInv, CalmInv, NEW t \in Slots, NEW n \in 1..MaxFills, TimerFires(t, n)
    PROVE  CalmInv'
<1>1. agent \in [Slots -> Agent] /\ UNCHANGED << use, chats, entry, commands >>
    BY DEF AgentsInv, AgentsTyped, TimerFires
<1>2. PICK x \in Agent : x = agent[t]
    BY <1>1
<1> DEFINE w == IF x.warm.n = n THEN NoWarm ELSE x.warm
           y == [x EXCEPT !.timers = @ \ {n}, !.warm = w]
<1>3. y.resume = x.resume
    BY DEF Agent
<1>4. agent' = [agent EXCEPT ![t] = y]
    BY <1>1, <1>2 DEF TimerFires
<1> HIDE DEF y
<1>5. \A s \in Slots : agent'[s].resume = agent[s].resume
    BY <1>1, <1>2, <1>3, <1>4
<1> QED BY <1>1, <1>5, SameIsCalm

LEMMA CalmAtFirst ==
    ASSUME AgentsInit
    PROVE  CalmInv
<1>1. /\ focus = New /\ commands = [c \in Commands |-> Idle]
      /\ entry = [p \in Targets |-> NoEntry]
    BY DEF AgentsInit
<1>2. \A c \in Commands : commands[c].at = "idle" /\ commands[c].kind = "" /\ commands[c].aim = New
    BY <1>1, AgentBasics
<1>3. \A p \in Targets : entry[p].slot = 0
    BY <1>1, AgentBasics
<1>4. OneTurnAChat /\ RailAlone
    BY <1>2 DEF OneTurnAChat, WithChat, RailAlone, AtTheRail
<1>5. UpToDate
    BY <1>3, AgentBasics DEF UpToDate
<1>6. AllLive
    <2>1. Ids \subseteq Targets
        BY AgentBasics
    <2> QED BY <1>1, <1>2, <1>3, <2>1 DEF AllLive
<1>7. \A c \in Commands : HasIndexed(c) /\ ReadLatest(c)
    BY <1>2 DEF HasIndexed, SendsWith, ReadLatest
<1> QED BY <1>4, <1>5, <1>6, <1>7 DEF CalmInv, CalmNow

LEMMA CalmStays ==
    ASSUME AgentsInv, CalmInv, [AgentsNext]_agentVars
    PROVE  CalmInv'
<1>1. ASSUME NEW c \in Commands,
             \/ Send(c) \/ Prewarm(c) \/ ReadResume(c) \/ Make(c) \/ LockAgent(c) \/ GetAgent(c)
             \/ \E i \in Ids : SendBehind(c, i) \/ ChooseChat(c, i) \/ OpenChat(c, i) \/ Delete(c, i)
             \/ LockChat(c) \/ AdoptNew(c) \/ Fill(c)
      PROVE  CalmInv'
    <2>1. CASE Send(c) \/ Prewarm(c) \/ \E i \in Ids : SendBehind(c, i)
        BY <2>1, FindsCalm
    <2>2. CASE ReadResume(c)
        BY <2>2, ReadResumeCalm
    <2>3. CASE Make(c)
        BY <2>3, MakeCalm
    <2>4. CASE LockAgent(c) \/ GetAgent(c) \/ LockChat(c)
        BY <2>4, GetsCalm
    <2>5. CASE \E i \in Ids : ChooseChat(c, i)
        BY <2>5, ChooseCalm
    <2>6. CASE \E i \in Ids : OpenChat(c, i)
        BY <2>6, OpenChatCalm
    <2>7. CASE \E i \in Ids : Delete(c, i)
        BY <2>7, DeleteCalm
    <2>8. CASE AdoptNew(c)
        BY <2>8, AdoptNewCalm
    <2>9. CASE Fill(c)
        BY <2>9, FillCalm
    <2> QED BY <1>1, <2>1, <2>2, <2>3, <2>4, <2>5, <2>6, <2>7, <2>8, <2>9
<1>2. ASSUME NEW c \in Commands,
             \/ \E plain \in BOOLEAN : TakeProcess(c, plain)
             \/ \E began \in BOOLEAN : EndTurn(c, began)
             \/ ReadOpen(c) \/ AskWindow(c) \/ ReadWindow(c) \/ GiveUp(c) \/ Connect(c)
             \/ ReadOpened(c) \/ OpenNew(c) \/ Adopt(c) \/ ForgetAgent(c)
      PROVE  CalmInv'
    <2>1. CASE \E plain \in BOOLEAN : TakeProcess(c, plain)
        BY <2>1, TakeCalm
    <2>2. CASE \E began \in BOOLEAN : EndTurn(c, began)
        BY <2>2, EndTurnCalm
    <2>3. CASE ReadOpen(c) \/ OpenNew(c)
        BY <2>3, RailStarts
    <2>4. CASE AskWindow(c) \/ ReadWindow(c) \/ ReadOpened(c)
        BY <2>4, RailGoesOn
    <2>5. CASE GiveUp(c) \/ Adopt(c)
        BY <2>5, RailEnds
    <2>6. CASE Connect(c)
        BY <2>6, ConnectCalm
    <2>7. CASE ForgetAgent(c)
        BY <2>7, ForgetCalm
    <2> QED BY <1>2, <2>1, <2>2, <2>3, <2>4, <2>5, <2>6, <2>7
<1>3. CASE Disconnect
    BY <1>3, DisconnectCalm
<1>4. CASE \E s \in Slots, n \in 1..MaxFills : TimerFires(s, n)
    BY <1>4, TimerCalm
<1>5. CASE UNCHANGED agentVars
    <2>1. UNCHANGED << use, chats, entry, commands >> /\ agent' = agent
        BY <1>5 DEF agentVars, chats
    <2> QED BY <2>1, SameIsCalm
<1> QED BY <1>1, <1>2, <1>3, <1>4, <1>5 DEF AgentsNext

(***************************************************************************)
(* When nothing of the rail or the list overlaps a turn, a turn continues  *)
(* the conversation its chat's log last recorded: no switch, reconnect or  *)
(* rebuild of the agent makes the model forget the chat (agents.rs;        *)
(* CalmlyResumesTheLogs).                                                  *)
(***************************************************************************)
THEOREM CalmTurnsResumeTheLogs ==
    ASSUME \A s \in Uses : "careful" \in s
    PROVE  AgentsSpec => []CalmlyResumesTheLogs
<1>1. UsedWithCare
    BY DEF UsedWithCare
<1>2. AgentsInit => AgentsInv /\ CalmInv
    BY AgentsInitInv, CalmAtFirst
<1>3. AgentsInv /\ CalmInv /\ [AgentsNext]_agentVars => AgentsInv' /\ CalmInv'
    BY <1>1, AgentsStep, CalmStays
<1>4. CalmInv => CalmlyResumesTheLogs
    BY DEF CalmInv, CalmNow, ReadLatest, CalmlyResumesTheLogs, ResumesTheLogs
<1> QED BY <1>2, <1>3, <1>4, PTL DEF AgentsSpec

-----------------------------------------------------------------------------
(* The always-loaded file.                                                 *)

\* What the turn proposed so far was written against what it was shown, and
\* from the moment the turn's proposal is looked at to the replacement the
\* file is the text it was written against; a copy of it comes first.
DraftStands ==
    /\ draft.at = "turn" => \A y \in pending \ draft.before : y.quoted = draft.quoted
    /\ draft.at = "copies" => file = draft.x.quoted
    /\ draft.at \in {"replaces", "records"} =>
          /\ draft = [at |-> draft.at, x |-> draft.x, before |-> draft.before]
          /\ draft.before = draft.x.quoted
    /\ draft.at = "replaces" =>
          file = draft.before /\ file \in {c.text : c \in copies}

\* His words are never a dream's, and a record of what a dream wrote keeps
\* its shape when it is reverted.
InsShape ==
    /\ his = HisText(edits)
    /\ \A x \in applied : x = [id |-> x.id, quoted |-> x.quoted,
                               before |-> x.before, reverted |-> x.reverted]

InsInv == InsShape /\ DraftStands /\ WordsKept /\ WrittenAgainst

LEMMA InsStart == Init => InsInv
BY DEF Init, InsInit, InsInv, InsShape, DraftStands, WordsKept, WrittenAgainst, NoDraft, HisText

\* He edits, dismisses or reverts while the file is not being replaced.
LEMMA HisSteps ==
    ASSUME InsInv, draft.at \notin {"copies", "replaces"},
           EditFile \/ \E x \in applied : Revert(x)
    PROVE  InsInv'
<1>1. CASE EditFile
    BY <1>1 DEF EditFile, InsInv, InsShape, DraftStands, WordsKept, WrittenAgainst
<1>2. ASSUME NEW x \in applied, Revert(x)
      PROVE  InsInv'
    <2> DEFINE y == [x EXCEPT !.reverted = TRUE]
    <2>1. y.before = x.before /\ y.quoted = x.quoted /\ y = [id |-> y.id, quoted |-> y.quoted,
              before |-> y.before, reverted |-> y.reverted]
        <3>1. PICK a, q, b, r : x = [id |-> a, quoted |-> q, before |-> b, reverted |-> r]
            BY DEF InsInv, InsShape
        <3>2. x \in [id : {a}, quoted : {q}, before : {b}, reverted : {r}]
            BY <3>1
        <3>3. y \in [id : {a}, quoted : {q}, before : {b}, reverted : {TRUE}]
            BY <3>2
        <3> HIDE DEF y
        <3> QED BY <3>2, <3>3
    <2>2. x.before = x.quoted
        BY DEF InsInv, WrittenAgainst
    <2>3. his \in {c.text : c \in copies}
        BY <1>2 DEF Revert, Untouched, DreamText, HisText, InsInv, InsShape, WordsKept
    <2>4. applied' = (applied \ {x}) \cup {y} /\ UNCHANGED << his, edits, pending, copies, draft >>
        BY <1>2 DEF Revert
    <2> HIDE DEF y
    <2>5. InsShape' /\ WrittenAgainst'
        BY <2>1, <2>2, <2>4 DEF InsInv, InsShape, WrittenAgainst
    <2>6. WordsKept' /\ DraftStands'
        BY <2>3, <2>4 DEF InsInv, WordsKept, DraftStands
    <2> QED BY <2>5, <2>6 DEF InsInv
<1> QED BY <1>1, <1>2

LEMMA DismissStep ==
    ASSUME InsInv, NEW x \in pending, Dismiss(x)
    PROVE  InsInv'
BY DEF Dismiss, InsInv, InsShape, DraftStands, WordsKept, WrittenAgainst

\* The turn is shown the file, or it ends without going further.
LEMMA QuoteStep ==
    ASSUME InsInv, Quote \/ draft' = NoDraft,
           UNCHANGED << file, his, edits, made, pending, copies, applied >>
    PROVE  InsInv'
BY DEF Quote, NoDraft, InsInv, InsShape, DraftStands, WordsKept, WrittenAgainst

LEMMA ProposeStep ==
    ASSUME InsInv, Propose
    PROVE  InsInv'
<1> DEFINE x == [id |-> made + 1, quoted |-> draft.quoted]
<1>1. /\ draft.at = "turn"
      /\ pending' \in {pending \cup {x}, (pending \ Fresh) \cup {x}}
      /\ UNCHANGED << file, his, edits, copies, applied, draft >>
    BY DEF Propose
<1>2. x.quoted = draft.quoted
    OBVIOUS
<1> HIDE DEF x
<1>3. \A y \in pending' \ draft.before : y.quoted = draft.quoted
    BY <1>1, <1>2 DEF InsInv, DraftStands
<1> QED BY <1>1, <1>3 DEF InsInv, InsShape, DraftStands, WordsKept, WrittenAgainst

LEMMA ApplySteps ==
    ASSUME InsInv, ApplyStep
    PROVE  InsInv'
<1>1. CASE Consider
    <2>1. CASE draft' = [at |-> "done"]
        BY <1>1, <2>1 DEF Consider, InsInv, InsShape, DraftStands, WordsKept, WrittenAgainst
    <2>2. CASE draft' # [at |-> "done"]
        <3>1. PICK x \in Fresh : draft' = [at |-> "copies", x |-> x]
            BY <1>1, <2>2 DEF Consider
        <3>2. file = x.quoted
            BY <1>1, <2>2, <3>1 DEF Consider, Fresh, UnchangedSinceQuoted, InsInv, DraftStands
        <3> QED BY <1>1, <3>1, <3>2
            DEF Consider, InsInv, InsShape, DraftStands, WordsKept, WrittenAgainst
    <2> QED BY <2>1, <2>2
<1>2. CASE CopyBefore
    <2>1. [id |-> draft.x.id, text |-> file].text = file
        OBVIOUS
    <2>2. file \in {c.text : c \in copies'} /\ copies \subseteq copies'
        BY <1>2, <2>1 DEF CopyBefore, KeepCopy
    <2> QED BY <1>2, <2>2
        DEF CopyBefore, InsInv, InsShape, DraftStands, WordsKept, WrittenAgainst
<1>3. CASE NotThere \/ RemovePending
    BY <1>3 DEF NotThere, RemovePending, InsInv, InsShape, DraftStands, WordsKept, WrittenAgainst
<1>4. CASE Replace
    <2>1. draft' = [at |-> "records", x |-> draft.x, before |-> draft.before]
        BY <1>4 DEF Replace, InsInv, DraftStands
    <2>2. his \in {c.text : c \in copies}
        BY <1>4 DEF Replace, InsInv, DraftStands, WordsKept
    <2> QED BY <1>4, <2>1, <2>2
        DEF Replace, InsInv, InsShape, DraftStands, WordsKept, WrittenAgainst
<1>5. CASE RecordApplied
    <2>1. draft'.at = "removes"
        BY <1>5 DEF RecordApplied, InsInv, DraftStands
    <2> QED BY <1>5, <2>1
        DEF RecordApplied, InsInv, InsShape, DraftStands, WordsKept, WrittenAgainst
<1> QED BY <1>1, <1>2, <1>3, <1>4, <1>5 DEF ApplyStep

LEMMA InsStep ==
    ASSUME InsInv, "window" \notin may, [Next]_vars
    PROVE  InsInv'
<1>1. CASE UNCHANGED insVars
    BY <1>1 DEF insVars, InsInv, InsShape, DraftStands, WordsKept, WrittenAgainst
<1>2. CASE He
    BY <1>1, <1>2, HisSteps, DismissStep DEF He
<1>3. CASE Tool \/ TakeFor("capture") \/ TakeFor("dream") \/ Capture
    BY <1>1, <1>3 DEF Tool, TakeFor, Capture
<1>4. CASE Dream
    <2>1. \/ UNCHANGED insVars
          \/ Propose
          \/ ApplyStep
          \/ /\ Quote \/ draft' = NoDraft
             /\ UNCHANGED << file, his, edits, made, pending, copies, applied >>
        BY <1>4 DEF Dream
    <2> QED BY <1>1, <2>1, ProposeStep, ApplySteps, QuoteStep
<1>5. CASE Fault
    BY <1>5, QuoteStep DEF Fault
<1>6. CASE UNCHANGED vars
    BY <1>1, <1>6 DEF vars
<1> QED BY <1>2, <1>3, <1>4, <1>5, <1>6 DEF Next

\* The always-loaded file is his: what he last wrote is in it or in a copy, and
\* a dream replaces only the text it quoted (apply_turns_proposal), as long as
\* he does not save between the dream's last look and its rename.
THEOREM InstructionsAreHis ==
    ASSUME \A s \in Settings : "window" \notin s
    PROVE  Spec => []InstructionsStayHis
<1> DEFINE Calm == may \in Settings
<1>1. Init => InsInv /\ Calm
    BY InsStart DEF Init
<1>2. InsInv /\ Calm /\ [Next]_vars => (InsInv /\ Calm)'
    BY InsStep DEF Next, He, Tool, TakeFor, Capture, Dream, Fault, vars
<1>3. InsInv => InstructionsStayHis
    BY DEF InsInv, InstructionsStayHis
<1> QED BY <1>1, <1>2, <1>3, PTL DEF Spec

-----------------------------------------------------------------------------
(* Observations.                                                           *)

SawPieces == [kind : {"saw"}, log : Logs, from : Nat, to : Nat]
Piece == SawPieces \cup {Newline} \cup [kind : {"told"}, tool : Tools]

Work == [cut : [Logs -> Nat] \cup {<< >>}, unread : SUBSET Logs,
         batch : SUBSET SawPieces, out : SUBSET SawPieces,
         todo : SUBSET Nat, group : SUBSET Nat, end : Nat]

PassStages == {"rest", "capture", "folds", "appends", "newline",
           "dream", "groups", "turn", "filed"}

ObsTypes ==
    /\ chat \in [Logs -> Nat] /\ cut \in [Logs -> Nat]
    /\ inbox \in Seq(Piece) /\ filed \in Seq(Nat) /\ Len(filed) = Len(inbox)
    /\ consumed \in 0..Len(inbox)
    /\ at \in [Processes -> PassStages] /\ work \in [Processes -> Work]

\* Lines 1..n of log l are observed.
SeenTo(l, n) == \A k \in 1..n : SeenOf(l, k) # {}

\* What a capture would watermark is seen, once what it still has to append
\* is in the inbox.
CaptureInv(p) ==
    at[p] \in {"folds", "appends", "newline"} =>
        /\ work[p].cut \in [Logs -> Nat]
        /\ \A l \in Logs : SeenTo(l, work[p].cut[l])
        /\ \A o \in work[p].batch : o.from = work[p].cut[o.log]
        /\ at[p] # "folds" =>
              \A o \in work[p].batch \ work[p].out : \E i \in DOMAIN inbox : inbox[i] = o

\* What a dream would consume is filed, once what it still has to file is.
DreamInv(p) ==
    at[p] \in {"groups", "turn", "filed"} =>
        /\ work[p].end <= Len(inbox)
        /\ \A i \in LineEnds :
              /\ i <= work[p].end /\ Reads(i)
              /\ i \notin work[p].todo
              /\ at[p] = "turn" => i \notin work[p].group
              => filed[i] > 0

PassInv == \A p \in Processes : CaptureInv(p) /\ DreamInv(p)

ObsInv == ObsTypes /\ PassInv /\ NothingUnseen /\ ConsumedIsFiled

\* The lines that have ended stay as they are when more is written.
LEMMA WriteKeeps ==
    ASSUME ObsTypes, NEW piece \in Piece, Write(piece)
    PROVE  /\ inbox' \in Seq(Piece) /\ filed' \in Seq(Nat)
           /\ Len(filed') = Len(inbox') /\ Len(inbox') = Len(inbox) + 1
           /\ inbox'[Len(inbox')] = piece
           /\ \A i \in 1..Len(inbox) :
                 /\ inbox'[i] = inbox[i] /\ filed'[i] = filed[i]
                 /\ i \in LineEnds' <=> i \in LineEnds
                 /\ Reads(i)' <=> Reads(i)
<1>1. /\ inbox' \in Seq(Piece) /\ filed' \in Seq(Nat)
      /\ Len(filed') = Len(inbox') /\ Len(inbox') = Len(inbox) + 1
      /\ inbox'[Len(inbox')] = piece
      /\ \A i \in 1..Len(inbox) : inbox'[i] = inbox[i] /\ filed'[i] = filed[i]
    BY DEF Write, ObsTypes
<1>2. ASSUME NEW i \in 1..Len(inbox)
      PROVE  /\ i \in LineEnds' <=> i \in LineEnds
             /\ Reads(i)' <=> Reads(i)
    <2>1. i \in LineEnds' <=> i \in LineEnds
        BY <1>1 DEF LineEnds, ObsTypes
    <2>2. Len(inbox) \in Nat
        BY DEF ObsTypes
    <2>3. \A j \in 1..(i - 1) : \A k \in j..(i - 1) : inbox'[k] = inbox[k]
        BY <1>1, <2>2
    <2>4. PiecesOf(i)' = PiecesOf(i)
        BY <2>3 DEF PiecesOf
    <2> QED BY <2>1, <2>4 DEF Reads
<1> QED BY <1>1, <1>2

\* What was seen stays seen, and what was filed stays filed.
Grows ==
    \/ inbox' = inbox /\ filed' \in Seq(Nat) /\ Len(filed') = Len(filed)
       /\ \A i \in 1..Len(filed) : filed'[i] >= filed[i]
    \/ \E piece \in Piece : Write(piece)

LEMMA SeenStays ==
    ASSUME ObsTypes, Grows
    PROVE  /\ \A i \in DOMAIN inbox : i \in DOMAIN inbox' /\ inbox'[i] = inbox[i]
           /\ \A l \in Logs : \A n : SeenTo(l, n) => SeenTo(l, n)'
<1>1. \A i \in DOMAIN inbox : i \in DOMAIN inbox' /\ inbox'[i] = inbox[i]
    BY WriteKeeps DEF Grows, ObsTypes
<1>2. \A l \in Logs : \A n : SeenOf(l, n) \subseteq SeenOf(l, n)'
    BY <1>1 DEF SeenOf
<1> QED BY <1>1, <1>2 DEF SeenTo

\* What holds of the lines up to e before holds of them after.
LEMMA FiledStays ==
    ASSUME ObsTypes, Grows, NEW e \in 0..Len(inbox), NEW i \in LineEnds',
           i <= e, Reads(i)'
    PROVE  i \in LineEnds /\ Reads(i) /\ filed[i] \in Nat /\ filed'[i] >= filed[i]
<1>1. Len(inbox) \in Nat /\ DOMAIN inbox = 1..Len(inbox)
    BY DEF ObsTypes
<1>2. CASE inbox' = inbox /\ filed' \in Seq(Nat) /\ Len(filed') = Len(filed)
       /\ \A k \in 1..Len(filed) : filed'[k] >= filed[k]
    <2>1. LineEnds' = LineEnds /\ Reads(i)' = Reads(i)
        BY <1>2 DEF LineEnds, Reads, PiecesOf
    <2> QED BY <1>1, <1>2, <2>1 DEF LineEnds, ObsTypes
<1>3. ASSUME NEW piece \in Piece, Write(piece)
      PROVE  i \in LineEnds /\ Reads(i) /\ filed[i] \in Nat /\ filed'[i] >= filed[i]
    <2>1. DOMAIN inbox' = 1..(Len(inbox) + 1)
        BY <1>1, <1>3, WriteKeeps
    <2>2. i \in 1..Len(inbox)
        BY <1>1, <2>1 DEF LineEnds
    <2>3. filed[i] \in Nat
        BY <2>2 DEF ObsTypes
    <2>4. /\ filed'[i] = filed[i]
          /\ i \in LineEnds' <=> i \in LineEnds
          /\ Reads(i)' <=> Reads(i)
        BY <1>3, <2>2, WriteKeeps
    <2>5. filed'[i] >= filed[i]
        BY <2>3, <2>4
    <2> QED BY <2>3, <2>4, <2>5
<1> QED BY <1>2, <1>3 DEF Grows

\* A process that does not move keeps what it knows.
LEMMA OthersStand ==
    ASSUME ObsTypes, Grows, NEW q \in Processes, CaptureInv(q), DreamInv(q),
           at'[q] = at[q], work'[q] = work[q]
    PROVE  CaptureInv(q)' /\ DreamInv(q)'
<1>1. CaptureInv(q)'
    BY SeenStays DEF CaptureInv
<1>2. ASSUME at[q] \in {"groups", "turn", "filed"}
      PROVE  DreamInv(q)'
    <2>1. work[q].end \in 0..Len(inbox) /\ Len(inbox) \in Nat
        BY <1>2 DEF DreamInv, ObsTypes, Work
    <2>2. Len(inbox') >= Len(inbox)
        BY <2>1, WriteKeeps DEF Grows, ObsTypes
    <2>3. Len(inbox') \in Nat
        BY <2>1, WriteKeeps DEF Grows
    <2>4. ASSUME NEW i \in LineEnds', i <= work[q].end, Reads(i)',
                 i \notin work[q].todo, at[q] = "turn" => i \notin work[q].group
          PROVE  filed'[i] > 0
        <3>1. filed[i] \in Nat /\ filed'[i] >= filed[i] /\ filed[i] > 0
            BY <1>2, <2>1, <2>4, FiledStays DEF DreamInv
        <3>2. filed'[i] \in Nat
            <4>1. i \in 1..Len(inbox') /\ Len(filed') = Len(inbox') /\ filed' \in Seq(Nat)
                BY <2>3, <2>4, WriteKeeps DEF Grows, LineEnds, ObsTypes
            <4> QED BY <4>1
        <3> QED BY <3>1, <3>2
    <2> QED BY <2>1, <2>2, <2>3, <2>4 DEF DreamInv
<1>3. ASSUME at[q] \notin {"groups", "turn", "filed"}
      PROVE  DreamInv(q)'
    BY <1>3 DEF DreamInv
<1> QED BY <1>1, <1>2, <1>3

\* Filed lines up to e stay filed.
LEMMA ConsumedStays ==
    ASSUME ObsTypes, Grows, NEW e \in 0..Len(inbox),
           \A i \in LineEnds : i <= e /\ Reads(i) => filed[i] > 0
    PROVE  \A i \in LineEnds' : i <= e /\ Reads(i)' => filed'[i] > 0
<1> SUFFICES ASSUME NEW i \in LineEnds', i <= e, Reads(i)'
             PROVE  filed'[i] > 0
    OBVIOUS
<1>1. i \in LineEnds /\ filed[i] \in Nat /\ filed[i] > 0 /\ filed'[i] >= filed[i]
    BY FiledStays
<1>2. filed'[i] \in Nat
    BY <1>1, WriteKeeps DEF Grows, LineEnds, ObsTypes
<1> QED BY <1>1, <1>2

\* One process moves: it is enough to look at that one, and at a watermark
\* only when it moved.
LEMMA PassStep ==
    ASSUME ObsInv, Grows, ObsTypes', NEW p \in Processes,
           \A q \in Processes : q # p => at'[q] = at[q] /\ work'[q] = work[q],
           CaptureInv(p)', DreamInv(p)',
           cut' = cut \/ NothingUnseen', consumed' = consumed \/ ConsumedIsFiled'
    PROVE  ObsInv'
<1>1. PassInv'
    BY OthersStand DEF ObsInv, PassInv
<1>2. NothingUnseen'
    BY SeenStays DEF ObsInv, NothingUnseen, SeenTo, ObsTypes
<1>3. ConsumedIsFiled'
    BY ConsumedStays DEF ObsInv, ConsumedIsFiled, ObsTypes
<1> QED BY <1>1, <1>2, <1>3 DEF ObsInv

LEMMA SameGrows ==
    ASSUME ObsTypes, inbox' = inbox, filed' = filed
    PROVE  Grows
BY DEF ObsTypes, Grows

LEMMA NoWorkType == NoWork \in Work
BY DEF NoWork, Work

\* The pass is let go.
LEMMA LetGoFacts ==
    ASSUME ObsTypes, NEW p \in Processes, LetGo(p)
    PROVE  /\ at' \in [Processes -> PassStages] /\ work' \in [Processes -> Work]
           /\ \A q \in Processes : q # p => at'[q] = at[q] /\ work'[q] = work[q]
           /\ CaptureInv(p)' /\ DreamInv(p)'
BY NoWorkType DEF LetGo, ObsTypes, PassStages, CaptureInv, DreamInv

LEMMA TakeStep ==
    ASSUME ObsInv, NEW p \in Processes, NEW kind \in {"capture", "dream"}, Take(p, kind)
    PROVE  ObsInv'
<1>1. ObsTypes'
    BY DEF Take, ObsInv, ObsTypes, PassStages
<1>2. CaptureInv(p)' /\ DreamInv(p)'
    BY DEF Take, ObsInv, ObsTypes, CaptureInv, DreamInv
<1> QED BY <1>1, <1>2, PassStep, SameGrows DEF Take, ObsInv, ObsTypes

LEMMA EndsStep ==
    ASSUME ObsInv, NEW p \in Processes, Ends(p)
    PROVE  ObsInv'
<1>1. ObsTypes'
    BY LetGoFacts DEF Ends, ObsInv, ObsTypes
<1> QED BY <1>1, LetGoFacts, PassStep, SameGrows DEF Ends, ObsInv

LEMMA ReadStateStep ==
    ASSUME ObsInv, NEW p \in Processes, ReadState(p)
    PROVE  ObsInv'
<1>1. CASE Unread = {}
    <2>1. ObsTypes'
        BY <1>1, LetGoFacts DEF ReadState, ObsInv, ObsTypes
    <2> QED BY <1>1, <2>1, LetGoFacts, PassStep, SameGrows DEF ReadState, ObsInv
<1>2. CASE Unread # {}
    <2> DEFINE w == [NoWork EXCEPT !.cut = cut, !.unread = Unread]
    <2>1. w \in Work /\ w.cut = cut /\ w.batch = {}
        BY DEF NoWork, Work, ObsInv, ObsTypes, Unread
    <2>2. /\ at' = [at EXCEPT ![p] = "folds"] /\ work' = [work EXCEPT ![p] = w]
          /\ UNCHANGED << chat, cut, inbox, consumed, filed >>
        BY <1>2 DEF ReadState
    <2> HIDE DEF w
    <2>3. ObsTypes'
        BY <2>1, <2>2 DEF ObsInv, ObsTypes, PassStages
    <2>4. at'[p] = "folds" /\ work'[p] = w
        BY <2>2 DEF ObsInv, ObsTypes
    <2>5. \A l \in Logs : SeenTo(l, cut[l])'
        BY <2>2, SeenStays, SameGrows DEF ObsInv, NothingUnseen, SeenTo
    <2>6. CaptureInv(p)' /\ DreamInv(p)'
        BY <2>1, <2>2, <2>4, <2>5 DEF ObsInv, ObsTypes, CaptureInv, DreamInv
    <2> QED BY <2>2, <2>3, <2>6, PassStep, SameGrows DEF ObsInv, ObsTypes
<1> QED BY <1>1, <1>2

LEMMA FoldStep ==
    ASSUME ObsInv, NEW p \in Processes, NEW l \in Logs, Fold(p, l) \/ Defer(p, l)
    PROVE  ObsInv'
<1>0. PICK to \in Nat :
        \/ work' = [work EXCEPT ![p].unread = @ \ {l},
                                ![p].batch = @ \cup {Saw(l, work[p].cut[l], to)}]
        \/ Defer(p, l)
    <2>1. chat[l] \in Nat /\ work[p].cut[l] \in Nat
        BY DEF Fold, Defer, ObsInv, ObsTypes, PassInv, CaptureInv
    <2>2. CASE Defer(p, l)
        BY <2>2
    <2>3. CASE Fold(p, l)
        <3>1. PICK to \in (work[p].cut[l] + 1)..chat[l] :
                work' = [work EXCEPT ![p].unread = @ \ {l},
                                     ![p].batch = @ \cup {Saw(l, work[p].cut[l], to)}]
            BY <2>3 DEF Fold
        <3>2. to \in Nat
            BY <2>1
        <3> QED BY <3>1, <3>2
    <2> QED BY <2>2, <2>3
<1> DEFINE o == Saw(l, work[p].cut[l], to)
<1>1. /\ at[p] = "folds" /\ UNCHANGED << chat, cut, inbox, consumed, filed, at >>
      /\ at \in [Processes -> PassStages] /\ work \in [Processes -> Work]
    BY DEF Fold, Defer, ObsInv, ObsTypes
<1>2. work[p].cut \in [Logs -> Nat] /\ CaptureInv(p)
    BY <1>1 DEF ObsInv, PassInv, CaptureInv
<1>3. o \in SawPieces /\ o.from = work[p].cut[o.log]
    BY <1>2 DEF Saw, SawPieces, ObsInv, ObsTypes
<1>4. /\ work' \in [Processes -> Work]
      /\ \A q \in Processes : q # p => work'[q] = work[q]
      /\ work'[p].cut = work[p].cut
      /\ work'[p].batch \subseteq work[p].batch \cup {o}
    <2>1. CASE work' = [work EXCEPT ![p].unread = @ \ {l}, ![p].batch = @ \cup {o}]
        <3> DEFINE w == [work[p] EXCEPT !.unread = @ \ {l}, !.batch = @ \cup {o}]
        <3> HIDE DEF o
        <3>2. w \in Work /\ w.cut = work[p].cut /\ w.batch = work[p].batch \cup {o}
            BY <1>1, <1>3 DEF Work
        <3>3. work' = [work EXCEPT ![p] = w]
            BY <1>1, <2>1 DEF Work
        <3> HIDE DEF w
        <3> QED BY <1>1, <3>2, <3>3
    <2>2. CASE Defer(p, l)
        <3>1. work' = [work EXCEPT ![p].unread = @ \ {l}]
            BY <2>2 DEF Defer
        <3> HIDE DEF o
        <3> QED BY <1>1, <3>1 DEF Work
    <2> QED BY <1>0, <2>1, <2>2
<1> HIDE DEF o
<1>5. ObsTypes'
    BY <1>1, <1>4 DEF ObsInv, ObsTypes
<1>6. CaptureInv(p)'
    BY <1>1, <1>2, <1>3, <1>4, SeenStays, SameGrows DEF CaptureInv, ObsInv
<1>7. DreamInv(p)'
    BY <1>1 DEF DreamInv
<1> QED BY <1>1, <1>4, <1>5, <1>6, <1>7, PassStep, SameGrows DEF ObsInv

LEMMA AskedStep ==
    ASSUME ObsInv, NEW p \in Processes, Asked(p)
    PROVE  ObsInv'
<1>1. /\ at[p] = "folds" /\ UNCHANGED << chat, cut, inbox, consumed, filed >>
      /\ at \in [Processes -> PassStages] /\ work \in [Processes -> Work]
      /\ at' = [at EXCEPT ![p] = "appends"]
      /\ work' = [work EXCEPT ![p].out = work[p].batch]
    BY DEF Asked, ObsInv, ObsTypes
<1>2. /\ work' \in [Processes -> Work]
      /\ \A q \in Processes : q # p => work'[q] = work[q]
      /\ work'[p].cut = work[p].cut
      /\ work'[p].batch = work[p].batch /\ work'[p].out = work[p].batch
    BY <1>1 DEF Work
<1>3. CaptureInv(p)
    BY DEF ObsInv, PassInv
<1>4. ObsTypes'
    BY <1>1, <1>2 DEF ObsInv, ObsTypes, PassStages
<1>5. CaptureInv(p)'
    BY <1>1, <1>2, <1>3, SeenStays, SameGrows DEF CaptureInv, ObsInv
<1>6. DreamInv(p)'
    BY <1>1 DEF DreamInv
<1> QED BY <1>1, <1>2, <1>4, <1>5, <1>6, PassStep, SameGrows DEF ObsInv

LEMMA AppendLineStep ==
    ASSUME ObsInv, NEW p \in Processes, AppendLine(p)
    PROVE  ObsInv'
<1>1. PICK o \in work[p].out :
        /\ at[p] = "appends" /\ UNCHANGED << chat, cut, consumed >>
        /\ Write(o)
        /\ work' = [work EXCEPT ![p].out = @ \ {o}]
        /\ at' = [at EXCEPT ![p] = "newline"]
    BY DEF AppendLine
<1>2. o \in Piece
    BY DEF ObsInv, ObsTypes, Work, Piece
<1>3. Grows
    BY <1>1, <1>2 DEF Grows
<1>4. /\ work' \in [Processes -> Work]
      /\ \A q \in Processes : q # p => at'[q] = at[q] /\ work'[q] = work[q]
      /\ work'[p].cut = work[p].cut
      /\ work'[p].batch = work[p].batch /\ work'[p].out = work[p].out \ {o}
      /\ at'[p] = "newline" /\ at' \in [Processes -> PassStages]
    BY <1>1 DEF ObsInv, ObsTypes, Work, PassStages
<1>5. ObsTypes'
    BY <1>1, <1>2, <1>4, WriteKeeps DEF ObsInv, ObsTypes
<1>6. CaptureInv(p)'
    <2>1. CaptureInv(p)
        BY DEF ObsInv, PassInv
    <2>2. Len(inbox') \in DOMAIN inbox' /\ inbox'[Len(inbox')] = o
        BY <1>1, <1>2, <1>5, WriteKeeps DEF ObsInv, ObsTypes
    <2>3. \A x \in work'[p].batch \ work'[p].out : \E i \in DOMAIN inbox' : inbox'[i] = x
        BY <1>1, <1>3, <1>4, <2>1, <2>2, SeenStays DEF CaptureInv, ObsInv
    <2> QED BY <1>1, <1>3, <1>4, <2>1, <2>3, SeenStays DEF CaptureInv, ObsInv
<1>7. DreamInv(p)'
    BY <1>4 DEF DreamInv
<1> QED BY <1>1, <1>3, <1>4, <1>5, <1>6, <1>7, PassStep

LEMMA NewlineStep ==
    ASSUME ObsInv, NEW p \in Processes, AppendNewline(p)
    PROVE  ObsInv'
<1>1. Newline \in Piece
    BY DEF Piece
<1>2. Grows
    BY <1>1 DEF AppendNewline, Grows
<1>3. /\ \A q \in Processes : q # p => at'[q] = at[q] /\ work'[q] = work[q]
      /\ at[p] = "newline" /\ work'[p] = work[p]
      /\ at'[p] = "appends" /\ at' \in [Processes -> PassStages]
    BY DEF AppendNewline, ObsInv, ObsTypes, PassStages
<1>4. ObsTypes'
    BY <1>1, <1>3, WriteKeeps DEF AppendNewline, ObsInv, ObsTypes
<1>5. CaptureInv(p)'
    BY <1>2, <1>3, SeenStays DEF CaptureInv, ObsInv, PassInv
<1>6. DreamInv(p)'
    BY <1>3 DEF DreamInv
<1> QED BY <1>2, <1>3, <1>4, <1>5, <1>6, PassStep DEF AppendNewline

\* How far a batch was read is seen once all of it is in the inbox.
LEMMA CapturedSeen ==
    ASSUME ObsInv, NEW p \in Processes, at[p] = "appends", work[p].out = {}
    PROVE  /\ Captured(p) \in [Logs -> Nat]
           /\ \A l \in Logs : SeenTo(l, Captured(p)[l])
<1>1. /\ work[p].cut \in [Logs -> Nat] /\ work[p].batch \subseteq SawPieces
      /\ \A l \in Logs : SeenTo(l, work[p].cut[l])
      /\ \A o \in work[p].batch : o.from = work[p].cut[o.log]
      /\ \A o \in work[p].batch : \E i \in DOMAIN inbox : inbox[i] = o
    BY DEF ObsInv, ObsTypes, Work, PassInv, CaptureInv
<1>2. ASSUME NEW l \in Logs
      PROVE  Captured(p)[l] \in Nat /\ SeenTo(l, Captured(p)[l])
    <2> DEFINE here == {o \in work[p].batch : o.log = l}
               o == CHOOSE o \in here : TRUE
    <2>1. Captured(p)[l] = IF here = {} THEN work[p].cut[l] ELSE o.to
        BY DEF Captured
    <2>2. CASE here = {}
        BY <1>1, <2>1, <2>2
    <2>3. CASE here # {}
        <3>1. o \in here
            BY <2>3
        <3> HIDE DEF o
        <3>2. o \in SawPieces /\ o.log = l /\ o.from = work[p].cut[l]
            BY <1>1, <3>1
        <3>3. PICK i \in DOMAIN inbox : inbox[i] = o
            BY <1>1, <3>1
        <3>4. ASSUME NEW n \in 1..o.to
              PROVE  SeenOf(l, n) # {}
            <4>1. CASE n <= work[p].cut[l]
                BY <1>1, <3>2, <4>1 DEF SeenTo, SawPieces
            <4>2. CASE ~(n <= work[p].cut[l])
                <5>1. Covers(inbox[i], l, n)
                    BY <1>1, <3>2, <3>3, <4>2 DEF Covers, SawPieces
                <5> QED BY <5>1 DEF SeenOf
            <4> QED BY <4>1, <4>2
        <3> QED BY <2>1, <2>3, <3>2, <3>4 DEF SeenTo, SawPieces
    <2> QED BY <2>2, <2>3
<1>3. DOMAIN Captured(p) = Logs /\ Captured(p) = [l \in Logs |-> Captured(p)[l]]
    BY DEF Captured
<1> HIDE DEF Captured
<1> QED BY <1>2, <1>3

LEMMA WriteStateStep ==
    ASSUME ObsInv, NEW p \in Processes, WriteState(p)
    PROVE  ObsInv'
<1>0. PICK new : new = Captured(p)
    OBVIOUS
<1> DEFINE w == [work[p] EXCEPT !.cut = new, !.batch = {}]
<1>1. new \in [Logs -> Nat] /\ \A l \in Logs : SeenTo(l, new[l])
    BY <1>0, CapturedSeen DEF WriteState
<1>2. at[p] = "appends" /\ UNCHANGED << chat, inbox, consumed, filed >> /\ cut' = new
    BY <1>0 DEF WriteState
<1>3. at' = [at EXCEPT ![p] = "folds"]
      /\ work' = [work EXCEPT ![p].cut = new, ![p].batch = {}]
    BY <1>0 DEF WriteState
<1>4. w \in Work /\ w.cut = new /\ w.batch = {}
    BY <1>1 DEF ObsInv, ObsTypes, Work
<1>5. work' = [work EXCEPT ![p] = w]
    BY <1>3 DEF ObsInv, ObsTypes, Work
<1> HIDE DEF w
<1>6. /\ work' \in [Processes -> Work] /\ work'[p] = w
      /\ at' \in [Processes -> PassStages] /\ at'[p] = "folds"
      /\ \A q \in Processes : q # p => at'[q] = at[q] /\ work'[q] = work[q]
    BY <1>3, <1>4, <1>5 DEF ObsInv, ObsTypes, PassStages
<1>7. ObsTypes'
    BY <1>1, <1>2, <1>6 DEF ObsInv, ObsTypes
<1>8. \A l \in Logs : SeenTo(l, new[l])'
    BY <1>1, <1>2, SeenStays, SameGrows DEF ObsInv, ObsTypes
<1>9. CaptureInv(p)' /\ DreamInv(p)'
    BY <1>1, <1>4, <1>6, <1>8 DEF CaptureInv, DreamInv
<1>10. NothingUnseen'
    BY <1>2, <1>8 DEF NothingUnseen, SeenTo
<1> QED BY <1>2, <1>6, <1>7, <1>9, <1>10, PassStep, SameGrows DEF ObsInv

LEMMA CaptureDoneStep ==
    ASSUME ObsInv, NEW p \in Processes, CaptureDone(p)
    PROVE  ObsInv'
<1>1. at[p] = "folds" /\ UNCHANGED << chat, inbox, consumed, filed >>
      /\ cut' = work[p].cut /\ LetGo(p)
    BY DEF CaptureDone
<1>2. cut' \in [Logs -> Nat] /\ \A l \in Logs : SeenTo(l, cut'[l])
    BY <1>1 DEF ObsInv, PassInv, CaptureInv
<1>3. NothingUnseen'
    BY <1>1, <1>2, SeenStays, SameGrows DEF NothingUnseen, SeenTo, ObsInv, ObsTypes
<1>4. ObsTypes'
    BY <1>1, <1>2, LetGoFacts DEF ObsInv, ObsTypes
<1> QED BY <1>1, <1>3, <1>4, LetGoFacts, PassStep, SameGrows DEF ObsInv

\* A line is said, or the tool writes: no pass moves.
LEMMA OutsideSteps ==
    ASSUME ObsInv,
           \/ \E l \in Logs : Says(l)
           \/ \E r \in Tools : Remember(r) \/ RememberEnds(r)
    PROVE  ObsInv'
<1>1. UNCHANGED << cut, consumed, at, work >>
    BY DEF Says, Remember, RememberEnds
<1>2. CASE \E l \in Logs : Says(l)
    <2>1. ObsTypes'
        BY <1>1, <1>2 DEF Says, ObsInv, ObsTypes
    <2> QED BY <1>1, <1>2, <2>1, SameGrows, OthersStand, SeenStays, ConsumedStays
        DEF Says, ObsInv, PassInv, NothingUnseen, SeenTo, ConsumedIsFiled, ObsTypes
<1>3. ASSUME NEW r \in Tools, Remember(r) \/ RememberEnds(r)
      PROVE  ObsInv'
    <2>1. PICK piece \in Piece : Write(piece)
        BY <1>3 DEF Remember, RememberEnds, Piece, Told
    <2>2. Grows
        BY <2>1 DEF Grows
    <2>3. ObsTypes'
        BY <1>1, <1>3, <2>1, WriteKeeps DEF Remember, RememberEnds, ObsInv, ObsTypes
    <2> QED BY <1>1, <2>2, <2>3, OthersStand, SeenStays, ConsumedStays
        DEF ObsInv, PassInv, NothingUnseen, SeenTo, ConsumedIsFiled, ObsTypes
<1> QED BY <1>2, <1>3

LEMMA ReadBacklogStep ==
    ASSUME ObsInv, NEW p \in Processes, ReadBacklog(p)
    PROVE  ObsInv'
<1>1. CASE Pending = {}
    <2>1. ObsTypes'
        BY <1>1, LetGoFacts DEF ReadBacklog, ObsInv, ObsTypes
    <2> QED BY <1>1, <2>1, LetGoFacts, PassStep, SameGrows DEF ReadBacklog, ObsInv
<1>2. CASE Pending # {}
    <2>1. PICK last \in Pending :
            work' = [work EXCEPT ![p] = [NoWork EXCEPT !.todo = UpTo(last), !.end = last]]
        BY <1>2 DEF ReadBacklog
    <2>2. at' = [at EXCEPT ![p] = "groups"] /\ UNCHANGED << chat, cut, inbox, consumed, filed >>
        BY <1>2 DEF ReadBacklog
    <2>3. Len(inbox) \in Nat /\ Pending \subseteq 1..Len(inbox)
        BY DEF Pending, LineEnds, ObsInv, ObsTypes
    <2>4. PICK batch : batch = UpTo(last)
        OBVIOUS
    <2> DEFINE w == [NoWork EXCEPT !.todo = batch, !.end = last]
    <2>5. w \in Work /\ w.todo = batch /\ w.end = last
        <3> HIDE DEF w
        <3>1. last \in Nat /\ Pending \subseteq Nat
            BY <2>3
        <3>2. batch \subseteq Nat
            BY <2>4, <3>1 DEF UpTo
        <3> USE DEF w
        <3> QED BY <3>1, <3>2 DEF NoWork, Work
    <2>6. work' = [work EXCEPT ![p] = w]
        BY <2>1, <2>4
    <2> HIDE DEF w
    <2>7. /\ work' \in [Processes -> Work] /\ work'[p] = w
          /\ at' \in [Processes -> PassStages] /\ at'[p] = "groups"
          /\ \A q \in Processes : q # p => at'[q] = at[q] /\ work'[q] = work[q]
        BY <2>2, <2>5, <2>6 DEF ObsInv, ObsTypes, PassStages
    <2>8. ObsTypes'
        BY <2>2, <2>7 DEF ObsInv, ObsTypes
    <2>9. \A i \in LineEnds : i <= last /\ Reads(i) /\ i \notin batch => filed[i] > 0
        <3> SUFFICES ASSUME NEW i \in LineEnds, i <= last, Reads(i), i \notin batch
                     PROVE  filed[i] > 0
            OBVIOUS
        <3>1. i \in Nat /\ consumed \in Nat
            BY <2>3 DEF LineEnds, ObsInv, ObsTypes
        <3>2. i <= consumed
            BY <2>4, <3>1 DEF UpTo, Pending
        <3> QED BY <3>2 DEF ObsInv, ConsumedIsFiled
    <2>10. LineEnds' = LineEnds /\ \A i : Reads(i)' = Reads(i)
        BY <2>2 DEF LineEnds, Reads, PiecesOf
    <2>11. CaptureInv(p)'
        BY <2>7 DEF CaptureInv
    <2>12. DreamInv(p)'
        BY <2>2, <2>3, <2>5, <2>7, <2>9, <2>10 DEF DreamInv
    <2> QED BY <2>2, <2>7, <2>8, <2>11, <2>12, PassStep, SameGrows DEF ObsInv
<1> QED BY <1>1, <1>2

\* A group leaves what is still to do and is the turn's.
LEMMA StartGroupStep ==
    ASSUME ObsInv, NEW p \in Processes, StartGroup(p)
    PROVE  ObsInv'
<1>1. PICK i \in work[p].todo :
        LET group == {j \in work[p].todo : TargetOf(j) = TargetOf(i)}
        IN  work' = [work EXCEPT ![p].todo = @ \ group, ![p].group = group]
    BY DEF StartGroup
<1> DEFINE group == {j \in work[p].todo : TargetOf(j) = TargetOf(i)}
           w == [work[p] EXCEPT !.todo = @ \ group, !.group = group]
<1>2. work' = [work EXCEPT ![p].todo = @ \ group, ![p].group = group]
    BY <1>1
<1>3. group \subseteq work[p].todo
    OBVIOUS
<1>4. at[p] = "groups" /\ at' = [at EXCEPT ![p] = "turn"]
      /\ UNCHANGED << chat, cut, inbox, consumed, filed >>
    BY DEF StartGroup
<1> HIDE DEF group
<1>5. w \in Work /\ w.todo = work[p].todo \ group /\ w.group = group /\ w.end = work[p].end
    BY <1>3 DEF ObsInv, ObsTypes, Work
<1>6. work' = [work EXCEPT ![p] = w]
    BY <1>2 DEF ObsInv, ObsTypes, Work
<1> HIDE DEF w
<1>7. /\ work' \in [Processes -> Work] /\ work'[p] = w
      /\ at' \in [Processes -> PassStages] /\ at'[p] = "turn"
      /\ \A q \in Processes : q # p => at'[q] = at[q] /\ work'[q] = work[q]
    BY <1>4, <1>5, <1>6 DEF ObsInv, ObsTypes, PassStages
<1>8. ObsTypes'
    BY <1>4, <1>7 DEF ObsInv, ObsTypes
<1>9. LineEnds' = LineEnds /\ \A k : Reads(k)' = Reads(k)
    BY <1>4 DEF LineEnds, Reads, PiecesOf
<1>10. CaptureInv(p)' /\ DreamInv(p)'
    BY <1>3, <1>4, <1>5, <1>7, <1>9 DEF CaptureInv, DreamInv, ObsInv, PassInv
<1> QED BY <1>4, <1>7, <1>8, <1>10, PassStep, SameGrows DEF ObsInv

\* The turn's notes stand: its group is filed.
LEMMA TurnFilesStep ==
    ASSUME ObsInv, NEW p \in Processes, TurnFiles(p)
    PROVE  ObsInv'
<1>1. /\ at[p] = "turn" /\ at' = [at EXCEPT ![p] = "filed"]
      /\ UNCHANGED << chat, cut, inbox, consumed, work >>
      /\ filed' = [i \in DOMAIN filed |-> filed[i] + IF i \in work[p].group THEN 1 ELSE 0]
    BY DEF TurnFiles
<1>2. Len(inbox) \in Nat /\ DOMAIN filed = 1..Len(inbox) /\ \A i \in 1..Len(inbox) : filed[i] \in Nat
    BY DEF ObsInv, ObsTypes
<1>3. filed' \in [1..Len(inbox) -> Nat]
    BY <1>1, <1>2
<1>4. filed' \in Seq(Nat) /\ Len(filed') = Len(inbox)
    BY <1>2, <1>3
<1>5. \A i \in 1..Len(inbox) : filed'[i] >= filed[i] /\ (i \in work[p].group => filed'[i] > 0)
    BY <1>1, <1>2
<1>6. Grows
    BY <1>1, <1>4, <1>5 DEF Grows, ObsInv, ObsTypes
<1>7. ObsTypes'
    BY <1>1, <1>4 DEF ObsInv, ObsTypes, PassStages
<1>8. at'[p] = "filed" /\ \A q \in Processes : q # p => at'[q] = at[q]
    BY <1>1 DEF ObsInv, ObsTypes
<1>9. LineEnds' = LineEnds /\ LineEnds \subseteq 1..Len(inbox) /\ \A k : Reads(k)' = Reads(k)
    BY <1>1, <1>2 DEF LineEnds, Reads, PiecesOf, ObsInv, ObsTypes
<1>10. DreamInv(p)
    BY DEF ObsInv, PassInv
<1>11. \A k \in LineEnds :
          k <= work[p].end /\ Reads(k) /\ k \notin work[p].todo => filed'[k] > 0
    <2> SUFFICES ASSUME NEW k \in LineEnds, k <= work[p].end, Reads(k), k \notin work[p].todo
                 PROVE  filed'[k] > 0
        OBVIOUS
    <2>1. CASE k \in work[p].group
        BY <1>5, <1>9, <2>1
    <2>2. CASE k \notin work[p].group
        <3>1. filed[k] > 0
            BY <1>1, <1>10, <2>2 DEF DreamInv
        <3> QED BY <1>2, <1>3, <1>5, <1>9, <3>1
    <2> QED BY <2>1, <2>2
<1>12. CaptureInv(p)' /\ DreamInv(p)'
    BY <1>1, <1>8, <1>9, <1>10, <1>11 DEF CaptureInv, DreamInv
<1> QED BY <1>1, <1>6, <1>7, <1>8, <1>12, PassStep

LEMMA GroupDoneStep ==
    ASSUME ObsInv, NEW p \in Processes, GroupDone(p)
    PROVE  ObsInv'
<1>1. /\ at[p] = "filed" /\ at' \in [Processes -> PassStages] /\ at'[p] = "groups"
      /\ UNCHANGED << chat, cut, inbox, consumed, filed, work >>
      /\ \A q \in Processes : q # p => at'[q] = at[q]
    BY DEF GroupDone, ObsInv, ObsTypes, PassStages
<1>2. ObsTypes'
    BY <1>1 DEF ObsInv, ObsTypes
<1>3. LineEnds' = LineEnds /\ \A k : Reads(k)' = Reads(k)
    BY <1>1 DEF LineEnds, Reads, PiecesOf
<1>4. CaptureInv(p)' /\ DreamInv(p)'
    BY <1>1, <1>3 DEF CaptureInv, DreamInv, ObsInv, PassInv
<1> QED BY <1>1, <1>2, <1>4, PassStep, SameGrows DEF ObsInv

LEMMA AdvanceStep ==
    ASSUME ObsInv, NEW p \in Processes, Advance(p)
    PROVE  ObsInv'
<1>1. /\ at[p] = "groups" /\ work[p].todo = {} /\ consumed' = work[p].end /\ LetGo(p)
      /\ UNCHANGED << chat, cut, inbox, filed >>
    BY DEF Advance
<1>2. work[p].end \in Nat /\ DreamInv(p)
    BY DEF ObsInv, ObsTypes, Work, PassInv
<1>3. ObsTypes'
    BY <1>1, <1>2, LetGoFacts DEF DreamInv, ObsInv, ObsTypes
<1>4. LineEnds' = LineEnds /\ \A k : Reads(k)' = Reads(k)
    BY <1>1 DEF LineEnds, Reads, PiecesOf
<1>5. ConsumedIsFiled'
    BY <1>1, <1>2, <1>4 DEF DreamInv, ConsumedIsFiled
<1> QED BY <1>1, <1>3, <1>5, LetGoFacts, PassStep, SameGrows DEF ObsInv

LEMMA ObsStart == Init => ObsInv
<1> SUFFICES ASSUME ObsInit PROVE ObsInv
    BY DEF Init
<1>1. ObsTypes
    BY NoWorkType DEF ObsInit, ObsTypes, PassStages
<1>2. LineEnds = {}
    BY DEF ObsInit, LineEnds
<1> QED BY <1>1, <1>2
    DEF ObsInit, ObsInv, PassInv, CaptureInv, DreamInv, NothingUnseen, ConsumedIsFiled

LEMMA ObsStep == ObsInv /\ [Next]_vars => ObsInv'
<1> SUFFICES ASSUME ObsInv, [Next]_vars PROVE ObsInv'
    OBVIOUS
<1>1. CASE UNCHANGED obsVars
    <2>1. ObsTypes' /\ LineEnds' = LineEnds /\ \A k : Reads(k)' = Reads(k)
        BY <1>1 DEF obsVars, ObsInv, ObsTypes, LineEnds, Reads, PiecesOf
    <2>2. \A l \in Logs : \A n : SeenTo(l, n)' = SeenTo(l, n)
        BY <1>1 DEF obsVars, SeenTo, SeenOf
    <2>3. \A q \in Processes : CaptureInv(q)' /\ DreamInv(q)'
        BY <1>1, OthersStand, SameGrows DEF obsVars, ObsInv, PassInv
    <2> QED BY <1>1, <2>1, <2>2, <2>3
        DEF obsVars, ObsInv, PassInv, NothingUnseen, SeenTo, ConsumedIsFiled
<1>2. CASE He
    <2>1. One(Logs) \in Logs
        BY MemoryAssumption DEF One
    <2> QED BY <1>1, <1>2, <2>1, OutsideSteps DEF He
<1>3. CASE Tool
    BY <1>3, OutsideSteps DEF Tool
<1>4. CASE TakeFor("capture") \/ TakeFor("dream")
    <2>1. \E p \in Processes, kind \in {"capture", "dream"} : Take(p, kind)
        BY <1>4, MemoryAssumption DEF TakeFor, One
    <2> QED BY <2>1, TakeStep
<1>5. CASE Capture
    BY <1>5, ReadStateStep, FoldStep, AskedStep, AppendLineStep, NewlineStep, WriteStateStep,
       CaptureDoneStep DEF Capture, CaptureStep
<1>6. CASE Dream
    BY <1>1, <1>6, ReadBacklogStep, StartGroupStep, TurnFilesStep, GroupDoneStep, AdvanceStep
    DEF Dream
<1>7. CASE Fault
    BY <1>7, EndsStep DEF Fault
<1>8. CASE UNCHANGED vars
    BY <1>1, <1>8 DEF vars
<1> QED BY <1>2, <1>3, <1>4, <1>5, <1>6, <1>7, <1>8 DEF Next

\* No line of a chat is passed by a watermark before an observation of it is
\* in the inbox, and no line of the inbox is consumed before it was filed, in
\* any number of processes, wherever passes are stopped, fail or die, and
\* whatever the tool writes between.
THEOREM NothingIsPassedOver == Spec => []NothingPassedOver
<1>1. ObsInv => NothingPassedOver
    BY DEF ObsInv, NothingPassedOver
<1> QED BY <1>1, ObsStart, ObsStep, PTL DEF Spec

-----------------------------------------------------------------------------
(* Nothing is observed or filed twice.                                     *)

\* Only the process that holds the lock is in a pass.
OneInAPass == \A p \in Processes : at[p] # "rest" => lock = p

Captures == {"folds", "appends", "newline"}
Dreams == {"groups", "turn", "filed"}

SawAt(i) == i \in DOMAIN inbox /\ inbox[i].kind = "saw"

\* No line has two observations.
SeenOnce ==
    \A l \in Logs : \A n \in Nat : \A i, j \in SeenOf(l, n) : i = j

\* Between captures nothing in the inbox is past the watermark of its log.
InboxBehind ==
    (\A p \in Processes : at[p] \notin Captures) =>
        \A i \in DOMAIN inbox : SawAt(i) => inbox[i].to <= cut[inbox[i].log]

\* In a capture it is behind where this batch began, or is of this batch,
\* which has one observation a log.
BatchAhead(p) ==
    at[p] \in Captures =>
        /\ \A l \in Logs : work[p].cut[l] <= chat[l]
        /\ \A o \in work[p].batch : o.from <= o.to /\ o.to <= chat[o.log] /\ o.log \notin work[p].unread
        /\ \A o, x \in work[p].batch : o.log = x.log => o = x
        /\ at[p] # "folds" => work[p].out \subseteq work[p].batch
        /\ \A i \in DOMAIN inbox : SawAt(i) =>
              \/ inbox[i].to <= work[p].cut[inbox[i].log]
              \/ at[p] # "folds" /\ inbox[i] \in work[p].batch \ work[p].out

\* Between dreams nothing past the watermark was filed.
FiledBehind ==
    (\A p \in Processes : at[p] \notin Dreams) =>
        \A i \in DOMAIN filed : i > consumed => filed[i] = 0

\* In a dream nothing past its end was, nor what it has still to file.
GroupsAhead(p) ==
    at[p] \in Dreams =>
        /\ \A i \in DOMAIN filed :
              i > work[p].end \/ i \in work[p].todo \/ (at[p] = "turn" /\ i \in work[p].group)
              => filed[i] = 0
        /\ \A i \in work[p].todo : i <= work[p].end
        /\ at[p] = "turn" =>
              /\ \A i \in work[p].group : i <= work[p].end
              /\ work[p].group \cap work[p].todo = {}

SeenInv == SeenOnce /\ InboxBehind /\ \A p \in Processes : BatchAhead(p)

FiledInv ==
    /\ \A i \in DOMAIN filed : filed[i] <= 1
    /\ FiledBehind
    /\ \A p \in Processes : GroupsAhead(p)

OnceInv ==
    /\ OneInAPass /\ faults \in Nat
    /\ faults = 0 => SeenInv /\ FiledInv /\ \A l \in Logs : cut[l] <= chat[l]

LEMMA Alone ==
    ASSUME OneInAPass, NEW p \in Processes, NEW q \in Processes, at[p] # "rest", q # p
    PROVE  at[q] = "rest"
BY DEF OneInAPass

\* Whoever lets go was the only one in a pass.
LEMMA NoneAfter ==
    ASSUME ObsTypes, OneInAPass, NEW p \in Processes, at[p] # "rest", LetGo(p)
    PROVE  \A q \in Processes : at'[q] = "rest"
BY Alone DEF LetGo, ObsTypes

LEMMA SawType ==
    ASSUME ObsTypes, NEW i, SawAt(i)
    PROVE  inbox[i] \in SawPieces /\ i \in 1..Len(inbox)
<1>1. i \in 1..Len(inbox) /\ inbox[i] \in Piece
    BY DEF ObsTypes, SawAt
<1> QED BY <1>1 DEF SawAt, Piece, Newline, SawPieces

\* Newlines and what the tool writes observe no line.
LEMMA SawStays ==
    ASSUME ObsTypes,
           inbox' = inbox \/ \E piece \in Piece : piece.kind # "saw" /\ Write(piece)
    PROVE  \A i : /\ SawAt(i)' <=> SawAt(i)
                  /\ SawAt(i) => inbox'[i] = inbox[i]
<1>1. CASE inbox' = inbox
    BY <1>1 DEF SawAt
<1>2. ASSUME NEW piece \in Piece, piece.kind # "saw", Write(piece), NEW i
      PROVE  /\ SawAt(i)' <=> SawAt(i)
             /\ SawAt(i) => inbox'[i] = inbox[i]
    <2>1. Len(inbox) \in Nat /\ Len(inbox') = Len(inbox) + 1 /\ inbox' \in Seq(Piece) /\ inbox \in Seq(Piece)
        BY <1>2, WriteKeeps DEF ObsTypes
    <2>2. DOMAIN inbox' = 1..(Len(inbox) + 1) /\ DOMAIN inbox = 1..Len(inbox)
        BY <2>1
    <2>3. inbox'[Len(inbox) + 1] = piece /\ \A k \in 1..Len(inbox) : inbox'[k] = inbox[k]
        BY <1>2, <2>1, WriteKeeps
    <2>4. i \in DOMAIN inbox' <=> (i \in DOMAIN inbox \/ i = Len(inbox) + 1)
        BY <2>1, <2>2
    <2>5. Len(inbox) + 1 \notin DOMAIN inbox
        BY <2>1, <2>2
    <2> QED BY <1>2, <2>2, <2>3, <2>4, <2>5 DEF SawAt
<1> QED BY <1>1, <1>2

\* Steps that touch neither what is observed nor a capture's batch.
LEMMA SeenFrame ==
    ASSUME ObsInv, ObsInv', SeenInv, cut' = cut,
           inbox' = inbox \/ \E piece \in Piece : piece.kind # "saw" /\ Write(piece),
           \A l \in Logs : chat[l] <= chat'[l],
           \A p \in Processes :
              /\ at'[p] \in Captures <=> at[p] \in Captures
              /\ at[p] \in Captures =>
                    /\ work'[p] = work[p]
                    /\ at'[p] = "folds" <=> at[p] = "folds"
    PROVE  SeenInv'
<1>1. \A i : /\ SawAt(i)' <=> SawAt(i)
             /\ SawAt(i) => inbox'[i] = inbox[i]
    BY SawStays DEF ObsInv
<1>2. \A i : SawAt(i) => inbox[i] \in SawPieces
    BY SawType DEF ObsInv
<1>3. SeenOnce'
    <2>1. ASSUME NEW l \in Logs, NEW n \in Nat, NEW i \in SeenOf(l, n)'
          PROVE  i \in SeenOf(l, n)
        BY <1>1, <2>1 DEF SeenOf, SawAt, Covers
    <2> QED BY <2>1 DEF SeenInv, SeenOnce
<1>4. InboxBehind'
    <2> SUFFICES ASSUME \A p \in Processes : at'[p] \notin Captures, NEW i, SawAt(i)'
                 PROVE  inbox'[i].to <= cut'[inbox'[i].log]
        BY DEF InboxBehind, SawAt
    <2> QED BY <1>1 DEF SeenInv, InboxBehind, SawAt
<1>5. ASSUME NEW p \in Processes
      PROVE  BatchAhead(p)'
    <2> SUFFICES ASSUME at'[p] \in Captures PROVE BatchAhead(p)'
        BY DEF BatchAhead
    <2>1. BatchAhead(p) /\ at[p] \in Captures /\ work'[p] = work[p] /\ (at'[p] = "folds" <=> at[p] = "folds")
        BY DEF SeenInv
    <2>2. /\ \A l \in Logs : work[p].cut[l] <= chat[l]
          /\ \A o \in work[p].batch : o.from <= o.to /\ o.to <= chat[o.log] /\ o.log \notin work[p].unread
          /\ \A o, x \in work[p].batch : o.log = x.log => o = x
          /\ at[p] # "folds" => work[p].out \subseteq work[p].batch
        BY <2>1 DEF BatchAhead
    <2>3. \A l \in Logs : chat[l] \in Nat /\ chat'[l] \in Nat
        BY DEF ObsInv, ObsTypes
    <2>4. \A o \in work[p].batch : o.log \in Logs /\ o.to \in Nat
        BY DEF ObsInv, ObsTypes, Work, SawPieces
    <2>5. \A o \in work[p].batch : o.to <= chat'[o.log]
        BY <2>2, <2>3, <2>4
    <2>6. work[p].cut \in [Logs -> Nat]
        BY <2>1 DEF Captures, ObsInv, PassInv, CaptureInv
    <2>7. \A l \in Logs : work'[p].cut[l] <= chat'[l]
        BY <2>1, <2>2, <2>3, <2>6
    <2>8. \A i \in DOMAIN inbox' : SawAt(i)' =>
              \/ inbox'[i].to <= work[p].cut[inbox'[i].log]
              \/ at[p] # "folds" /\ inbox'[i] \in work[p].batch \ work[p].out
        BY <1>1, <2>1 DEF BatchAhead, SawAt
    <2> QED BY <2>1, <2>2, <2>5, <2>7, <2>8 DEF BatchAhead
<1> QED BY <1>3, <1>4, <1>5 DEF SeenInv

\* Steps that neither file nor move a watermark or a dream's groups.
LEMMA FiledFrame ==
    ASSUME ObsInv, FiledInv, consumed' = consumed,
           filed' = filed \/ \E piece \in Piece : Write(piece),
           \A p \in Processes :
              /\ at'[p] \in Dreams <=> at[p] \in Dreams
              /\ at[p] \in Dreams => work'[p] = work[p] /\ (at'[p] = "turn" => at[p] = "turn")
    PROVE  FiledInv'
<1>1. \A i \in DOMAIN filed' : \/ i \in DOMAIN filed /\ filed'[i] = filed[i]
                               \/ filed'[i] = 0
    <2>1. CASE filed' = filed
        BY <2>1
    <2>2. ASSUME NEW piece \in Piece, Write(piece)
          PROVE  \A i \in DOMAIN filed' : \/ i \in DOMAIN filed /\ filed'[i] = filed[i]
                                          \/ filed'[i] = 0
        BY <2>2 DEF Write, ObsInv, ObsTypes
    <2> QED BY <2>1, <2>2
<1>2. \A i \in DOMAIN filed' : filed'[i] <= 1
    BY <1>1 DEF FiledInv
<1>3. FiledBehind'
    BY <1>1 DEF FiledInv, FiledBehind
<1>4. ASSUME NEW p \in Processes
      PROVE  GroupsAhead(p)'
    BY <1>1 DEF FiledInv, GroupsAhead
<1> QED BY <1>2, <1>3, <1>4 DEF FiledInv

LEMMA ReadBacklogOnce ==
    ASSUME ObsInv, OneInAPass, FiledInv, NEW p \in Processes, ReadBacklog(p), Pending # {}
    PROVE  FiledInv'
<1>1. PICK last \in Pending :
        work' = [work EXCEPT ![p] = [NoWork EXCEPT !.todo = UpTo(last), !.end = last]]
    BY DEF ReadBacklog
<1>2. at[p] = "dream" /\ at' = [at EXCEPT ![p] = "groups"] /\ UNCHANGED << inbox, consumed, filed >>
    BY DEF ReadBacklog
<1>3. PICK batch : batch = UpTo(last)
    OBVIOUS
<1> DEFINE w == [NoWork EXCEPT !.todo = batch, !.end = last]
<1>4. w.todo = batch /\ w.end = last
    BY DEF NoWork
<1>5. work' = [work EXCEPT ![p] = w]
    BY <1>1, <1>3
<1> HIDE DEF w
<1>6. at'[p] = "groups" /\ work'[p] = w
    BY <1>2, <1>5 DEF ObsInv, ObsTypes
<1>7. \A q \in Processes : at[q] \notin Dreams
    BY <1>2, Alone DEF Dreams
<1>8. \A q \in Processes : q # p => at'[q] \notin Dreams
    BY <1>2, <1>7 DEF ObsInv, ObsTypes
<1>9. \A i \in DOMAIN filed : i > consumed => filed[i] = 0
    BY <1>7 DEF FiledInv, FiledBehind
<1>10. consumed \in Nat /\ last \in Nat /\ last > consumed /\ DOMAIN filed \subseteq Nat
    BY DEF Pending, LineEnds, ObsInv, ObsTypes
<1>11. \A i \in DOMAIN filed : i > last => filed[i] = 0
    BY <1>9, <1>10
<1>12. \A i \in DOMAIN filed : i \in batch => filed[i] = 0
    BY <1>3, <1>9 DEF UpTo, Pending
<1>13. \A i \in batch : i <= last
    BY <1>3 DEF UpTo
<1>14. GroupsAhead(p)'
    BY <1>2, <1>4, <1>6, <1>11, <1>12, <1>13 DEF GroupsAhead
<1>15. \A q \in Processes : GroupsAhead(q)'
    BY <1>8, <1>14 DEF GroupsAhead
<1> QED BY <1>2, <1>6, <1>15 DEF FiledInv, FiledBehind, Dreams

LEMMA StartGroupOnce ==
    ASSUME ObsInv, OneInAPass, FiledInv, NEW p \in Processes, StartGroup(p)
    PROVE  FiledInv'
<1>1. PICK i \in work[p].todo :
        LET group == {j \in work[p].todo : TargetOf(j) = TargetOf(i)}
        IN  work' = [work EXCEPT ![p].todo = @ \ group, ![p].group = group]
    BY DEF StartGroup
<1> DEFINE group == {j \in work[p].todo : TargetOf(j) = TargetOf(i)}
<1>2. work' = [work EXCEPT ![p].todo = @ \ group, ![p].group = group]
    BY <1>1
<1>3. group \subseteq work[p].todo
    OBVIOUS
<1>4. at[p] = "groups" /\ at' = [at EXCEPT ![p] = "turn"] /\ UNCHANGED << consumed, filed >>
    BY DEF StartGroup
<1> HIDE DEF group
<1>5. /\ work'[p].todo = work[p].todo \ group /\ work'[p].group = group
      /\ work'[p].end = work[p].end /\ at'[p] = "turn"
    BY <1>2, <1>4 DEF ObsInv, ObsTypes, Work
<1>6. \A q \in Processes : q # p => at'[q] = at[q] /\ at[q] \notin Dreams
    BY <1>4, Alone DEF Dreams, ObsInv, ObsTypes
<1>7. /\ \A k \in DOMAIN filed : k > work[p].end \/ k \in work[p].todo => filed[k] = 0
      /\ \A k \in work[p].todo : k <= work[p].end
    BY <1>4 DEF FiledInv, GroupsAhead, Dreams
<1>8. GroupsAhead(p)'
    BY <1>3, <1>4, <1>5, <1>7 DEF GroupsAhead
<1>9. \A q \in Processes : GroupsAhead(q)'
    BY <1>6, <1>8 DEF GroupsAhead
<1> QED BY <1>4, <1>5, <1>9 DEF FiledInv, FiledBehind, Dreams

LEMMA TurnFilesOnce ==
    ASSUME ObsInv, OneInAPass, FiledInv, NEW p \in Processes, TurnFiles(p)
    PROVE  FiledInv'
<1>1. /\ at[p] = "turn" /\ at' = [at EXCEPT ![p] = "filed"] /\ UNCHANGED << consumed, work >>
      /\ filed' = [i \in DOMAIN filed |-> filed[i] + IF i \in work[p].group THEN 1 ELSE 0]
    BY DEF TurnFiles
<1>2. at'[p] = "filed" /\ \A q \in Processes : q # p => at'[q] = at[q] /\ at[q] \notin Dreams
    BY <1>1, Alone DEF Dreams, ObsInv, ObsTypes
<1>3. /\ \A i \in DOMAIN filed :
            i > work[p].end \/ i \in work[p].todo \/ i \in work[p].group => filed[i] = 0
      /\ \A i \in work[p].todo : i <= work[p].end
      /\ \A i \in work[p].group : i <= work[p].end
      /\ work[p].group \cap work[p].todo = {}
    BY <1>1 DEF FiledInv, GroupsAhead, Dreams
<1>4. DOMAIN filed \subseteq Nat /\ work[p].end \in Nat /\ \A i \in DOMAIN filed : filed[i] \in Nat
    BY DEF ObsInv, ObsTypes, Work
<1>5. \A i \in DOMAIN filed :
        /\ i \in work[p].group => filed'[i] = 1
        /\ i \notin work[p].group => filed'[i] = filed[i]
    BY <1>1, <1>3, <1>4
<1>6. DOMAIN filed' = DOMAIN filed
    BY <1>1
<1>7. \A i \in DOMAIN filed' : filed'[i] <= 1
    BY <1>5, <1>6 DEF FiledInv
<1>8. \A i \in DOMAIN filed : i > work[p].end => i \notin work[p].group
    BY <1>3, <1>4
<1>9. GroupsAhead(p)'
    BY <1>1, <1>2, <1>3, <1>5, <1>6, <1>8 DEF GroupsAhead
<1>10. \A q \in Processes : GroupsAhead(q)'
    BY <1>2, <1>9 DEF GroupsAhead
<1> QED BY <1>2, <1>7, <1>10 DEF FiledInv, FiledBehind, Dreams

LEMMA AdvanceOnce ==
    ASSUME ObsInv, OneInAPass, FiledInv, NEW p \in Processes, Advance(p)
    PROVE  FiledInv'
<1>1. /\ at[p] = "groups" /\ consumed' = work[p].end /\ LetGo(p) /\ filed' = filed
    BY DEF Advance
<1>2. \A q \in Processes : at'[q] = "rest"
    BY <1>1, NoneAfter DEF ObsInv
<1>3. \A i \in DOMAIN filed : i > work[p].end => filed[i] = 0
    BY <1>1 DEF FiledInv, GroupsAhead, Dreams
<1> QED BY <1>1, <1>2, <1>3 DEF FiledInv, FiledBehind, GroupsAhead, Dreams

LEMMA ReadStateOnce ==
    ASSUME ObsInv, ObsInv', OneInAPass, SeenInv, \A l \in Logs : cut[l] <= chat[l],
           NEW p \in Processes, ReadState(p), Unread # {}
    PROVE  SeenInv'
<1> DEFINE w == [NoWork EXCEPT !.cut = cut, !.unread = Unread]
<1>1. w.cut = cut /\ w.batch = {}
    BY DEF NoWork
<1>2. /\ at[p] = "capture" /\ at' = [at EXCEPT ![p] = "folds"] /\ work' = [work EXCEPT ![p] = w]
      /\ UNCHANGED << chat, cut, inbox >>
    BY DEF ReadState
<1> HIDE DEF w
<1>3. at'[p] = "folds" /\ work'[p] = w
    BY <1>2 DEF ObsInv, ObsTypes
<1>4. \A q \in Processes : at[q] \notin Captures
    BY <1>2, Alone DEF Captures
<1>5. \A q \in Processes : q # p => at'[q] \notin Captures
    BY <1>2, <1>4 DEF ObsInv, ObsTypes
<1>6. \A i : /\ SawAt(i)' <=> SawAt(i)
             /\ SawAt(i) => inbox'[i] = inbox[i]
    BY <1>2, SawStays DEF ObsInv
<1>7. SeenOnce' /\ InboxBehind'
    BY <1>2, <1>3 DEF SeenInv, SeenOnce, SeenOf, InboxBehind, Captures
<1>8. BatchAhead(p)'
    BY <1>1, <1>2, <1>3, <1>4, <1>6 DEF BatchAhead, SeenInv, InboxBehind
<1>9. \A q \in Processes : BatchAhead(q)'
    BY <1>5, <1>8 DEF BatchAhead
<1> QED BY <1>7, <1>9 DEF SeenInv

LEMMA FoldOnce ==
    ASSUME ObsInv, ObsInv', OneInAPass, SeenInv,
           NEW p \in Processes, NEW l \in Logs, Fold(p, l) \/ Defer(p, l)
    PROVE  SeenInv'
<1>0. PICK to \in Nat :
        /\ work[p].cut[l] <= to /\ to <= chat[l]
        /\ \/ work' = [work EXCEPT ![p].unread = @ \ {l},
                                   ![p].batch = @ \cup {Saw(l, work[p].cut[l], to)}]
           \/ Defer(p, l)
    <2>1. chat[l] \in Nat /\ work[p].cut[l] \in Nat /\ work[p].cut[l] <= chat[l]
        BY DEF Fold, Defer, ObsInv, ObsTypes, PassInv, CaptureInv, SeenInv, BatchAhead, Captures
    <2>2. CASE Defer(p, l)
        BY <2>1, <2>2
    <2>3. CASE Fold(p, l)
        <3>1. PICK to \in (work[p].cut[l] + 1)..chat[l] :
                work' = [work EXCEPT ![p].unread = @ \ {l},
                                     ![p].batch = @ \cup {Saw(l, work[p].cut[l], to)}]
            BY <2>3 DEF Fold
        <3>2. to \in Nat /\ work[p].cut[l] <= to /\ to <= chat[l]
            BY <2>1
        <3> QED BY <3>1, <3>2
    <2> QED BY <2>2, <2>3
<1>1. PICK o : o = Saw(l, work[p].cut[l], to)
    OBVIOUS
<1>2. /\ at[p] = "folds" /\ l \in work[p].unread /\ UNCHANGED << chat, cut, inbox, at >>
      /\ at \in [Processes -> PassStages] /\ work \in [Processes -> Work]
    BY DEF Fold, Defer, ObsInv, ObsTypes
<1>3. /\ work[p].cut \in [Logs -> Nat] /\ chat \in [Logs -> Nat]
      /\ work[p].cut[l] <= chat[l] /\ BatchAhead(p)
    BY <1>2 DEF ObsInv, ObsTypes, PassInv, CaptureInv, SeenInv, BatchAhead, Captures
<1>4. o.log = l /\ o.from <= o.to /\ o.to <= chat[o.log]
    BY <1>0, <1>1, <1>3 DEF Saw
<1>5. /\ work'[p].cut = work[p].cut /\ work'[p].unread = work[p].unread \ {l}
      /\ work'[p].batch \subseteq work[p].batch \cup {o}
    <2>1. CASE work' = [work EXCEPT ![p].unread = @ \ {l}, ![p].batch = @ \cup {o}]
        BY <1>2, <2>1 DEF Work
    <2>2. CASE Defer(p, l)
        BY <1>2, <2>2 DEF Defer, Work
    <2> QED BY <1>0, <1>1, <2>1, <2>2
<1>6. \A q \in Processes : q # p => at[q] \notin Captures
    BY <1>2, Alone DEF Captures
<1>7. SeenOnce' /\ InboxBehind'
    BY <1>2 DEF SeenInv, SeenOnce, SeenOf, InboxBehind, SawAt
<1>8. BatchAhead(p)'
    <2>1. \A x \in work'[p].batch : x.from <= x.to /\ x.to <= chat'[x.log] /\ x.log \notin work'[p].unread
        BY <1>2, <1>3, <1>4, <1>5 DEF BatchAhead, Captures
    <2>2. \A x, y \in work'[p].batch : x.log = y.log => x = y
        BY <1>2, <1>3, <1>4, <1>5 DEF BatchAhead, Captures
    <2>3. \A i \in DOMAIN inbox : SawAt(i) => inbox[i].to <= work[p].cut[inbox[i].log]
        BY <1>2, <1>3 DEF BatchAhead, Captures
    <2>4. \A i \in DOMAIN inbox' : SawAt(i)' => inbox'[i].to <= work'[p].cut[inbox'[i].log]
        BY <1>2, <1>5, <2>3 DEF SawAt
    <2>5. \A k \in Logs : work'[p].cut[k] <= chat'[k]
        BY <1>2, <1>3, <1>5 DEF BatchAhead, Captures
    <2>6. at'[p] = "folds"
        BY <1>2
    <2> QED BY <2>1, <2>2, <2>4, <2>5, <2>6 DEF BatchAhead
<1>9. \A q \in Processes : BatchAhead(q)'
    BY <1>2, <1>6, <1>8 DEF BatchAhead
<1> QED BY <1>7, <1>9 DEF SeenInv

LEMMA AskedOnce ==
    ASSUME ObsInv, ObsInv', OneInAPass, SeenInv, NEW p \in Processes, Asked(p)
    PROVE  SeenInv'
<1>1. /\ at[p] = "folds" /\ UNCHANGED << chat, cut, inbox >>
      /\ at' = [at EXCEPT ![p] = "appends"]
      /\ at \in [Processes -> PassStages] /\ work \in [Processes -> Work]
      /\ work' = [work EXCEPT ![p].out = work[p].batch]
    BY DEF Asked, ObsInv, ObsTypes
<1>2. /\ work'[p].cut = work[p].cut /\ work'[p].unread = work[p].unread
      /\ work'[p].batch = work[p].batch /\ work'[p].out = work[p].batch
    BY <1>1 DEF Work
<1>3. at'[p] = "appends" /\ \A q \in Processes : q # p => at'[q] = at[q] /\ at[q] \notin Captures
    BY <1>1, Alone DEF Captures
<1>4. SeenOnce' /\ InboxBehind'
    BY <1>1, <1>3 DEF SeenInv, SeenOnce, SeenOf, InboxBehind, SawAt, Captures
<1>5. BatchAhead(p)'
    <2>1. /\ \A l \in Logs : work[p].cut[l] <= chat[l]
          /\ \A o \in work[p].batch : o.from <= o.to /\ o.to <= chat[o.log] /\ o.log \notin work[p].unread
          /\ \A o, x \in work[p].batch : o.log = x.log => o = x
          /\ \A i \in DOMAIN inbox : SawAt(i) => inbox[i].to <= work[p].cut[inbox[i].log]
        BY <1>1 DEF SeenInv, BatchAhead, Captures
    <2>2. \A i \in DOMAIN inbox' : SawAt(i)' => inbox'[i].to <= work'[p].cut[inbox'[i].log]
        BY <1>1, <1>2, <2>1 DEF SawAt
    <2> QED BY <1>1, <1>2, <2>1, <2>2 DEF BatchAhead
<1>6. \A q \in Processes : BatchAhead(q)'
    BY <1>3, <1>5 DEF BatchAhead
<1> QED BY <1>4, <1>6 DEF SeenInv

LEMMA AppendOnce ==
    ASSUME ObsInv, ObsInv', OneInAPass, SeenInv, NEW p \in Processes, AppendLine(p)
    PROVE  SeenInv'
<1>1. PICK o \in work[p].out :
        /\ at[p] = "appends" /\ UNCHANGED << chat, cut >>
        /\ Write(o)
        /\ work' = [work EXCEPT ![p].out = @ \ {o}]
        /\ at' = [at EXCEPT ![p] = "newline"]
    BY DEF AppendLine
<1>2. o \in SawPieces /\ o \in Piece
    BY DEF ObsInv, ObsTypes, Work, Piece
<1>3. /\ work'[p].cut = work[p].cut /\ work'[p].unread = work[p].unread
      /\ work'[p].batch = work[p].batch /\ work'[p].out = work[p].out \ {o}
      /\ at'[p] = "newline"
    BY <1>1 DEF ObsInv, ObsTypes, Work
<1>4. \A q \in Processes : q # p => at'[q] = at[q] /\ at[q] \notin Captures
    BY <1>1, Alone DEF ObsInv, ObsTypes, Captures
<1> DEFINE new == Len(inbox) + 1
<1>5. /\ Len(inbox) \in Nat /\ DOMAIN inbox = 1..Len(inbox) /\ DOMAIN inbox' = 1..new
      /\ inbox'[new] = o /\ \A i \in 1..Len(inbox) : inbox'[i] = inbox[i]
    <2>1. Len(inbox) \in Nat /\ DOMAIN inbox = 1..Len(inbox)
        BY DEF ObsInv, ObsTypes
    <2>2. /\ inbox' \in Seq(Piece) /\ Len(inbox') = Len(inbox) + 1 /\ inbox'[Len(inbox')] = o
          /\ \A i \in 1..Len(inbox) : inbox'[i] = inbox[i]
        BY <1>1, <1>2, WriteKeeps DEF ObsInv
    <2> QED BY <2>1, <2>2
<1>6. new \notin DOMAIN inbox /\ \A i \in DOMAIN inbox' : i \in DOMAIN inbox \/ i = new
    BY <1>5
<1> HIDE DEF new
<1>7. /\ \A l \in Logs : work[p].cut[l] <= chat[l]
      /\ \A x \in work[p].batch : x.from <= x.to /\ x.to <= chat[x.log] /\ x.log \notin work[p].unread
      /\ \A y, x \in work[p].batch : y.log = x.log => y = x
      /\ work[p].out \subseteq work[p].batch
      /\ \A i \in DOMAIN inbox : SawAt(i) =>
            \/ inbox[i].to <= work[p].cut[inbox[i].log]
            \/ inbox[i] \in work[p].batch \ work[p].out
    BY <1>1 DEF SeenInv, BatchAhead, Captures
<1>8. o.from = work[p].cut[o.log] /\ work[p].cut \in [Logs -> Nat]
    BY <1>1, <1>7 DEF ObsInv, PassInv, CaptureInv
\* What is there of the same log is behind this one.
<1>9. ASSUME NEW i \in DOMAIN inbox, NEW l \in Logs, NEW n \in Nat,
             Covers(inbox[i], l, n), Covers(o, l, n)
      PROVE  FALSE
    <2>1. SawAt(i) /\ inbox[i] \in SawPieces /\ inbox[i].log = o.log
        BY <1>9, SawType DEF Covers, SawAt, ObsInv
    <2>2. inbox[i] \notin work[p].batch \ work[p].out
        BY <1>7, <2>1
    <2>3. inbox[i].to <= work[p].cut[o.log] /\ o.from < n /\ n <= inbox[i].to
        BY <1>7, <1>9, <2>1, <2>2 DEF Covers
    <2> QED BY <1>2, <1>8, <2>1, <2>3 DEF SawPieces
<1>10. SeenOnce'
    <2> SUFFICES ASSUME NEW l \in Logs, NEW n \in Nat, NEW i \in DOMAIN inbox', NEW j \in DOMAIN inbox',
                        Covers(inbox'[i], l, n), Covers(inbox'[j], l, n)
                 PROVE  i = j
        BY DEF SeenOnce, SeenOf
    <2>1. CASE i \in DOMAIN inbox /\ j \in DOMAIN inbox
        BY <1>5, <2>1 DEF SeenInv, SeenOnce, SeenOf
    <2>2. CASE i \in DOMAIN inbox /\ j = new
        BY <1>5, <1>9, <2>2
    <2>3. CASE i = new /\ j \in DOMAIN inbox
        BY <1>5, <1>9, <2>3
    <2> QED BY <1>6, <2>1, <2>2, <2>3
<1>11. InboxBehind'
    BY <1>3 DEF InboxBehind, Captures
<1>12. BatchAhead(p)'
    <2>1. ASSUME NEW i \in DOMAIN inbox', SawAt(i)'
          PROVE  \/ inbox'[i].to <= work[p].cut[inbox'[i].log]
                 \/ inbox'[i] \in work[p].batch \ (work[p].out \ {o})
        <3>1. CASE i \in DOMAIN inbox
            BY <1>5, <1>7, <2>1, <3>1 DEF SawAt
        <3>2. CASE i = new
            BY <1>5, <1>7, <3>2
        <3> QED BY <1>6, <3>1, <3>2
    <2> QED BY <1>1, <1>3, <1>7, <2>1 DEF BatchAhead
<1>13. \A q \in Processes : BatchAhead(q)'
    BY <1>4, <1>12 DEF BatchAhead
<1> QED BY <1>10, <1>11, <1>13 DEF SeenInv

LEMMA WriteStateOnce ==
    ASSUME ObsInv, ObsInv', OneInAPass, SeenInv, NEW p \in Processes, WriteState(p)
    PROVE  SeenInv' /\ \A l \in Logs : cut'[l] <= chat'[l]
<1>0. PICK new : new = Captured(p)
    OBVIOUS
<1>1. /\ at[p] = "appends" /\ work[p].out = {} /\ UNCHANGED << chat, inbox >> /\ cut' = new
      /\ at' = [at EXCEPT ![p] = "folds"]
      /\ work' = [work EXCEPT ![p].cut = new, ![p].batch = {}]
    BY <1>0 DEF WriteState
<1>2. work'[p].cut = new /\ work'[p].batch = {} /\ at'[p] = "folds"
    BY <1>1 DEF ObsInv, ObsTypes, Work
<1>3. \A q \in Processes : q # p => at'[q] = at[q] /\ at[q] \notin Captures
    BY <1>1, Alone DEF ObsInv, ObsTypes, Captures
<1>4. /\ \A l \in Logs : work[p].cut[l] <= chat[l]
      /\ \A o \in work[p].batch : o.from <= o.to /\ o.to <= chat[o.log]
      /\ \A o, x \in work[p].batch : o.log = x.log => o = x
      /\ \A i \in DOMAIN inbox : SawAt(i) =>
            \/ inbox[i].to <= work[p].cut[inbox[i].log]
            \/ inbox[i] \in work[p].batch
    BY <1>1 DEF SeenInv, BatchAhead, Captures
<1>5. /\ \A o \in work[p].batch : o.from = work[p].cut[o.log]
      /\ work[p].batch \subseteq SawPieces /\ work[p].cut \in [Logs -> Nat] /\ chat \in [Logs -> Nat]
    BY <1>1 DEF ObsInv, ObsTypes, Work, PassInv, CaptureInv
\* The watermark of a log moves to where its observation ends.
<1>6. ASSUME NEW l \in Logs
      PROVE  /\ new[l] \in Nat /\ work[p].cut[l] <= new[l] /\ new[l] <= chat[l]
             /\ \A o \in work[p].batch : o.log = l => new[l] = o.to
    <2> DEFINE here == {o \in work[p].batch : o.log = l}
               x == CHOOSE o \in here : TRUE
    <2>1. new[l] = IF here = {} THEN work[p].cut[l] ELSE x.to
        BY <1>0 DEF Captured
    <2>2. CASE here = {}
        BY <1>4, <1>5, <2>1, <2>2
    <2>3. CASE here # {}
        <3>1. x \in here
            BY <2>3
        <3>2. \A o \in here : o = x
            BY <1>4, <3>1
        <3> HIDE DEF x
        <3>3. x \in work[p].batch /\ x.log = l
            BY <3>1
        <3>4. x.to \in Nat /\ x.from = work[p].cut[l] /\ x.from <= x.to /\ x.to <= chat[l]
            BY <1>4, <1>5, <3>3 DEF SawPieces
        <3> QED BY <2>1, <2>3, <3>2, <3>4
    <2> QED BY <2>2, <2>3
<1>7. \A i \in DOMAIN inbox : SawAt(i) => inbox[i].to <= new[inbox[i].log]
    <2> SUFFICES ASSUME NEW i \in DOMAIN inbox, SawAt(i)
                 PROVE  inbox[i].to <= new[inbox[i].log]
        OBVIOUS
    <2>1. inbox[i].log \in Logs /\ inbox[i].to \in Nat
        BY SawType DEF ObsInv, SawPieces
    <2>2. CASE inbox[i].to <= work[p].cut[inbox[i].log]
        BY <1>5, <1>6, <2>1, <2>2
    <2>3. CASE inbox[i] \in work[p].batch
        BY <1>6, <2>1, <2>3
    <2> QED BY <1>4, <2>2, <2>3
<1>8. SeenOnce' /\ InboxBehind'
    BY <1>1, <1>2 DEF SeenInv, SeenOnce, SeenOf, InboxBehind, Captures
<1>9. BatchAhead(p)'
    <2>1. \A i \in DOMAIN inbox' : SawAt(i)' => inbox'[i].to <= new[inbox'[i].log]
        BY <1>1, <1>7 DEF SawAt
    <2> QED BY <1>1, <1>2, <1>6, <2>1 DEF BatchAhead
<1>10. \A q \in Processes : BatchAhead(q)'
    BY <1>3, <1>9 DEF BatchAhead
<1> QED BY <1>1, <1>6, <1>8, <1>10 DEF SeenInv

LEMMA CaptureDoneOnce ==
    ASSUME ObsInv, ObsInv', OneInAPass, SeenInv, NEW p \in Processes, CaptureDone(p)
    PROVE  SeenInv' /\ \A l \in Logs : cut'[l] <= chat'[l]
<1>1. /\ at[p] = "folds" /\ UNCHANGED << chat, inbox >> /\ cut' = work[p].cut /\ LetGo(p)
    BY DEF CaptureDone
<1>2. \A q \in Processes : at'[q] = "rest"
    BY <1>1, NoneAfter DEF ObsInv
<1>3. /\ \A l \in Logs : work[p].cut[l] <= chat[l]
      /\ \A i \in DOMAIN inbox : SawAt(i) => inbox[i].to <= work[p].cut[inbox[i].log]
    BY <1>1 DEF SeenInv, BatchAhead, Captures
<1>4. InboxBehind'
    BY <1>1, <1>3 DEF InboxBehind, SawAt
<1>5. SeenOnce'
    BY <1>1 DEF SeenInv, SeenOnce, SeenOf
<1>6. \A q \in Processes : BatchAhead(q)'
    BY <1>2 DEF BatchAhead, Captures
<1> QED BY <1>1, <1>3, <1>4, <1>5, <1>6 DEF SeenInv

LEMMA OnceStart == Init => OnceInv
<1> SUFFICES ASSUME ObsInit, faults = 0 PROVE OnceInv
    BY DEF Init
<1>1. inbox = << >> /\ filed = << >> /\ DOMAIN inbox = {} /\ DOMAIN filed = {}
    BY DEF ObsInit
<1>2. \A p \in Processes : at[p] = "rest"
    BY DEF ObsInit
<1>3. SeenInv
    BY <1>1, <1>2 DEF SeenInv, SeenOnce, SeenOf, InboxBehind, BatchAhead, Captures
<1>4. FiledInv
    BY <1>1, <1>2 DEF FiledInv, FiledBehind, GroupsAhead, Dreams
<1>5. \A l \in Logs : cut[l] <= chat[l]
    BY DEF ObsInit
<1> QED BY <1>2, <1>3, <1>4, <1>5 DEF OnceInv, OneInAPass

\* One process takes the lock when no one is in a pass, and keeps it until it
\* lets go.
LEMMA HoldsAlone ==
    ASSUME ObsInv, OneInAPass,
           \/ UNCHANGED << lock, at >>
           \/ \E p \in Processes, kind \in {"capture", "dream"} : Take(p, kind)
           \/ \E p \in Processes : at[p] # "rest" /\ LetGo(p)
           \/ \E p \in Processes, s \in PassStages : at[p] # "rest" /\ lock' = lock /\ at' = [at EXCEPT ![p] = s]
    PROVE  OneInAPass'
<1>1. CASE UNCHANGED << lock, at >>
    BY <1>1 DEF OneInAPass
<1>2. ASSUME NEW p \in Processes, NEW kind \in {"capture", "dream"}, Take(p, kind)
      PROVE  OneInAPass'
    BY <1>2, MemoryAssumption DEF Take, LockFree, OneInAPass, ObsInv, ObsTypes
<1>3. ASSUME NEW p \in Processes, at[p] # "rest", LetGo(p)
      PROVE  OneInAPass'
    BY <1>3, NoneAfter DEF OneInAPass, ObsInv
<1>4. ASSUME NEW p \in Processes, NEW s \in PassStages, at[p] # "rest", lock' = lock,
             at' = [at EXCEPT ![p] = s]
      PROVE  OneInAPass'
    BY <1>4 DEF OneInAPass, ObsInv, ObsTypes
<1> QED BY <1>1, <1>2, <1>3, <1>4

LEMMA PieceKinds ==
    /\ Newline \in Piece /\ Newline.kind # "saw"
    /\ \A r \in Tools : Told(r) \in Piece /\ Told(r).kind # "saw"
BY DEF Newline, Told, Piece

LEMMA OnceKept ==
    ASSUME ObsInv, ObsInv', OnceInv, [Next]_vars
    PROVE  OnceInv'
<1> USE DEF ObsInv
<1>t. /\ at \in [Processes -> PassStages] /\ work \in [Processes -> Work]
      /\ chat \in [Logs -> Nat] /\ chat' \in [Logs -> Nat] /\ cut \in [Logs -> Nat]
    BY DEF ObsTypes
<1>o. OneInAPass /\ faults \in Nat /\ (faults = 0 => SeenInv /\ FiledInv /\ \A l \in Logs : cut[l] <= chat[l])
    BY DEF OnceInv
<1>1. CASE UNCHANGED obsVars /\ faults' = faults
    <2>1. OneInAPass'
        BY <1>1, <1>o, HoldsAlone DEF obsVars
    <2>2. ASSUME faults = 0
          PROVE  SeenInv' /\ FiledInv' /\ \A l \in Logs : cut'[l] <= chat'[l]
        <3>1. SeenInv'
            BY <1>1, <1>o, <1>t, <2>2, SeenFrame DEF obsVars
        <3>2. FiledInv'
            BY <1>1, <1>o, <2>2, FiledFrame DEF obsVars
        <3> QED BY <1>1, <1>o, <2>2, <3>1, <3>2 DEF obsVars
    <2> QED BY <1>1, <1>o, <2>1, <2>2 DEF OnceInv
<1>2. ASSUME faults' = faults,
             \/ \E l \in Logs : Says(l)
             \/ \E r \in Tools : Remember(r) \/ RememberEnds(r)
             \/ \E p \in Processes : AppendNewline(p)
      PROVE  OnceInv'
    <2>1. /\ cut' = cut /\ consumed' = consumed /\ work' = work /\ lock' = lock
          /\ \/ UNCHANGED at
             \/ \E p \in Processes : at[p] = "newline" /\ at' = [at EXCEPT ![p] = "appends"]
        BY <1>2 DEF Says, Remember, RememberEnds, AppendNewline
    <2>2. \/ inbox' = inbox /\ filed' = filed
          \/ \E piece \in Piece : piece.kind # "saw" /\ Write(piece)
        BY <1>2, PieceKinds DEF Says, Remember, RememberEnds, AppendNewline
    <2>3. \A l \in Logs : chat[l] <= chat'[l]
        BY <1>2, <1>t DEF Says, Remember, RememberEnds, AppendNewline
    <2>4. \A p \in Processes : at'[p] = at[p] \/ (at[p] = "newline" /\ at'[p] = "appends")
        BY <1>t, <2>1
    <2>5. OneInAPass'
        BY <1>o, <2>1, HoldsAlone DEF PassStages
    <2>6. ASSUME faults = 0
          PROVE  SeenInv' /\ FiledInv' /\ \A l \in Logs : cut'[l] <= chat'[l]
        <3>1. \A p \in Processes :
                /\ at'[p] \in Captures <=> at[p] \in Captures
                /\ at'[p] \in Dreams <=> at[p] \in Dreams
                /\ at'[p] = "folds" <=> at[p] = "folds"
                /\ at'[p] = "turn" <=> at[p] = "turn"
            BY <2>4 DEF Captures, Dreams
        <3>2. SeenInv'
            BY <1>o, <2>1, <2>2, <2>3, <2>6, <3>1, SeenFrame
        <3>3. FiledInv'
            BY <1>o, <2>1, <2>2, <2>6, <3>1, FiledFrame
        <3>4. \A l \in Logs : cut'[l] <= chat'[l]
            BY <1>o, <1>t, <2>1, <2>3, <2>6
        <3> QED BY <3>2, <3>3, <3>4
    <2> QED BY <1>2, <1>o, <2>5, <2>6 DEF OnceInv
\* A pass of one kind takes its steps apart from the other's.
<1>3. ASSUME faults' = faults, NEW p \in Processes, NEW kind \in {"capture", "dream"},
             \/ Take(p, kind)
             \/ ReadState(p) /\ Unread = {}
             \/ ReadBacklog(p) /\ Pending = {}
             \/ GroupDone(p)
      PROVE  OnceInv'
    <2>1. UNCHANGED << chat, cut, inbox, consumed, filed >>
        BY <1>3 DEF Take, ReadState, ReadBacklog, GroupDone
    <2>2. \/ Take(p, kind)
          \/ at[p] # "rest" /\ LetGo(p)
          \/ at[p] # "rest" /\ lock' = lock /\ at' = [at EXCEPT ![p] = "groups"]
        BY <1>3 DEF ReadState, ReadBacklog, GroupDone
    <2>3. OneInAPass'
        BY <1>o, <2>2, HoldsAlone DEF PassStages
    <2>4. \/ at[p] \in {"rest", "capture", "dream"} /\ at'[p] \in {"rest", "capture", "dream"}
          \/ at[p] = "filed" /\ at'[p] = "groups" /\ work'[p] = work[p]
        BY <1>3, <1>t DEF Take, ReadState, ReadBacklog, GroupDone, LetGo
    <2>5. \A q \in Processes : q # p => at'[q] = at[q] /\ work'[q] = work[q]
        BY <1>3, <1>t DEF Take, ReadState, ReadBacklog, GroupDone, LetGo
    <2>6. ASSUME faults = 0
          PROVE  SeenInv' /\ FiledInv' /\ \A l \in Logs : cut'[l] <= chat'[l]
        <3>1. \A q \in Processes :
                /\ at'[q] \in Captures <=> at[q] \in Captures
                /\ at'[q] \in Dreams <=> at[q] \in Dreams
                /\ at[q] \in Captures => work'[q] = work[q] /\ (at'[q] = "folds" <=> at[q] = "folds")
                /\ at[q] \in Dreams => work'[q] = work[q] /\ (at'[q] = "turn" => at[q] = "turn")
            BY <2>4, <2>5 DEF Captures, Dreams
        <3>2. SeenInv'
            BY <1>o, <1>t, <2>1, <2>6, <3>1, SeenFrame
        <3>3. FiledInv'
            BY <1>o, <2>1, <2>6, <3>1, FiledFrame
        <3> QED BY <1>o, <2>1, <2>6, <3>2, <3>3
    <2> QED BY <1>3, <1>o, <2>3, <2>6 DEF OnceInv
<1>4. ASSUME faults' = faults, NEW p \in Processes,
             \/ ReadState(p) /\ Unread # {}
             \/ \E l \in Logs : Fold(p, l) \/ Defer(p, l)
             \/ Asked(p) \/ AppendLine(p) \/ WriteState(p) \/ CaptureDone(p)
      PROVE  OnceInv'
    <2>1. /\ at[p] \in {"capture", "folds", "appends"} /\ consumed' = consumed
          /\ filed' = filed \/ \E piece \in Piece : Write(piece)
        <3>1. \A o \in work[p].out : o \in Piece
            BY <1>t DEF Work, Piece
        <3> QED BY <1>4, <3>1 DEF ReadState, Fold, Defer, Asked, AppendLine, WriteState, CaptureDone
    <2>2. \/ UNCHANGED << lock, at >>
          \/ LetGo(p)
          \/ \E s \in {"folds", "appends", "newline"} : lock' = lock /\ at' = [at EXCEPT ![p] = s]
        BY <1>4 DEF ReadState, Fold, Defer, Asked, AppendLine, WriteState, CaptureDone
    <2>3. OneInAPass'
        BY <1>o, <2>1, <2>2, HoldsAlone DEF PassStages
    <2>4. /\ at'[p] \in {"rest", "folds", "appends", "newline", "capture"}
          /\ \A q \in Processes : q # p => at'[q] = at[q]
        BY <1>t, <2>1, <2>2 DEF LetGo
    <2>5. \A q \in Processes : q # p => work'[q] = work[q]
        BY <1>4, <1>t DEF ReadState, Fold, Defer, Asked, AppendLine, WriteState, CaptureDone, LetGo
    <2>6. ASSUME faults = 0
          PROVE  SeenInv' /\ FiledInv' /\ \A l \in Logs : cut'[l] <= chat'[l]
        <3>1. SeenInv'
            BY <1>4, <1>o, <2>6, ReadStateOnce, FoldOnce, AskedOnce, AppendOnce,
               WriteStateOnce, CaptureDoneOnce
        <3>2. \A q \in Processes :
                /\ at'[q] \in Dreams <=> at[q] \in Dreams
                /\ at[q] \in Dreams => work'[q] = work[q] /\ (at'[q] = "turn" => at[q] = "turn")
            BY <2>1, <2>4, <2>5 DEF Dreams
        <3>3. FiledInv'
            BY <1>o, <2>1, <2>6, <3>2, FiledFrame
        <3>4. CASE WriteState(p) \/ CaptureDone(p)
            BY <1>o, <2>6, <3>1, <3>3, <3>4, WriteStateOnce, CaptureDoneOnce
        <3>5. CASE ~(WriteState(p) \/ CaptureDone(p))
            <4>1. cut' = cut /\ chat' = chat
                BY <1>4, <3>5 DEF ReadState, Fold, Defer, Asked, AppendLine
            <4> QED BY <1>o, <2>6, <3>1, <3>3, <4>1
        <3> QED BY <3>4, <3>5
    <2> QED BY <1>4, <1>o, <2>3, <2>6 DEF OnceInv
<1>5. ASSUME faults' = faults, NEW p \in Processes,
             \/ ReadBacklog(p) /\ Pending # {}
             \/ StartGroup(p) \/ TurnFiles(p) \/ Advance(p)
      PROVE  OnceInv'
    <2>1. at[p] \in {"dream", "groups", "turn"} /\ UNCHANGED << chat, cut, inbox >>
        BY <1>5 DEF ReadBacklog, StartGroup, TurnFiles, Advance
    <2>2. \/ LetGo(p)
          \/ \E s \in Dreams : lock' = lock /\ at' = [at EXCEPT ![p] = s]
        BY <1>5 DEF ReadBacklog, StartGroup, TurnFiles, Advance, Dreams
    <2>3. OneInAPass'
        BY <1>o, <2>1, <2>2, HoldsAlone DEF PassStages, Dreams
    <2>4. at'[p] \in {"rest", "groups", "turn", "filed"} /\ \A q \in Processes : q # p => at'[q] = at[q]
        BY <1>t, <2>1, <2>2 DEF LetGo, Dreams
    <2>5. \A q \in Processes : q # p => work'[q] = work[q]
        BY <1>5, <1>t DEF ReadBacklog, StartGroup, TurnFiles, Advance, LetGo
    <2>6. ASSUME faults = 0
          PROVE  SeenInv' /\ FiledInv' /\ \A l \in Logs : cut'[l] <= chat'[l]
        <3>1. FiledInv'
            BY <1>5, <1>o, <2>6, ReadBacklogOnce, StartGroupOnce, TurnFilesOnce, AdvanceOnce
        <3>2. \A q \in Processes :
                /\ at'[q] \in Captures <=> at[q] \in Captures
                /\ at[q] \in Captures => work'[q] = work[q] /\ (at'[q] = "folds" <=> at[q] = "folds")
            BY <2>1, <2>4, <2>5 DEF Captures
        <3>3. SeenInv'
            BY <1>o, <1>t, <2>1, <2>6, <3>2, SeenFrame
        <3> QED BY <1>o, <2>1, <2>6, <3>1, <3>3
    <2> QED BY <1>5, <1>o, <2>3, <2>6 DEF OnceInv
<1>6. ASSUME faults' = faults + 1, NEW p \in Processes, Ends(p)
      PROVE  OnceInv'
    <2>1. OneInAPass'
        BY <1>6, <1>o, HoldsAlone DEF Ends
    <2> QED BY <1>6, <1>o, <2>1 DEF OnceInv
<1>7. CASE He
    <2>1. One(Logs) \in Logs
        BY MemoryAssumption DEF One
    <2> QED BY <1>1, <1>2, <1>7, <2>1 DEF He
<1>8. CASE Tool
    BY <1>2, <1>8 DEF Tool
<1>9. CASE TakeFor("capture") \/ TakeFor("dream")
    <2>1. \E p \in Processes, kind \in {"capture", "dream"} : Take(p, kind)
        BY <1>9, MemoryAssumption DEF TakeFor, One
    <2>2. faults' = faults
        BY <1>9 DEF TakeFor
    <2> QED BY <1>3, <2>1, <2>2
<1>10. CASE Capture
    <2>1. faults' = faults
        BY <1>10 DEF Capture
    <2>2. PICK p \in Processes : CaptureStep(p) \/ \E l \in Logs : Defer(p, l)
        BY <1>10 DEF Capture
    <2> QED BY <1>2, <1>3, <1>4, <2>1, <2>2 DEF CaptureStep
<1>11. CASE Dream
    <2>1. faults' = faults
        BY <1>11 DEF Dream
    <2>2. \/ UNCHANGED obsVars
          \/ \E p \in Processes :
                ReadBacklog(p) \/ TurnFiles(p) \/ Advance(p) \/ StartGroup(p) \/ GroupDone(p)
        BY <1>11 DEF Dream
    <2> QED BY <1>1, <1>3, <1>5, <2>1, <2>2
<1>12. CASE Fault
    BY <1>6, <1>12 DEF Fault
<1>13. CASE UNCHANGED vars
    BY <1>1, <1>13 DEF vars
<1> QED BY <1>7, <1>8, <1>9, <1>10, <1>11, <1>12, <1>13 DEF Next

\* While no pass ends early, a line of a chat is observed once at most and a
\* line of the inbox is filed once at most, however many processes start passes
\* at once and whatever the tool writes between (pass_lock.rs).
THEOREM EachOnce == Spec => []OnceEach
<1>1. ASSUME ObsInv, OnceInv
      PROVE  OnceEach
    <2> SUFFICES ASSUME faults = 0 PROVE OnceEach
        BY DEF OnceEach
    <2>1. ASSUME NEW l \in Logs, NEW n \in 1..chat[l]
          PROVE  Cardinality(SeenOf(l, n)) <= 1
        <3>1. n \in Nat
            BY <1>1 DEF ObsInv, ObsTypes
        <3>2. \A i, j \in SeenOf(l, n) : i = j
            BY <1>1, <3>1 DEF OnceInv, SeenInv, SeenOnce
        <3>3. CASE SeenOf(l, n) = {}
            BY <3>3, FS_EmptySet
        <3>4. CASE SeenOf(l, n) # {}
            <4>1. PICK i : SeenOf(l, n) = {i}
                BY <3>2, <3>4
            <4> QED BY <4>1, FS_Singleton
        <3> QED BY <3>3, <3>4
    <2> QED BY <1>1, <2>1 DEF OnceEach, OnceInv, FiledInv
<1> QED BY <1>1, ObsStart, ObsStep, OnceStart, OnceKept, PTL DEF Spec

=============================================================================
