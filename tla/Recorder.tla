------------------------------ MODULE Recorder ------------------------------
(***************************************************************************)
(* A Claude Code turn written into the session log (agent/record.rs, and   *)
(* agent_turn.rs where it starts and ends the recorder).  The CLI's stream *)
(* has no marker between one round and the next; the recorder makes        *)
(* replies and results of it, so that a provider can go on from the log.   *)
(* Turns on a provider and his operations between turns are SessionLog's.  *)
(***************************************************************************)
EXTENDS SessionLog

CONSTANTS Settings,   \* what may happen, one set of these per setting
          MaxHeard,   \* bound on the streams of all agents' turns together
          MaxCalls,   \* bound on the calls of all agents' turns
          MaxTurns    \* bound on agents' turns

AllMay == {"provider",  \* he has turns on a provider too
           "agent",     \* ... on Claude Code
           "his",       \* he works on the log between turns
           "his_words", \* he sends a message into the turn
           "thinks",    \* replies hold thinking
          "children",  \* subagents speak
           "die",       \* the app dies
           "steps",     \* a subagent speaks between two results of a round
           "early",     \* his message is taken between a call and its result
           "again"}     \* a round ends with words and the next one thinks

\* A message may carry no file.
ASSUME RecorderAssumption ==
    /\ \A s \in Settings : s \subseteq AllMay
    /\ 0 \in Attached

VARIABLES
    may,     \* the setting of this behaviour
    engine,  \* whose turn runs
    rec,     \* the recorder of the running turn
    calls,   \* calls of agents' turns so far
    turns,   \* agents' turns so far
    streamed,  \* items of their streams so far
    stale,   \* refused calls whose result the next process delivers
    heard,   \* the running turn's stream so far
    from,    \* the event of the message it answers
    deaths   \* times the app died in a turn

recVars == << may, engine, rec, calls, turns, streamed, stale, heard, from, deaths >>
allVars == << vars, recVars >>

NoRecorder ==
    [at |-> "none", blocks |-> << >>, thinking |-> FALSE, text |-> FALSE,
     open |-> << >>, spoke |-> {}]

RecInit ==
    /\ Init /\ may \in Settings
    /\ engine = "none" /\ rec = NoRecorder
    /\ calls = 0 /\ turns = 0 /\ streamed = 0 /\ stale = {} /\ heard = << >> /\ from = 0
    /\ deaths = 0

-----------------------------------------------------------------------------
(* Prose and narratives become blocks, the round's blocks one reply.       *)

One(kind) == << [kind |-> kind] >>

\* Thinking, then text, whichever streamed first.
FlushProse(r) ==
    [r EXCEPT !.blocks = @ \o (IF r.thinking THEN One("thinking") ELSE << >>)
                           \o (IF r.text THEN One("text") ELSE << >>),
              !.thinking = FALSE, !.text = FALSE]

\* A block for each subagent that spoke.
FlushSubagents(r) ==
    [r EXCEPT !.blocks = @ \o [n \in 1..Cardinality(r.spoke) |-> [kind |-> "narrative"]],
              !.spoke = {}]

\* The round's reply, if it holds anything, and what follows it; nothing of
\* the round stays but the calls in stillOpen.
FlushAssistant(after, at, stillOpen) ==
    LET blocks == FlushSubagents(FlushProse(rec)).blocks IN
    /\ events' = events \o (IF blocks = << >> THEN << >> ELSE << Assistant(blocks) >>) \o after
    /\ rec' = [NoRecorder EXCEPT !.at = at, !.open = stillOpen]

-----------------------------------------------------------------------------
(* The stream.                                                             *)

Streams == engine = "agent" /\ rec.at = "turn" /\ streamed < MaxHeard

\* Some results of a round are in and others are not.
MidResults == rec.open # << >> /\ rec.blocks = << >>

Hear(item) == heard' = Append(heard, item) /\ streamed' = streamed + 1

RecFrame == UNCHANGED << running, open, may, engine, turns, from, deaths >>

\* A run of deltas is one.
TextDelta ==
    /\ Streams /\ ~MidResults /\ ~rec.text
    /\ rec' = [rec EXCEPT !.text = TRUE]
    /\ Hear(<< "text" >>)
    /\ RecFrame /\ UNCHANGED << events, calls, stale >>

ThinkingDelta ==
    /\ Streams /\ "thinks" \in may /\ ~MidResults /\ ~rec.thinking
    /\ "again" \in may \/ ~rec.text
    /\ rec' = [rec EXCEPT !.thinking = TRUE]
    /\ Hear(<< "thinking" >>)
    /\ RecFrame /\ UNCHANGED << events, calls, stale >>

\* Mutant: the prose before the call stays behind it.
ToolCallFirst ==
    LET id == << 0, calls + 1 >> IN
    /\ Streams /\ ~MidResults /\ calls < MaxCalls
    /\ rec' = [rec EXCEPT !.open = Append(@, id),
                          !.blocks = Append(@, [kind |-> "tool_use", id |-> id])]
    /\ calls' = calls + 1
    /\ Hear(<< "call", id >>)
    /\ RecFrame /\ UNCHANGED << events, stale >>

ToolCall ==
    LET id == << 0, calls + 1 >> IN
    /\ Streams /\ ~MidResults /\ calls < MaxCalls
    /\ rec' = [FlushProse(rec) EXCEPT !.open = Append(@, id),
                                      !.blocks = Append(@, [kind |-> "tool_use", id |-> id])]
    /\ calls' = calls + 1
    /\ Hear(<< "call", id >>)
    /\ RecFrame /\ UNCHANGED << events, stale >>

\* Mutant: whatever result comes is recorded.
OursWhicheverItIs(id) == TRUE

\* A result for a call this turn never opened is not this turn's.
Ours(id) == id \in ToSet(rec.open)

\* Died between the reply and its result, the log is one FinishTurn leaves.
ToolResult(id) ==
    /\ Streams
    /\ stale' = stale \ {id}
    /\ IF Ours(id)
       THEN /\ FlushAssistant(<< Result(id) >>, "turn",
                              Sift(rec.open, {n \in DOMAIN rec.open : rec.open[n] # id}))
            /\ Hear(<< "result", id >>)
       ELSE UNCHANGED << events, rec, heard, streamed >>
    /\ RecFrame /\ UNCHANGED calls

MessageDelivered ==
    /\ Streams /\ "his_words" \in may
    /\ "early" \in may \/ rec.open = << >>
    /\ \E n \in Attached : FlushAssistant(<< UserMsg("said", n) >>, "turn", rec.open)
    /\ Hear(<< "his" >>)
    /\ RecFrame /\ UNCHANGED << calls, stale >>

\* Kept against the call that spawned it, whichever turn that was of.
PushSubagent(n) ==
    /\ Streams /\ "children" \in may
    /\ "steps" \in may \/ ~MidResults
    /\ rec' = [rec EXCEPT !.spoke = @ \cup {n}]
    /\ rec' # rec
    /\ RecFrame /\ UNCHANGED << events, calls, stale, heard, streamed >>

-----------------------------------------------------------------------------
(* A turn's start and end.                                                 *)

AgentStarts ==
    /\ "agent" \in may /\ turns < MaxTurns
    /\ \E n \in Attached : RecordUser("said", n)
    /\ engine' = "agent" /\ turns' = turns + 1
    /\ rec' = [NoRecorder EXCEPT !.at = "turn"]
    /\ heard' = << >> /\ from' = Len(events')
    /\ UNCHANGED << may, calls, streamed, stale, deaths >>

EndFrame == UNCHANGED << may, calls, turns, streamed, from >>

\* The last reply.  A call he was asked about is refused on disk, and the
\* next process says so.
FinishTurn ==
    /\ engine = "agent" /\ rec.at = "turn"
    /\ FlushAssistant(<< >>, "closing", rec.open)
    /\ \/ UNCHANGED stale
       \/ rec.open # << >> /\ stale' = stale \cup {Last(rec.open)}
    /\ EndFrame /\ UNCHANGED << running, open, engine, heard, deaths >>

\* A result for each call still open.
CloseCall ==
    /\ rec.at = "closing" /\ rec.open # << >>
    /\ Record(Result(Head(rec.open)))
    /\ rec' = [rec EXCEPT !.open = Tail(@)]
    /\ EndFrame /\ UNCHANGED << running, open, engine, stale, heard, deaths >>

\* A turn stopped or failed with nothing after his message says so.
AgentEnds ==
    /\ rec.at = "closing" /\ rec.open = << >>
    /\ \/ UNCHANGED events
       \/ IsUser(events[Len(events)]) /\ Record(StandIn)
    /\ rec' = NoRecorder /\ engine' = "none" /\ running' = FALSE /\ heard' = << >>
    /\ EndFrame /\ UNCHANGED << open, stale, deaths >>

\* The app dies: what the recorder held is gone.
Dies ==
    /\ engine = "agent" /\ "die" \in may
    /\ rec' = NoRecorder /\ engine' = "none" /\ running' = FALSE /\ heard' = << >>
    /\ deaths' = deaths + 1
    /\ EndFrame /\ UNCHANGED << events, open, stale >>

\* A turn on a provider.
ProviderTurn ==
    /\ "provider" \in may /\ engine # "agent"
    /\ TurnNext
    /\ engine' = IF running' THEN "provider" ELSE "none"
    /\ UNCHANGED << may, rec, calls, turns, streamed, stale, heard, from, deaths >>

-----------------------------------------------------------------------------

Stream ==
    \/ TextDelta \/ ThinkingDelta \/ ToolCall \/ MessageDelivered
    \/ \E id \in ToSet(rec.open) \cup stale : ToolResult(id)
    \/ \E n \in 1..calls : PushSubagent(n)

RecNext ==
    \/ AgentStarts \/ Stream \/ FinishTurn \/ CloseCall \/ AgentEnds \/ Dies
    \/ ProviderTurn
    \/ "his" \in may /\ HisNext /\ UNCHANGED recVars

RecSpec == RecInit /\ [][RecNext]_allVars

-----------------------------------------------------------------------------

\* The type invariant: SessionLog's, and the recorder's own.
RecTypeOK ==
    /\ TypeOK
    /\ rec.blocks \in Seq(Block)
    /\ rec.open # << >> => engine = "agent"
    /\ \A id \in ToSet(rec.open) : id \in {0} \X (1..calls)
    /\ rec.at = "turn" => stale \cap ToSet(rec.open) = {}
    /\ engine = "none" <=> ~running

\* What the stream gave, as the log and the recorder hold it.
BlockItem(b) ==
    IF IsCall(b) THEN << << "call", b.id >> >>
    ELSE IF b.kind = "narrative" THEN << >> ELSE << << b.kind >> >>

Items(blocks) == FlattenSeq([n \in DOMAIN blocks |-> BlockItem(blocks[n])])

EventItems(e) ==
    CASE IsAssistant(e) -> Items(e.blocks)
      [] e.type = "tool_result" -> << << "result", e.id >> >>
      [] IsUser(e) -> << << "his" >> >>
      [] OTHER -> << >>

Written ==
    FlattenSeq([n \in 1..(Len(events) - from) |-> EventItems(events[from + n])])

\* Everything the turn's stream gave is written or about to be, once and in
\* the order it came (record.rs: "in stream order - which is the order they
\* must be replayed in"); only the results finish supplies are added to it.
HeardInOrder ==
    engine = "agent" =>
        LET all == Written \o Items(FlushProse(rec).blocks)
        IN  /\ Len(heard) <= Len(all)
            /\ heard = SubSeq(all, 1, Len(heard))
            /\ rec.at = "turn" => Len(all) = Len(heard)

\* Between turns every call of an agent's turn has its one result on the
\* log, unless the app died in the turn (record.rs: "pairing is guaranteed
\* here rather than assumed").
PairedOnTheLog ==
    engine = "none" /\ deaths = 0 =>
        \A i \in DOMAIN events : IsAssistant(events[i]) =>
            \A id \in CallIds(events[i].blocks) : id[1] = 0 =>
                Cardinality({j \in DOMAIN events : events[j] = Result(id)}) = 1

\* An agent's turn is on the log as its stream gave it, and whole.
WrittenAsHeard == HeardInOrder /\ PairedOnTheLog

=============================================================================
