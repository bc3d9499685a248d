----------------------------- MODULE SessionLog -----------------------------
(***************************************************************************)
(* A session log in use: a turn appends his message, the model's replies   *)
(* and the results of their calls; between turns he rewinds, restores,     *)
(* removes and rewords.  Every operation is one append (Session::record),  *)
(* guarded as the method that makes it is.  A turn may stop at any point   *)
(* (a crash, a Stop, an error), which leaves a round partly answered.      *)
(***************************************************************************)
EXTENDS Session

CONSTANTS
    Kinds,      \* the kinds a chat can be of
    Words,      \* the words an edit can put in place of others
    Replies,    \* the shapes of reply, each a sequence of block kinds
    Attached,   \* how many files a message can carry
    Ops,        \* the operations a run allows, by name
    MaxEvents   \* bound on the length of the log

AllOps == {"stop", "stand_in", "compact", "kind", "rewind", "unrewind",
           "elide", "unelide", "elide_block", "unelide_block", "edit", "edit_block"}

BlockKinds == {"text", "narrative", "thinking", "reasoning_ref", "tool_use"}

ASSUME LogAssumption ==
    /\ Kinds # {} /\ "none" \notin Kinds
    /\ "" \notin Words
    /\ Replies \subseteq Seq(BlockKinds) \ {<< >>}
    /\ Attached \subseteq Nat
    /\ Ops \subseteq AllOps
    /\ MaxEvents \in Nat

Block ==
    [kind : BlockKinds \ {"tool_use"}] \cup [kind : {"tool_use"}, id : Nat \X Nat]

Event ==
    [type : {"session_created", "kind"}, kind : Kinds]
        \cup [type : {"user_message"}, said : {"said", ""}, files : Attached]
        \cup [type : {"assistant_message"}, blocks : Seq(Block), stand_in : BOOLEAN]
        \cup [type : {"tool_result"}, id : Nat \X Nat]
        \cup [type : {"compaction"}]
        \cup [type : {"rewind"}, to : Nat]
        \cup [type : {"unrewind"}, of : Nat]
        \cup [type : {"elide", "unelide"}, targets : SUBSET Nat, block : Nat]
        \cup [type : {"edit"}, target : Nat, block : Nat, text : Words,
              files : Attached \cup {KeepFiles}]

VARIABLES
    events,   \* the log, in order; nothing in it is ever changed
    running,  \* a turn runs on this chat
    open      \* the running turn's calls that have no result yet

vars == << events, running, open >>

-----------------------------------------------------------------------------

Full == Len(events) >= MaxEvents

Record(e) == events' = Append(events, e)

\* The blocks of a reply of this shape recorded at position i.
BlocksOf(shape, i) ==
    [n \in DOMAIN shape |->
        IF shape[n] = "tool_use" THEN [kind |-> "tool_use", id |-> << i, n >>]
        ELSE [kind |-> shape[n]]]

Init ==
    /\ \E k \in Kinds : events = << Created(k) >>
    /\ running = FALSE
    /\ open = {}

\* An operation of his: refused while a turn runs on the chat.
AtRest(op) == op \in Ops /\ ~running /\ ~Full

-----------------------------------------------------------------------------
(* The turn.                                                               *)

\* A message with nothing said carries a file.
RecordUser(said, files) ==
    /\ ~running /\ ~Full
    /\ said # "" \/ files > 0
    /\ Record(UserMsg(said, files))
    /\ running' = TRUE
    /\ UNCHANGED open

\* A reply with no call ends the turn.
RecordAssistant(shape) ==
    LET bs == BlocksOf(shape, Len(events) + 1)
    IN  /\ running /\ open = {} /\ ~Full
        /\ Record(Assistant(bs))
        /\ open' = CallIds(bs)
        /\ running' = (open' # {})

\* The engine records a round's results in call order; an agent's come in
\* whatever order its calls finish.
RecordToolResult(id) ==
    /\ running /\ ~Full
    /\ Record(Result(id))
    /\ open' = open \ {id}
    /\ UNCHANGED running

\* The turn is gone with whatever it had not recorded.
Stop ==
    /\ "stop" \in Ops /\ running
    /\ running' = FALSE
    /\ open' = {}
    /\ UNCHANGED events

\* A turn that ended with nothing after his message leaves a stand-in.
RecordStandIn ==
    /\ "stand_in" \in Ops /\ running /\ ~Full
    /\ IsUser(events[Len(events)])
    /\ Record(StandIn)
    /\ running' = FALSE
    /\ open' = {}

\* Only a conversation with a reply in it is summarized.
RecordCompaction ==
    /\ AtRest("compact")
    /\ \E k \in DOMAIN Project(events) : Project(events)[k].role = "assistant"
    /\ Record(Compaction)
    /\ UNCHANGED << running, open >>

RecordKind(k) ==
    /\ AtRest("kind")
    /\ k # Kind(events)
    /\ Record(SwitchKind(k))
    /\ UNCHANGED << running, open >>

-----------------------------------------------------------------------------
(* His operations on the log.                                              *)

\* Mutant: the cut is not held to his messages.
RewindAnywhere(to) ==
    /\ AtRest("rewind")
    /\ to \in Live(events)
    /\ Record(RewindTo(to))
    /\ UNCHANGED << running, open >>

Rewind(to) ==
    /\ AtRest("rewind")
    /\ IsUser(events[to])
    /\ to \in Live(events)
    /\ Record(RewindTo(to))
    /\ UNCHANGED << running, open >>

Unrewind(of) ==
    /\ AtRest("unrewind")
    /\ events[of].type = "rewind"
    /\ of \notin Lifted(events)
    /\ Record(UnrewindOf(of))
    /\ UNCHANGED << running, open >>

\* Mutant: a turn already rewound away is marked too.
ElideSuperseded(T) ==
    LET fresh == T \ Elided(events) IN
    /\ AtRest("elide")
    /\ \A t \in T : IsElidable(events, t)
    /\ fresh # {}
    /\ Record(ElideOf(fresh, 0))
    /\ UNCHANGED << running, open >>

\* Targets already elided are accepted and left out of the marker.
Elide(T) ==
    LET fresh == T \ Elided(events) IN
    /\ AtRest("elide")
    /\ \A t \in T : IsElidable(events, t) /\ t \in Live(events)
    /\ fresh # {}
    /\ Record(ElideOf(fresh, 0))
    /\ UNCHANGED << running, open >>

Unelide(T) ==
    LET restore == T \cap Elided(events) IN
    /\ AtRest("unelide")
    /\ restore # {}
    /\ Record(UnelideOf(restore, 0))
    /\ UNCHANGED << running, open >>

ElideBlock(i, b) ==
    /\ AtRest("elide_block")
    /\ IsAssistant(events[i])
    /\ b \in DOMAIN events[i].blocks
    /\ IsText(events[i].blocks[b]) \/ IsCall(events[i].blocks[b])
    /\ i \in Live(events)
    /\ i \notin Elided(events)
    /\ b \notin GoneBlocks(events, i)
    /\ Record(ElideOf({i}, b))
    /\ UNCHANGED << running, open >>

UnelideBlock(i, b) ==
    /\ AtRest("unelide_block")
    /\ b \in GoneBlocks(events, i)
    /\ Record(UnelideOf({i}, b))
    /\ UNCHANGED << running, open >>

\* What edit and edit_block both refuse.  Words holds no blank text.
CheckEditable(i) ==
    /\ IsEditable(events, i)
    /\ i \in Live(events)
    /\ i \notin Elided(events)

\* His message reworded, with its own files or with a new set of them.
Edit(i, text, files) ==
    /\ AtRest("edit")
    /\ IsUser(events[i])
    /\ CheckEditable(i)
    /\ Record(EditOf(i, 0, text, files))
    /\ UNCHANGED << running, open >>

EditBlock(i, b, text) ==
    /\ AtRest("edit_block")
    /\ CheckEditable(i)
    /\ IsAssistant(events[i])
    /\ b \in DOMAIN events[i].blocks
    /\ IsText(events[i].blocks[b])
    /\ b \notin GoneBlocks(events, i)
    /\ Record(EditOf(i, b, text, KeepFiles))
    /\ UNCHANGED << running, open >>

-----------------------------------------------------------------------------

Blocks(i) == IF IsAssistant(events[i]) THEN DOMAIN events[i].blocks ELSE {}

TurnNext ==
    \/ \E said \in {"said", ""}, n \in Attached : RecordUser(said, n)
    \/ \E shape \in Replies : RecordAssistant(shape)
    \/ \E id \in open : RecordToolResult(id)
    \/ Stop
    \/ RecordStandIn
    \/ RecordCompaction

\* At most two turns are named in one call, enough for a marker that names
\* several.
HisNext ==
    \/ \E k \in Kinds : RecordKind(k)
    \/ \E i \in DOMAIN events :
        \/ Rewind(i)
        \/ Unrewind(i)
        \/ \E j \in i..Len(events) : Elide({i, j}) \/ Unelide({i, j})
        \/ \E b \in Blocks(i) : ElideBlock(i, b) \/ UnelideBlock(i, b)
        \/ \E text \in Words :
            \/ \E n \in Attached \cup {KeepFiles} : Edit(i, text, n)
            \/ \E b \in Blocks(i) : EditBlock(i, b, text)

Next == TurnNext \/ HisNext

Spec == Init /\ [][Next]_vars

-----------------------------------------------------------------------------
(* What the log's markers name.                                            *)

\* The events a marker names.
TargetsOf(e) ==
    IF e.type \in {"elide", "unelide"} THEN e.targets
    ELSE IF e.type = "edit" THEN {e.target} ELSE {}

\* A marker points back, at an event of the sort it may name.
PointsBack(log, i) ==
    /\ log[i].type = "rewind" =>
          log[i].to \in 1..(i - 1) /\ IsUser(log[log[i].to])
    /\ log[i].type = "unrewind" =>
          log[i].of \in 1..(i - 1) /\ log[log[i].of].type = "rewind"
    /\ TargetsOf(log[i]) \subseteq {t \in 1..(i - 1) : IsElidable(log, t)}

\* What the variables hold: the log opens with its creation line, every
\* marker points back, and only a running turn has calls open.
TypeOK ==
    /\ events \in Seq(Event)
    /\ events # << >> /\ events[1].type = "session_created"
    /\ \A i \in DOMAIN events : PointsBack(events, i)
    /\ running \in BOOLEAN
    /\ open \subseteq Nat \X Nat
    /\ open # {} => running

\* A list of messages a provider accepts (session.rs, answer_orphaned_calls
\* and project_sourced): no message is empty, no text block is, every call
\* is answered in the very next message, and a result stands only right
\* after the call it answers, once.
WireValid(ms) ==
    \A k \in DOMAIN ms :
        LET content == ms[k].content
            calls   == CallIds(content)
            results == ResultIds(ms[k])
        IN  /\ content # << >>
            /\ \A n \in DOMAIN content : content[n].kind = "text" => content[n].say # ""
            /\ calls # {} =>
                  k + 1 \in DOMAIN ms /\ calls \subseteq ResultIds(ms[k + 1])
            /\ results # {} => k > 1 /\ results \subseteq CallIds(ms[k - 1].content)
            /\ \A m, n \in DOMAIN content :
                  /\ content[m].kind = "tool_result"
                  /\ content[n].kind = "tool_result"
                  /\ content[m].id = content[n].id
                  => m = n

\* Whatever was rewound, restored, removed, reworded or cut short, the next
\* request is one a provider accepts.
ReplayIsValid == WireValid(Project(events))

\* A marker that still counts names only events that still count: a rewind
\* never leaves an elision or an edit in force on something it took away
\* (elide_flags, edit_texts and block_elisions apply every live marker).
LiveMarkersTargetLive ==
    \A j \in Live(events) : TargetsOf(events[j]) \subseteq Live(events)

\* What makes it so: a rewind still in force took away nothing that a later
\* marker names.
StandingClear ==
    \A j \in DOMAIN events : \A t \in TargetsOf(events[j]), r \in Standing(events) :
        r < j => ~(events[r].to <= t /\ t < r)

\* A rewind lifted at once puts back exactly the conversation it took.
UnrewindUndoesRewind ==
    LET r == Len(events) IN
    events[r].type = "rewind" =>
        Project(Append(events, UnrewindOf(r))) = Project(SubSeq(events, 1, r - 1))

\* What goes on the wire, without the positions the blocks came from.
Unsourced(ms) ==
    [k \in DOMAIN ms |->
        [ms[k] EXCEPT !.content =
            [n \in DOMAIN ms[k].content |-> [ms[k].content[n] EXCEPT !.src = 0]]]]

\* A fork begins as its parent did: cut at a turn, it sends what the parent
\* sends when rewound to that turn (fork_from re-aims every marker).  A fork
\* waits for the turn that runs.
ForkReplaysTheCut ==
    ~running =>
        \A u \in DOMAIN events :
            CanCut(events, u) =>
                Unsourced(Project(Fork(events, u)))
                    = Unsourced(Project(Append(events, RewindTo(u))))

\* Whatever could be removed now, restoring it sends `sent` again.
RestoresTo(sent) ==
    /\ \A i \in Live(events) \ Elided(events) :
        IsElidable(events, i) =>
            Project(events \o << ElideOf({i}, 0), UnelideOf({i}, 0) >>) = sent
    /\ \A i \in Live(events) : \A b \in Blocks(i) \ GoneBlocks(events, i) :
            Project(events \o << ElideOf({i}, b), UnelideOf({i}, b) >>) = sent

\* Restoring what was just removed, a turn or one block of a reply, sends
\* again exactly what was sent before.  Nothing is removed while a turn runs.
RestoreIsExact == ~running => RestoresTo(Project(events))

HandlesLead(ms) ==
    \A k \in DOMAIN ms : \A n \in DOMAIN ms[k].content :
        LET c == ms[k].content IN
        c[n].kind = "reasoning_ref" =>
            LET bs == events[c[n].src].blocks
                led == {bs[m + 1].id : m \in {x \in 1..(Len(bs) - 1) :
                           bs[x].kind = "reasoning_ref" /\ IsCall(bs[x + 1])}}
                refs == Cardinality({x \in DOMAIN bs : bs[x].kind = "reasoning_ref"})
            IN  led # {} /\ refs = 1 =>
                    n < Len(c) /\ IsCall(c[n + 1]) /\ c[n + 1].id \in led

\* A replay handle that led to a call in the reply leads to it on the wire,
\* and goes when the call goes.
HandleLeadsItsCall == HandlesLead(Project(events))

\* The switch of kind the last message of a request tells of, or "none".
ToldIn(ms) ==
    LET head == ms[Len(ms)].content[1]
    IN  IF head.kind = "note" THEN head.say ELSE "none"

\* The note a shell asks for before it records his message is the note the
\* projection puts on that message.
NoteIsTheProjections ==
    KindSwitchNote(events) = ToldIn(Project(Append(events, UserMsg("said", 0))))

\* The next request, on whichever engine asks for it.
NextRequestIsRight == ReplayIsValid /\ HandleLeadsItsCall /\ NoteIsTheProjections

\* What he takes out and puts back, and what he forks, is as it was, in a chat
\* that stays of one kind: a fork keeps the kind its parent has now.
UndoneExactly == UnrewindUndoesRewind /\ RestoreIsExact /\ ForkReplaysTheCut

\* While the next request carries a reply, the gauge reads its size from
\* one the request carries (Session::context_usage, read by the sidecar).
GaugeReadsTheWire ==
    LET u  == ContextUsage(events)
        ms == Project(events)
        Carried(i) == \E k \in DOMAIN ms : \E n \in DOMAIN ms[k].content :
                         ms[k].role = "assistant" /\ ms[k].content[n].src = i
    IN  (\E k \in DOMAIN ms : ms[k].role = "assistant") => u # 0 /\ Carried(u)

\* No two messages of his stand side by side on the wire.
UserTurnsAlternate ==
    LET ms == Project(events) IN
    \A k \in 1..(Len(ms) - 1) : ~(ms[k].role = "user" /\ ms[k + 1].role = "user")

=============================================================================
