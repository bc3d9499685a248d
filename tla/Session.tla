------------------------------- MODULE Session -------------------------------
(***************************************************************************)
(* The session log of nightloom-core (session.rs) as operators over a      *)
(* sequence of events: which events are live, which content is elided or   *)
(* edited, what a fork copies, and the list of messages a provider is sent.*)
(*                                                                         *)
(* The code counts events from 0; a position here is the code's index + 1. *)
(* Text is abstract: what was said is never compared, only which event a   *)
(* block came from (src) and, for a reworded one, which words replaced it. *)
(***************************************************************************)
EXTENDS Integers, Sequences, FiniteSets, SequencesExt

-----------------------------------------------------------------------------
(* Events. *)

Created(kind)     == [type |-> "session_created", kind |-> kind]
UserMsg(said, n)  == [type |-> "user_message", said |-> said, files |-> n]
Assistant(bs)     == [type |-> "assistant_message", blocks |-> bs, stand_in |-> FALSE]
StandIn           == [type |-> "assistant_message",
                      blocks |-> << [kind |-> "text"] >>, stand_in |-> TRUE]
Result(id)        == [type |-> "tool_result", id |-> id]
Compaction        == [type |-> "compaction"]
SwitchKind(kind)  == [type |-> "kind", kind |-> kind]
RewindTo(to)      == [type |-> "rewind", to |-> to]
UnrewindOf(of)    == [type |-> "unrewind", of |-> of]
\* block = 0 is the code's `block: None`: the marker names whole events.
ElideOf(T, block)   == [type |-> "elide", targets |-> T, block |-> block]
UnelideOf(T, block) == [type |-> "unelide", targets |-> T, block |-> block]
\* files = KeepFiles is the code's `attachments: None`.
KeepFiles         == -1
EditOf(t, block, text, n) ==
    [type |-> "edit", target |-> t, block |-> block, text |-> text, files |-> n]

IsUser(e)      == e.type = "user_message"
IsAssistant(e) == e.type = "assistant_message"
IsText(b)      == b.kind \in {"text", "narrative"}
IsCall(b)      == b.kind = "tool_use"
CallIds(bs)    == {bs[n].id : n \in {m \in DOMAIN bs : IsCall(bs[m])}}

-----------------------------------------------------------------------------
(* Rewinds: a rewind at r supersedes [to, r) until an unrewind names it.   *)

Lifted(log) == {log[j].of : j \in {i \in DOMAIN log : log[i].type = "unrewind"}}

Standing(log) == {r \in DOMAIN log : log[r].type = "rewind"} \ Lifted(log)

\* Mutant: a lifted rewind re-raises its whole range, another's part of it too.
LiveReRaised(log) ==
    {i \in DOMAIN log :
        /\ log[i].type \notin {"rewind", "unrewind"}
        /\ \/ \A r \in Standing(log) : ~(log[r].to <= i /\ i < r)
           \/ \E r \in Lifted(log) : log[r].to <= i /\ i < r}

Live(log) ==
    {i \in DOMAIN log :
        /\ log[i].type \notin {"rewind", "unrewind"}
        /\ \A r \in Standing(log) : ~(log[r].to <= i /\ i < r)}

\* The last of the positions in S, or 0.  In what follows live is Live(log),
\* computed once by whoever reads the log.
LastOf(S) == IF S = {} THEN 0 ELSE CHOOSE i \in S : \A j \in S : j <= i

-----------------------------------------------------------------------------
(* Elisions and edits: the last live marker that names a place decides.    *)

Names(e, i, block) ==
    e.type \in {"elide", "unelide"} /\ e.block = block /\ i \in e.targets

RemovedAt(log, live, i, block) ==
    \E m \in live :
        /\ log[m].type = "elide" /\ Names(log[m], i, block)
        /\ \A n \in live : n > m => ~Names(log[n], i, block)

ElidedIn(log, live) == {i \in DOMAIN log : RemovedAt(log, live, i, 0)}

Elided(log) == ElidedIn(log, Live(log))

GoneIn(log, live, i) ==
    IF IsAssistant(log[i])
    THEN {b \in DOMAIN log[i].blocks : RemovedAt(log, live, i, b)}
    ELSE {}

GoneBlocks(log, i) == GoneIn(log, Live(log), i)

RemovedCalls(log, live) ==
    UNION { {log[i].blocks[b].id :
                b \in {n \in GoneIn(log, live, i) : IsCall(log[i].blocks[n])}} :
            i \in live }

\* Position of the latest live edit of a block (0: of the whole message).
EditAt(log, live, i, block) ==
    LastOf({j \in live : /\ log[j].type = "edit"
                          /\ log[j].target = i
                          /\ log[j].block = block})

FilesEditAt(log, live, i) ==
    LastOf({j \in live : /\ log[j].type = "edit"
                          /\ log[j].target = i
                          /\ log[j].files # KeepFiles})

IsElidable(log, i) ==
    log[i].type \in {"user_message", "assistant_message", "tool_result"}

IsEditable(log, i) ==
    \/ IsUser(log[i])
    \/ IsAssistant(log[i]) /\ \E b \in DOMAIN log[i].blocks : IsText(log[i].blocks[b])

-----------------------------------------------------------------------------
(* The chat's kind: born with one, the latest live switch decides.         *)

BornKind(log) == log[1].kind

Kind(log) ==
    LET k == LastOf({i \in Live(log) : log[i].type = "kind"})
    IN  IF k = 0 THEN BornKind(log) ELSE log[k].kind

\* The kind the next user message has to announce, or "none".
KindSwitchNote(log) ==
    LET live == Live(log)
        u    == LastOf({i \in live : IsUser(log[i])})
        k    == LastOf({i \in live : log[i].type = "kind" /\ i < u})
        told == IF k = 0 THEN BornKind(log) ELSE log[k].kind
    IN  IF told # Kind(log) THEN Kind(log) ELSE "none"

\* The reply whose usage the context gauge reads: 0 for none.
ContextUsage(log) ==
    LET i == LastOf({j \in Live(log) : IsAssistant(log[j]) \/ log[j].type = "compaction"})
    IN  IF i # 0 /\ IsAssistant(log[i]) THEN i ELSE 0

-----------------------------------------------------------------------------
(* Projection of one event into blocks of a message.                       *)

\* What s holds at the places in keep, in its order.
Sift(s, keep) ==
    LET sifted[n \in 0..Len(s)] ==
            IF n = 0 THEN << >>
            ELSE IF n \in keep THEN Append(sifted[n - 1], s[n]) ELSE sifted[n - 1]
    IN  sifted[Len(s)]

Msg(role, content) == [role |-> role, content |-> content]
Marker(i)          == [kind |-> "marker", src |-> i]
ResultBlock(id, content, i) ==
    [kind |-> "tool_result", id |-> id, content |-> content, src |-> i]
FileBlocks(n, i)   == [f \in 1..n |-> [kind |-> "file", src |-> i]]

\* A block of a reply as it goes out, `words` in place of its own.
OutBlock(b, i, words) ==
    IF IsText(b) THEN [kind |-> b.kind, say |-> words, src |-> i]
    ELSE IF IsCall(b) THEN [kind |-> "tool_use", id |-> b.id, src |-> i]
    ELSE [kind |-> b.kind, src |-> i]

UserContent(log, live, elided, i) ==
    LET edit  == EditAt(log, live, i, 0)
        sets  == FilesEditAt(log, live, i)
        said  == IF edit = 0 THEN log[i].said ELSE log[edit].text
        files == IF sets = 0 THEN log[i].files ELSE log[sets].files
    IN  IF i \in elided THEN << Marker(i) >>
        ELSE FileBlocks(files, i) \o
             (IF said # "" \/ files = 0
              THEN << [kind |-> "text", say |-> said, src |-> i] >> ELSE << >>)

LeadsRemovedCall(bs, gone, n) ==
    /\ bs[n].kind = "reasoning_ref"
    /\ n + 1 \in gone
    /\ IsCall(bs[n + 1])

\* An elided reply: the marker, then every call and replay handle it keeps.
ElideAssistant(log, live, i) ==
    LET bs   == log[i].blocks
        gone == GoneIn(log, live, i)
        kept == {n \in DOMAIN bs : /\ bs[n].kind \in {"tool_use", "reasoning_ref"}
                                   /\ ~(IsCall(bs[n]) /\ n \in gone)
                                   /\ ~LeadsRemovedCall(bs, gone, n)}
    IN  << Marker(i) >> \o Sift([n \in DOMAIN bs |-> OutBlock(bs[n], i, "own")], kept)

\* A block of a reply with the words its last edit gave it.
EditedBlock(log, live, i, n) ==
    LET edit == EditAt(log, live, i, n) IN
    IF edit = 0 THEN OutBlock(log[i].blocks[n], i, "own")
    ELSE [kind |-> "text", say |-> log[edit].text, src |-> i]

\* A reply with its per-block markers: removed blocks out, edits in place,
\* the subagents' narratives left out last.
EditAssistant(log, live, i) ==
    LET bs   == log[i].blocks
        gone == GoneIn(log, live, i)
        kept == {n \in DOMAIN bs : n \notin gone /\ ~LeadsRemovedCall(bs, gone, n)}
        out  == Sift([n \in DOMAIN bs |-> EditedBlock(log, live, i, n)], kept)
        full == IF gone # {} /\ ~\E k \in DOMAIN out : IsText(out[k]) \/ IsCall(out[k])
                THEN Append(out, Marker(i)) ELSE out
        heard == Sift(full, {k \in DOMAIN full : full[k].kind # "narrative"})
    IN  IF heard = << >> /\ full # << >>
        THEN << [kind |-> "omitted", src |-> i] >> ELSE heard

AssistantContent(log, live, elided, i) ==
    IF i \in elided THEN ElideAssistant(log, live, i) ELSE EditAssistant(log, live, i)

-----------------------------------------------------------------------------
(* Calls with no recorded result are answered where the round's results    *)
(* stand, or in a message of their own right after the calls.              *)

ResultIds(m) == {m.content[n].id :
                    n \in {k \in DOMAIN m.content : m.content[k].kind = "tool_result"}}

IsRound(m) == m.role = "user" /\ ResultIds(m) # {}

\* The repair results message k of ms is missing, in call order.
Missing(ms, k) ==
    LET answered == IF k + 1 \in DOMAIN ms /\ IsRound(ms[k + 1])
                    THEN ResultIds(ms[k + 1]) ELSE {}
        open == IF ms[k].role # "assistant" THEN << >>
                ELSE LET c == ms[k].content IN
                     Sift(c, {n \in DOMAIN c : IsCall(c[n]) /\ c[n].id \notin answered})
    IN  [n \in DOMAIN open |-> ResultBlock(open[n].id, "repair", 0)]

\* Mutant: only a round with no result at all is repaired.
AnswerWholeRounds(ms) ==
    FlattenSeq([k \in DOMAIN ms |->
        IF Missing(ms, k) # << >> /\ ~(k + 1 \in DOMAIN ms /\ IsRound(ms[k + 1]))
        THEN << ms[k], Msg("user", Missing(ms, k)) >> ELSE << ms[k] >>])

\* Message k with the repair results that belong in it.
WithRepairs(ms, k) ==
    IF k > 1 /\ IsRound(ms[k])
    THEN [ms[k] EXCEPT !.content = @ \o Missing(ms, k - 1)]
    ELSE ms[k]

\* The calls of message k have no round to be answered in.
NoRound(ms, k) ==
    /\ Missing(ms, k) # << >>
    /\ ~(k + 1 \in DOMAIN ms /\ IsRound(ms[k + 1]))

AnswerOrphanedCalls(ms) ==
    FlattenSeq([k \in DOMAIN ms |->
        IF NoRound(ms, k)
        THEN << WithRepairs(ms, k), Msg("user", Missing(ms, k)) >>
        ELSE << WithRepairs(ms, k) >>])

-----------------------------------------------------------------------------
(* The projection: one pass over the live events, then the repair.  told   *)
(* is the kind the model was last told of, switch the position of a switch *)
(* no user message has carried yet (0 for none).                           *)

UserStep(log, live, elided, st, i) ==
    LET tell == st.switch # 0 /\ log[st.switch].kind # st.told
        note == IF tell THEN << [kind |-> "note", say |-> log[st.switch].kind,
                                 src |-> st.switch] >> ELSE << >>
    IN  [ms |-> Append(st.ms, Msg("user", note \o UserContent(log, live, elided, i))),
         told |-> IF tell THEN log[st.switch].kind ELSE st.told,
         switch |-> 0]

\* The last message is a round, to which a result is added.
RoundIsOpen(ms) ==
    /\ ms # << >>
    /\ Last(ms).role = "user"
    /\ Last(Last(ms).content).kind = "tool_result"

AnswerStep(log, elided, removed, st, i) ==
    LET block == ResultBlock(log[i].id, IF i \in elided THEN "marker" ELSE "kept", i)
    IN  IF log[i].id \in removed THEN st
        ELSE IF RoundIsOpen(st.ms)
        THEN [st EXCEPT !.ms[Len(st.ms)].content = Append(@, block)]
        ELSE [st EXCEPT !.ms = Append(@, Msg("user", << block >>))]

StepAt(log, live, elided, removed, st, i) ==
    LET e == log[i] IN
    CASE e.type = "kind" -> [st EXCEPT !.switch = i]
      [] IsUser(e) -> UserStep(log, live, elided, st, i)
      [] IsAssistant(e) /\ ~e.stand_in ->
            [st EXCEPT !.ms =
                Append(@, Msg("assistant", AssistantContent(log, live, elided, i)))]
      [] e.type = "tool_result" -> AnswerStep(log, elided, removed, st, i)
      [] e.type = "compaction" ->
            [st EXCEPT !.ms = << Msg("user", << [kind |-> "summary", src |-> i] >>) >>]
      [] OTHER -> st

\* The state of the pass after each event.
PassOver(log) ==
    LET live    == Live(log)
        elided  == ElidedIn(log, live)
        removed == RemovedCalls(log, live)
        pass[i \in 0..Len(log)] ==
            IF i = 0 THEN [ms |-> << >>, told |-> BornKind(log), switch |-> 0]
            ELSE IF i \in live THEN StepAt(log, live, elided, removed, pass[i - 1], i)
            ELSE pass[i - 1]
    IN  pass

ProjectRaw(log) == PassOver(log)[Len(log)].ms

Project(log) == AnswerOrphanedCalls(ProjectRaw(log))

-----------------------------------------------------------------------------
(* A fork: the live events before the cut in a log of their own, markers   *)
(* re-aimed at the copies and dropped when nothing they name was copied.   *)

NotCopied == {"session_created", "rewind", "unrewind", "agent_session", "title", "unknown"}

CanCut(log, upto) == upto \in Live(log) /\ IsUser(log[upto])

\* Mutant: a marker is copied as it stands.
CopyAsIs(e, new) == e

\* An event as the fork records it; new maps a position to its copy's.
ReAim(e, new) ==
    IF e.type \in {"elide", "unelide"}
    THEN [e EXCEPT !.targets = {new[t] : t \in e.targets \cap DOMAIN new}]
    ELSE IF e.type = "edit" THEN [e EXCEPT !.target = new[e.target]]
    ELSE e

\* What a fork leaves out.
Dropped(e, new) ==
    \/ e.type \in NotCopied
    \/ e.type \in {"elide", "unelide"} /\ e.targets \cap DOMAIN new = {}
    \/ e.type = "edit" /\ e.target \notin DOMAIN new

\* The copy so far with event i in it.
CopyStep(c, e, i) ==
    [log |-> Append(c.log, ReAim(e, c.new)),
     new |-> [j \in DOMAIN c.new \cup {i} |->
                 IF j = i THEN Len(c.log) + 1 ELSE c.new[j]]]

Copying(log, upto) ==
    LET live == Live(log)
        copy[i \in 0..(upto - 1)] ==
            IF i = 0 THEN [log |-> << Created(Kind(log)) >>, new |-> << >>]
            ELSE IF i \notin live \/ Dropped(log[i], copy[i - 1].new) THEN copy[i - 1]
            ELSE CopyStep(copy[i - 1], log[i], i)
    IN  copy

Fork(log, upto) == Copying(log, upto)[upto - 1].log

=============================================================================
