-------------------------------- MODULE Turn --------------------------------
(***************************************************************************)
(* One chat on the provider engine (turn.rs, Chat::run_turn): his message, *)
(* then rounds of request, streamed reply, consent, tools and results; and *)
(* at its end the stand-in, the compaction the model asked for and the     *)
(* chat's name.  A Stop may come at any step, and so may the process's     *)
(* death; the log is all a later turn finds.                               *)
(*                                                                         *)
(* A reply is abstracted to its blocks: text, thinking, or the name of the *)
(* tool a call asks for.  An approver answers as it likes.                 *)
(***************************************************************************)
EXTENDS Session

CONSTANTS
    Effect,       \* the effect of each registered tool
    CompactTool,  \* compact_context
    TodoTool,     \* the task list, which writes its state into the log
    Plans,        \* what a behaviour may be made of: the replies a provider may
                  \* stream, in full, and a bound on the turns
    AutoTitle,    \* whether a kept chat with no name is given one
    MaxRounds,    \* max_rounds
    MaxSaid       \* bound on the exchange that SessionLog's is compared with

ASSUME TurnAssumption ==
    /\ \A t \in DOMAIN Effect : Effect[t] \in {"read_only", "session", "mutating"}
    /\ {"text", "thinking"} \cap DOMAIN Effect = {}
    /\ AutoTitle \in BOOLEAN
    /\ MaxRounds \in Nat \ {0} /\ MaxSaid \in Nat
    /\ \A p \in DOMAIN Plans : Plans[p].turns \in Nat /\ Plans[p].replies \subseteq Seq(STRING)

VARIABLES
    log,       \* the session's events
    pc,        \* where the running command is; "idle" when none runs
    round,     \* the round of the turn, from 1
    stop,      \* the turn's token is cancelled
    reply,     \* the blocks streamed so far
    calls,     \* the round's calls, each with its tool and how far it is
    outcome,   \* what turn_rounds returned
    signal,    \* the turn whose compact_context raised the flag, 0 when down
    noted,     \* the task list holds a state the log does not
    turns,     \* turns begun
    torn,      \* calls of the rounds a death of the process cut
    plan       \* which of Plans this behaviour is of

turnVars == << log, pc, round, stop, reply, calls, outcome, signal, noted, turns, torn, plan >>

Replies == Plans[plan].replies

Title == [type |-> "title"]
Todo  == [type |-> "todo_state"]

\* The exchange alone: what SessionLog's turn records.
Spoken(events) ==
    Sift(events, {n \in DOMAIN events : events[n].type \notin {"title", "todo_state"}})

IsCallOf(b) == b \notin {"text", "thinking"}

\* The steps at which a request is on its way or being answered.
Requesting == {"opening", "streaming", "compacting", "title_opening", "titling"}

Steps == Requesting \cup {"idle", "round", "deciding", "running", "recording",
                          "settling", "compact", "title"}

TurnInit ==
    /\ log = << Created("build") >>
    /\ pc = "idle" /\ round = 0 /\ stop = FALSE
    /\ reply = << >> /\ calls = << >>
    /\ outcome = "none" /\ signal = 0 /\ noted = FALSE
    /\ turns = 0 /\ torn = {}
    /\ plan \in DOMAIN Plans

-----------------------------------------------------------------------------
(* His side.                                                               *)

\* A message: a turn of its own, with a token of its own.
RunTurn ==
    /\ pc = "idle" /\ turns < Plans[plan].turns
    /\ log' = Append(log, UserMsg("said", 0))
    /\ pc' = "round" /\ round' = 1 /\ stop' = FALSE
    /\ turns' = turns + 1
    /\ outcome' = "none"
    /\ UNCHANGED << reply, calls, signal, noted, torn, plan >>

Stop ==
    /\ pc # "idle" /\ ~stop
    /\ stop' = TRUE
    /\ UNCHANGED << log, pc, round, reply, calls, outcome, signal, noted, turns, torn, plan >>

\* The process dies with whatever the log does not hold; the next one loads
\* the log.
Die ==
    /\ pc # "idle"
    /\ torn' = torn \cup {calls[n].id : n \in DOMAIN calls}
    /\ pc' = "idle" /\ round' = 0 /\ stop' = FALSE
    /\ reply' = << >> /\ calls' = << >>
    /\ outcome' = "died" /\ signal' = 0 /\ noted' = FALSE
    /\ UNCHANGED << log, turns, plan >>

-----------------------------------------------------------------------------
(* The request of a round.                                                 *)

Return(result) ==
    /\ pc' = "settling" /\ outcome' = result
    /\ UNCHANGED << round, stop, signal, noted, turns, torn, plan >>

\* Looked at when a round begins, then first in a biased race with the open.
OpenRequest ==
    /\ pc = "round" /\ ~stop
    /\ pc' = "opening"
    /\ UNCHANGED << log, round, stop, reply, calls, outcome, signal, noted, turns, torn, plan >>

\* Mutant: the open is not raced against the token.
StopBeforeReplyUnraced ==
    /\ pc = "round" /\ stop
    /\ Return("interrupted")
    /\ UNCHANGED << log, reply, calls >>

StopBeforeReply ==
    /\ pc \in {"round", "opening"} /\ stop
    /\ Return("interrupted")
    /\ UNCHANGED << log, reply, calls >>

RequestOpened ==
    /\ pc = "opening" /\ ~stop
    /\ pc' = "streaming"
    /\ UNCHANGED << log, round, stop, reply, calls, outcome, signal, noted, turns, torn, plan >>

RequestFailed ==
    /\ pc = "opening" /\ ~stop
    /\ Return("error")
    /\ UNCHANGED << log, reply, calls >>

\* The race with the stream is fair: an event may win over a Stop.
StreamBlock ==
    /\ pc = "streaming"
    /\ \E full \in Replies :
        /\ IsStrictPrefix(reply, full)
        /\ reply' = Append(reply, full[Len(reply) + 1])
    /\ UNCHANGED << log, pc, round, stop, calls, outcome, signal, noted, turns, torn, plan >>

\* A call's id is its place in the exchange.
CallId(n) == << Len(Spoken(log)) + 1, n >>

\* The blocks as recorded.
Blocks(shape) ==
    [n \in DOMAIN shape |->
        IF IsCallOf(shape[n]) THEN [kind |-> "tool_use", id |-> CallId(n)]
        ELSE [kind |-> shape[n]]]

\* Mutant: a cut reply keeps its calls.
KeptOfCutWhole(shape) == shape

\* What is kept of a reply that was cut: its calls get no results, and go.
KeptOfCut(shape) == Sift(shape, {n \in DOMAIN shape : ~IsCallOf(shape[n])})

CutReply(result) ==
    /\ log' = IF KeptOfCut(reply) = << >> THEN log
              ELSE Append(log, Assistant(Blocks(KeptOfCut(reply))))
    /\ reply' = << >>
    /\ Return(result)
    /\ UNCHANGED calls

StopInStream == pc = "streaming" /\ stop /\ CutReply("interrupted")

StreamFailed == pc = "streaming" /\ CutReply("error")

\* The calls of a recorded reply, in its order; none is settled yet.
CallsOf(shape) ==
    Sift([n \in DOMAIN shape |-> [id |-> CallId(n), tool |-> shape[n], at |-> "asked"]],
         {n \in DOMAIN shape : IsCallOf(shape[n])})

\* A reply with neither text nor call is recorded with an empty text block.
StreamEnded ==
    LET asks == \E n \in DOMAIN reply : IsCallOf(reply[n])
        says == \E n \in DOMAIN reply : reply[n] = "text"
        full == IF asks \/ says THEN reply ELSE Append(reply, "text")
    IN  /\ pc = "streaming" /\ reply \in Replies
        /\ log' = Append(log, Assistant(Blocks(full)))
        /\ reply' = << >>
        /\ calls' = CallsOf(full)
        /\ IF asks
           THEN /\ pc' = "deciding"
                /\ UNCHANGED << round, stop, outcome, signal, noted, turns, torn, plan >>
           ELSE Return("replied")

-----------------------------------------------------------------------------
(* Consent, then the tools.                                                *)

At(state) == {n \in DOMAIN calls : calls[n].at = state}

IsFirst(n, state) == n \in At(state) /\ \A m \in At(state) : n <= m

\* A call of a tool nobody registered is not asked about; any other is put
\* to the approver, one at a time, in call order.
Decide(answer) ==
    /\ pc = "deciding"
    /\ \E n \in DOMAIN calls :
        /\ IsFirst(n, "asked")
        /\ calls[n].tool \notin DOMAIN Effect => answer = "allowed"
        /\ calls' = [calls EXCEPT ![n].at = answer]
        /\ pc' = IF At("asked") = {n} THEN "running" ELSE pc
    /\ UNCHANGED << log, round, stop, reply, outcome, signal, noted, turns, torn, plan >>

ReadOnly(tool) == tool \in DOMAIN Effect /\ Effect[tool] = "read_only"

Concurrent(n) == calls[n].at = "allowed" /\ ReadOnly(calls[n].tool)

\* Mutant: every read of the round is started with the first.
BatchHoisted(n) == IF Concurrent(n) THEN {m \in DOMAIN calls : Concurrent(m)} ELSE {n}

\* What runs together: a run of adjacent read-only calls, or one other call.
Batch(n) ==
    IF Concurrent(n)
    THEN {m \in n..Len(calls) : \A k \in n..m : Concurrent(k)}
    ELSE {n}

\* Calls start in call order, and nothing starts while something runs.  A
\* refused call is answered in its place without running.
StartNext ==
    /\ pc = "running" /\ At("running") = {}
    /\ \E first \in DOMAIN calls :
        /\ IsFirst(first, "allowed")
        /\ calls' = [n \in DOMAIN calls |->
                        IF n \in Batch(first) THEN [calls[n] EXCEPT !.at = "running"]
                        ELSE calls[n]]
    /\ UNCHANGED << log, pc, round, stop, reply, outcome, signal, noted, turns, torn, plan >>

\* A call returns, with a result or an error; it gets the token but is not
\* raced against it.
ToolReturns(n) ==
    /\ pc = "running" /\ calls[n].at = "running"
    /\ calls' = [calls EXCEPT ![n].at = "done"]
    /\ signal' = IF calls[n].tool = CompactTool THEN turns ELSE signal
    /\ noted' = (noted \/ calls[n].tool = TodoTool)
    /\ UNCHANGED << log, pc, round, stop, reply, outcome, turns, torn, plan >>

RoundRun ==
    /\ pc = "running" /\ At("allowed") = {} /\ At("running") = {}
    /\ pc' = "recording"
    /\ UNCHANGED << log, round, stop, reply, calls, outcome, signal, noted, turns, torn, plan >>

\* The results, in call order, each an append of its own.
RecordResult ==
    /\ pc = "recording" /\ calls # << >>
    /\ log' = Append(log, Result(Head(calls).id))
    /\ calls' = Tail(calls)
    /\ UNCHANGED << pc, round, stop, reply, outcome, signal, noted, turns, torn, plan >>

\* What a tool noted goes into the log, and the next round begins; after the
\* last one the model is not asked again.
EndRound ==
    /\ pc = "recording" /\ calls = << >>
    /\ log' = IF noted THEN Append(log, Todo) ELSE log
    /\ noted' = FALSE
    /\ IF round = MaxRounds
       THEN pc' = "settling" /\ outcome' = "round_limit" /\ UNCHANGED round
       ELSE pc' = "round" /\ round' = round + 1 /\ UNCHANGED outcome
    /\ UNCHANGED << stop, reply, calls, signal, turns, torn, plan >>

-----------------------------------------------------------------------------
(* The turn's end.                                                         *)

Succeeded == outcome \in {"replied", "round_limit"}

Untitled == AutoTitle /\ \A i \in Live(log) : log[i].type # "title"

AfterReply == IF Untitled THEN "title" ELSE "idle"

\* Mutant: the stand-in does not look for what was recorded.
UnansweredAnyway(events) == outcome \in {"interrupted", "error"}

\* Nothing but his message since the last exchange, and the turn is over.
Unanswered(events) ==
    /\ outcome \in {"interrupted", "error"}
    /\ IsUser(Last(Spoken(events)))

\* Mutant: the flag is taken only when it is honoured.
SettleLeavingTheFlag ==
    /\ pc = "settling"
    /\ log' = IF Unanswered(log) THEN Append(log, StandIn) ELSE log
    /\ signal' = IF Succeeded THEN 0 ELSE signal
    /\ pc' = IF ~Succeeded THEN "idle" ELSE IF signal # 0 THEN "compact" ELSE AfterReply
    /\ UNCHANGED << round, stop, reply, calls, outcome, noted, turns, torn, plan >>

\* The stand-in, the flag taken whatever became of the turn, and what comes
\* next: a compaction, a name, or nothing.
Settle ==
    /\ pc = "settling"
    /\ log' = IF Unanswered(log) THEN Append(log, StandIn) ELSE log
    /\ signal' = 0
    /\ pc' = IF ~Succeeded THEN "idle" ELSE IF signal # 0 THEN "compact" ELSE AfterReply
    /\ UNCHANGED << round, stop, reply, calls, outcome, noted, turns, torn, plan >>

\* At the end of a command nothing of the turn but its log is left.
Go(step) ==
    /\ pc' = step
    /\ UNCHANGED << round, stop, reply, calls, outcome, signal, noted, turns, torn, plan >>

\* The projection still has a message of the model's.
HasReply ==
    \E i \in Live(log) :
        /\ IsAssistant(log[i]) /\ ~log[i].stand_in
        /\ \A j \in Live(log) : j > i => log[j].type # "compaction"

OpenCompaction == pc = "compact" /\ ~stop /\ HasReply /\ Go("compacting") /\ UNCHANGED log

\* The summary is recorded whole or not at all.
Compact ==
    /\ pc = "compacting"
    /\ log' = Append(log, Compaction)
    /\ Go(AfterReply)

\* Nothing to compact, a Stop, an error or an empty summary.
LeaveUncompacted ==
    /\ \/ pc = "compact" /\ (stop \/ ~HasReply)
       \/ pc = "compacting"
    /\ Go(AfterReply) /\ UNCHANGED log

\* The name's request: its open is not raced against the token.
OpenTitle == pc = "title" /\ HasReply /\ Go("title_opening") /\ UNCHANGED log

TitleOpened == pc = "title_opening" /\ Go("titling") /\ UNCHANGED log

NameChat ==
    /\ pc = "titling"
    /\ log' = Append(log, Title)
    /\ Go("idle")

\* Nothing to name, a Stop during the stream, an error or an empty name.
LeaveUnnamed ==
    /\ \/ pc = "title" /\ ~HasReply
       \/ pc \in {"title_opening", "titling"}
    /\ Go("idle") /\ UNCHANGED log

-----------------------------------------------------------------------------

\* The engine's own steps and what it does once the token is cancelled.
EngineStep ==
    \/ OpenRequest \/ StopBeforeReply \/ StopInStream
    \/ StartNext \/ RoundRun \/ RecordResult \/ EndRound
    \/ Settle \/ OpenCompaction \/ OpenTitle

ProviderStep ==
    \/ RequestOpened \/ RequestFailed
    \/ StreamBlock \/ StreamFailed \/ StreamEnded
    \/ Compact \/ LeaveUncompacted
    \/ TitleOpened \/ NameChat \/ LeaveUnnamed

TurnNext ==
    \/ RunTurn \/ Stop \/ Die
    \/ EngineStep \/ ProviderStep
    \/ \E answer \in {"allowed", "refused"} : Decide(answer)
    \/ \E n \in DOMAIN calls : ToolReturns(n)

TurnSpec == TurnInit /\ [][TurnNext]_turnVars

\* A provider may stay silent for ever.  The engine goes on; once the token
\* is cancelled, prompts are answered (WindowApprover denies), tools return,
\* and the streams of the summary and of the name are let go.
FairSpec ==
    /\ TurnSpec
    /\ WF_turnVars(EngineStep)
    /\ WF_turnVars(stop /\ \E answer \in {"allowed", "refused"} : Decide(answer))
    /\ WF_turnVars(stop /\ \E n \in DOMAIN calls : ToolReturns(n))
    /\ WF_turnVars(stop /\ LeaveUncompacted)
    /\ WF_turnVars(stop /\ pc # "title_opening" /\ LeaveUnnamed)

-----------------------------------------------------------------------------

\* What the variables hold, and which of them a step leaves behind.
TurnTypeOK ==
    /\ log # << >> /\ log[1].type = "session_created"
    /\ pc \in Steps
    /\ round \in 0..MaxRounds
    /\ stop \in BOOLEAN /\ noted \in BOOLEAN
    /\ \E full \in Replies : IsPrefix(reply, full)
    /\ reply # << >> => pc = "streaming"
    /\ \A n \in DOMAIN calls : calls[n].at \in {"asked", "allowed", "refused", "running", "done"}
    /\ calls # << >> => pc \in {"deciding", "running", "recording"}
    /\ outcome \in {"none", "replied", "round_limit", "interrupted", "error", "died"}
    /\ signal \in 0..turns /\ turns \in 0..Plans[plan].turns

\* Whenever the engine is about to ask the model again, or is done, every
\* call in the log has its result, the results of a reply standing right
\* after it in call order.  Only a death of the process leaves a call
\* without one (turn.rs, execute: "an interrupted round still finishes").
CallsAreAnswered ==
    pc \in {"idle", "round", "opening", "streaming", "settling"} =>
        LET said == Spoken(log) IN
        \A i \in DOMAIN said :
            IsAssistant(said[i]) =>
                LET bs  == said[i].blocks
                    due == Sift(bs, {n \in DOMAIN bs : IsCall(bs[n]) /\ bs[n].id \notin torn})
                IN  \A k \in DOMAIN due :
                        i + k \in DOMAIN said /\ said[i + k] = Result(due[k].id)

\* Only reads asked for side by side overlap: while a call runs, every other
\* call before it in the round is settled and every one after it has not
\* begun, so no call misses, or sees too early, what another one wrote
\* (execute: "hoisting every read to the front would reorder a round").
WritesRunAlone ==
    \A n \in At("running") : \A m \in DOMAIN calls \ {n} :
        \/ \A k \in (m..n) \cup (n..m) : ReadOnly(calls[k].tool) /\ calls[k].at # "refused"
        \/ m < n /\ calls[m].at \in {"done", "refused"}
        \/ m > n /\ calls[m].at \in {"allowed", "refused"}

\* No turn leaves his message with nothing under it, whatever ended it
\* (record_unanswered); only a death of the process does.
NothingLeftUnanswered ==
    pc = "idle" /\ outcome # "died" => ~IsUser(Last(Spoken(log)))

\* The conversation is replaced by its summary only when the model asked
\* for that in this very turn and the turn succeeded.
CompactsWhenAskedThisTurn ==
    [][ pc = "settling" /\ pc' = "compact" => signal = turns ]_turnVars

\* Every call has its result and every message its answer.
EverythingIsAnswered == CallsAreAnswered /\ NothingLeftUnanswered

\* A Stop ends the turn, even when the provider never answers again, but for
\* one wait: the request for the chat's name is not raced against it.
StopCutsTheTurn == stop ~> pc \in {"idle", "title_opening"}

\* A Stop ends the turn (turn.rs: "a Stop while the request is still opening
\* ends the turn at once").
StopEndsTheTurn == stop ~> pc = "idle"

-----------------------------------------------------------------------------
(* The exchange as SessionLog sees it.                                     *)

ExchangeOpen == {calls[n].id : n \in DOMAIN calls}

ExchangeRuns ==
    /\ pc \in {"round", "opening", "streaming", "deciding", "running", "recording", "settling"}
    /\ ~(pc = "settling" /\ IsAssistant(Last(Spoken(log))))

\* The shapes of what is recorded of a reply: all of it, or what a cut left.
KindsOf(shape) ==
    [n \in DOMAIN shape |-> IF IsCallOf(shape[n]) THEN "tool_use" ELSE shape[n]]

Shapes ==
    LET all  == UNION {Plans[p].replies : p \in DOMAIN Plans}
        cuts == UNION {{SubSeq(full, 1, n) : n \in 0..Len(full)} : full \in all}
    IN  {KindsOf(shape) : shape \in all \cup {Append(full, "text") : full \in all}
                                   \cup {KeptOfCut(cut) : cut \in cuts}} \ {<< >>}

Exchange == INSTANCE SessionLog WITH
    events <- Spoken(log), running <- ExchangeRuns, open <- ExchangeOpen,
    Kinds <- {"build"}, Words <- {"other words"}, Replies <- Shapes, Attached <- {0},
    Ops <- {"stop", "stand_in", "compact"}, MaxEvents <- MaxSaid

\* What a chat on this engine records, Stops and deaths included, is what
\* SessionLog's turn may record, so that what holds of every such log holds
\* of this one: a request built from it is one a provider accepts.
RecordsAnExchange == Exchange!Spec

=============================================================================
