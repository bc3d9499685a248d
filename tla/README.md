# Nightloom in TLA+

Nightloom is a desktop assistant. Its core is an append-only session log:
everything he says, every reply, every tool result and every change of mind is
one event, and what a provider is sent is a projection of the log. Around the
log stand the turn that writes it, the backend that holds several chats and
their agents at once, the engine that runs a turn as a Claude Code process, the
phone that writes into a chat from elsewhere, the server that goes on while the
desktop is closed, and the passes that make memory out of what was said.

This directory models those parts, checks them on small instances with TLC and
proves with TLAPS, for every value of the constants, the theorems that matter
most. "He" is the user, as in the code's own comments. Paths without a prefix
are under `src/crates`; `desktop/` stands for `src/apps/desktop/src-tauri/src/`
and `window/` for `src/apps/desktop/src/`.

1. [The system](#the-system)
2. [The modules](#the-modules)
3. [The runs](#the-runs)
4. [Divergences](#divergences)
5. [Bounds](#bounds)
6. [Fairness](#fairness)
7. [Proofs](#proofs)
8. [What is not modelled](#what-is-not-modelled)
9. [Plan](#plan)

## The system

### The parts modelled here

**The session log** (`nightloom-core/src/session.rs`). State: `events`, a
vector nothing in which is ever changed; an event's index is its name.
Operations append: `record` for messages, replies, results, compactions,
kinds; `rewind`, `unrewind`, `elide`, `unelide`, `elide_blocks`, `edit`,
`edit_block` for his changes of mind, each a marker naming earlier indices.
Derived from it: which events are live (`live_flags`), removed (`elide_flags`,
`block_elisions`), reworded (`edit_texts`); the messages a provider is sent
(`project_sourced`, with `answer_orphaned_calls`); a fork (`fork_from`); the
note of a kind switch; the gauge. Hard: the markers compose in any order, and
the request must be one a provider accepts after all of them. Correct when
every request pairs calls with results, no marker in force names what a rewind
took away, a restore gives back exactly what was there and a fork begins as its
parent did.

**The session file** (`session.rs`: `append_event`, `ensure_trailing_newline`,
`load`, `WriteFailure`). State: a JSONL file, and what the process remembers of
its last write. A record is a payload and a newline in two unbuffered writes,
after a repair of what a former process left. Hard: either write may fail or be
cut by a death, and the next process must tell a whole unterminated record from
a torn one. Correct when what a load finds is a correctly numbered prefix.

**The held chats** (`desktop/chats.rs`, the commands of `desktop/main.rs`,
`desktop/chat_name.rs`). State: the map of held chats, the open one, and the
chat made from "New chat"; each chat a log in memory behind a lock. Commands
run at once and let the map's lock go between two looks at it. Correct when a
message lands in the chat it was typed into, a log has one writer and nothing
but opening a chat takes the screen.

**The agents** (`desktop/agents.rs`, `nightloom-service/src/agent/warm.rs`, the
commands of `desktop/main.rs`). State: the index of Claude Code agents with the
generation of the connection they were built under, each with the conversation
it resumes and perhaps a process that waits for the next message, with timers
that kill it by age. Hard: a command reads the open chat, waits, and places or
locks an agent later. Correct when an agent is one chat's and a turn goes on
with its own chat's conversation.

**The provider turn** (`nightloom-service/src/turn.rs`, with `agent_turn.rs`
for the stand-in, `tools/compact.rs`, `tools/todo.rs`). State: the token of a
Stop, the round, the streamed reply, the calls of the round and how far each
is, the flag of `compact_context`. It records into the session log. Hard: a
Stop, an error or the process's death at any step; a batch of adjacent reads
runs together while a write runs alone. Correct when every recorded call is
answered in order, no message of his is left with nothing under it, and a Stop
ends the turn whatever the provider does.

**The recorder of a Claude Code turn** (`nightloom-service/src/agent/record.rs`,
`agent_turn.rs`). State: the blocks of the round so far, the calls still open,
what subagents said. The process's stream has no marker between two rounds; the
recorder makes replies and results of it. Hard: his messages, subagents and
late results come on the same stream. Correct when any engine can go on from
the log.

**Messages into a running Claude Code turn** (`nightloom-service/src/agent/
inbox.rs`, the read loop of `agent/mod.rs`). State: the inbox shared by the
window and the engine (waiting, taken, left, the questions out to the process),
the feed to the process's stdin, its stdout. Hard: the truth about a message is
in another process's queue, and he may take it back or send it now while it is
taken; waits run out, processes die, the turn is stopped. Correct when a
message is lost by no path, given to the model at most once, and keeps no idle
process open.

**A message from the phone** (`window/remote/Remote.svelte`,
`nightloom-service/src/remote/resent.rs`, `remote/mod.rs`, `desktop/remote.rs`,
`window/remoteHandlers.ts`). State: the page's box, the messages it holds with
their nonces, the requests under way, the listener's memory of nonces, the
host's wait for the window, the window's claim. Hard: a lost reply looks like a
lost request. Correct when one nonce runs once and no text is lost.

**The page with the desktop closed** (`nightloom-service/src/serve.rs`,
`chat_ops.rs`). State: the slot of the one turn that may run, the chats actions
hold, the pause a usage limit left, the resume that waits for the plan's window,
the logs and the trash. Hard: requests run at once and look at one lock and then
another, with a log loaded before either; timers wake on what may be over.
Correct when one turn runs at most and its slot is always given back, no chat is
changed under its turn by what holds it, a pause is resumed once, and a promised
resume goes or is told of.

**Sync of two machines** (`nightloom-service/src/sync/`, `serve.rs`,
`desktop/away.rs`). State: the Mac's files and which of them are available
away, the server's mirror and its index, the chats the server began, its list of
acknowledged ones, the Mac's copies. Hard: a pass is cut off anywhere, the
server dies between two writes, and both sides go on writing. Correct when what
goes up is whole and what comes home is never written over.

**Memory** (`nightloom-service/src/capture.rs`, `observe.rs`, `dream.rs`,
`proposal.rs`, `pass_lock.rs`, `centre.rs`). State: chats, a watermark for each
chat's capture, the inbox of observations, the watermark of the dream, the
always-loaded file with proposals, copies and records. Hard: passes of several
processes end early anywhere, a tool appends without the lock, and he edits the
file a dream replaces. Correct when nothing said is passed over, nothing is
filed twice while no pass fails, and his words stay his.

### How they interact

- The window or the phone sends a message: a command finds or makes its chat
  (*held chats*), finds or makes its agent (*agents*), locks its log, and runs a
  turn (*provider turn*, or a Claude Code process written down by the
  *recorder*).
- The turn appends to the log as it goes; each append goes through the *session
  file*. Between turns his operations append markers to the same log.
- The next request is a projection of the log (*session log*), whichever engine
  wrote it.
- While a Claude Code turn runs, messages go through the *inbox* instead of
  starting a turn; what nobody took becomes the next turn's message.
- With the desktop closed, *serve* takes the place of its window and of the held
  chats: each request loads its chat's log from disk, and claims or holds it.
- *Sync* carries the files up and the chats begun on the server home; *memory*
  reads the logs, and writes the file every chat is loaded with.

The composition is checked where it carries a property: `Turn` is shown to
record only what `SessionLog` lets a turn record, `Recorder` extends
`SessionLog`, so that turns on both engines and his operations meet on one log,
`SessionFile` implements what `SavedLog` promises of any log, and `Sync` and
`Memory` are each composed of two components.

### The parts not modelled

`PROJECT.json` lists every component with its sources and the reason. See
[What is not modelled](#what-is-not-modelled).

## The modules

| Module | Models | Rests on |
|---|---|---|
| `Session` | the pure part of `session.rs`: liveness, removals, edits, projection, forks, the note, the gauge | |
| `SessionLog`, `MCSessionLog` | a log in use: a turn that may be cut short, and his operations | `Session` |
| `SavedLog` | what a log on disk promises (abstract) | |
| `SessionFile` | the file, the two writes, repairs, crashes, loads | `SavedLog` |
| `SessionFileProofs` | the refinement and three invariants | `SessionFile`, TLAPS |
| `Chats`, `MCChats` | the held chats and the commands on them | |
| `ChatsProofs` | types, one writer of a log, new messages in new chats, the focus; of a turn: what runs beside what, whose a compaction is, every call and message answered, and that it implements `SessionLog` | `Chats`, `Turn`, `SessionLog`, TLAPS |
| `Agents`, `MCAgents` | the agents of the chats, their waiting processes, and the commands that use them | |
| `ConversationProofs` | of the logs: types, markers in force, the next request is valid, what is undone at once, what a fork sends; of what a Claude Code turn writes: the same, and that it is its stream | `SessionLog`, `Recorder`, TLAPS |
| `Turn`, `MCTurn` | a chat's turns on the provider engine | `Session`, `SessionLog` |
| `Recorder`, `MCRecorder` | Claude Code turns written into the log | `SessionLog` |
| `AgentInbox`, `MCAgentInbox` | a message sent into a running Claude Code turn | |
| `AgentInboxProofs` | types; nothing he typed is lost, given twice, or waits for nothing | `AgentInbox`, TLAPS |
| `Phone`, `MCPhone` | a message from the phone | |
| `PhoneProofs` | types; a nonce and a message run once, and what he wrote is kept | `Phone`, TLAPS |
| `Serve`, `MCServe` | requests and turns while the server runs, the usage limit and its resumes | |
| `ServeProofs` | the slot, the held chats, a pause resumed once | `Serve`, TLAPS |
| `Mirror`, `Outbox` | sync up, sync down | |
| `Sync`, `MCSync` | the two as passes of one desktop over one server | `Mirror`, `Outbox` |
| `SyncProofs` | the mirror, and what came home | `Sync`, TLAPS |
| `Observations`, `Instructions` | captures and dreams over the inbox; the always-loaded file | |
| `Memory`, `MCMemory` | the two as passes of several processes | `Observations`, `Instructions` |
| `AgentsProofs` | of the agents: each is one chat's, and resumes what its log last recorded; of the memory: nothing passed over, nothing done twice, his words kept | `Agents`, `Memory`, TLAPS |

Operators that say "Mutant:" above them are mistakes a change to the code could
make. No specification uses them; each is what a property is known to refute.

Several modules take a constant `Settings` (`Worlds` in `Phone`): the sets of
things that may happen in one behaviour, of which `Init` picks one. A setting
is a way of dividing one large instance into several small ones, and it says on
its face what is left out: a property that holds only while something stays
away names that thing (`"die" \notin may => ...`).

### Session and SessionLog

`events` is `Session.events`; positions count from 1. An event keeps its type
and the fields that markers and the projection read: of a message whether it
says anything and how many files it carries, of a reply its blocks, of a marker
its targets. A block is a kind (text, a subagent's narrative, thinking, a
replay handle, a call), and a call's id is where it was recorded. `Live`,
`ElidedIn`, `GoneIn`, `EditAt` follow `live_flags`, `elide_flags`,
`block_elisions`, `edit_texts`. `PassOver` is `project_sourced`'s loop as a
recursive function of the position, `StepAt` its arms (`UserStep`, `AnswerStep`);
`ProjectRaw` is where it ends, and `Project` adds `answer_orphaned_calls`.
`Copying` is `fork_from`'s loop. `Sift` keeps of a sequence what stands at given
places, in order: `SelectSeq` says the same by a recursion in a `LET` of the
library that the provers cannot open.

`SessionLog` has an action for each operation, guarded as the method that makes
it is: `Rewind` only to a live message of his, `Unrewind` only of a standing
rewind, `Elide`, `Unelide`, `ElideBlock`, `UnelideBlock`, `Edit`, `EditBlock`
only on what `is_elidable` and `is_editable` admit. A turn is `RecordUser`,
`RecordAssistant`, `RecordToolResult`; `Stop` lets it end anywhere, with a round
half answered, which covers a Stop, an error and a crash. `running` and `open`
stand for the turn that holds the log's lock.

### SavedLog and SessionFile

A line is a sequence of *pieces*, each a whole record or a cut one: a write
that fuses with a torn tail is a line of two pieces, which does not read. `tail`
is what follows the last newline. One record is up to three steps of the
process, `RepairTail`, `WritePayload`, `WriteNewline`, each with its failure;
`Crash` may come between any two, and may leave part of the payload. `Load`
notes the repair the next append needs: a separator after a whole record
without its newline, a cut after a torn one. `Seal` is `WriteFailure` taking
the log away: the session goes on in memory. `Damage` makes a line unreadable,
standing for a bad disk or an older version's event; a load keeps its place
with an `unknown` event.

`SavedLog` sees what a load would read, what the process holds and whether it
is down, saving or sealed. `KeepsThePromise` is the refinement, with
`saved <- Read(lines, tail)`.

### Chats

A command is a small program: `commands[c].at` is where it stands between two
takes of the index's lock, and `copy` the handle (`Arc`) it has. Copies of a
chat in memory are numbered, so that a second load of a log somebody still uses
is a second copy with its own idea of the log's length. A log is its length:
two copies disagree exactly when their lengths do. `Prune` is `prune` with its
three exceptions, `Start` is `lock_or_start_at`, `FindToOpen` / `LoadLog` /
`OpenLoaded` are `open_session`, `FindToTitle` / `TitleRecords` the rename, and
`Forget` / `MoveToTrash` the delete.

### Agents

Of a chat there is here what the agents need: whether it is open, held and
locked, and the conversation its log last recorded. `entry` is `Inner.per_chat`
with the agent of New chat (`Inner.pending`), `agent` the agents there are, with
the conversation each resumes, the process that waits and the timers of the
processes started so far. A conversation is the chat it was begun in and a
number, so that an agent with another chat's `--resume` is visible. A send reads
its resume (`ReadResume`), gets or makes its agent (`Make`, `LockAgent`), locks
its chat (`LockChat`), takes the waiting process or starts one (`TakeProcess`),
and ends;
`Prewarm` and `Fill` start a process for the next message, `TimerFires` kills
one by age, `ReadOpen` ... `Connect` is the rail's connect with the awaits that
stand between its two looks at the open chat.

The words of `use` say how he uses the window. With `careful` one command of the
rail or the list is under way at a time, and one send that is `Making`: at New
chat, and not yet past giving the chat it made its agent. With `calm` no command
of the rail or the list is under way together with anything else.

### Turn

`pc` names the await the running command is at. Every wait on the provider
(`opening`, `streaming`, `compacting`, `title_opening`, `titling`) is a step of
its own so that a Stop may come in it. `Decide` is the consent of one call,
`StartNext` starts the next batch (`Batch`: a run of adjacent read-only calls,
or one other call), `ToolReturns` ends a call, `RecordResult` appends one
result. `Settle` is the end of `run_turn_as`: the stand-in for an unanswered
message, the compaction flag taken whatever the outcome. `Die` leaves only the
log. `torn` remembers the calls a death left without results, which is what
`CallsAreAnswered` excuses.

`Exchange` instantiates `SessionLog` over this log without its titles and task
lists, so `RecordsAnExchange` carries `ReplayIsValid` and the theorems of
`ConversationProofs` to what a turn writes. `SessionLog` is told which shapes a
reply may be recorded in: those of the plans' replies, with the empty text block
a silent one is given, and what is kept of their cuts (`Shapes`).

### Recorder

`rec` is the `Recorder`: the blocks of the round, whether thinking and text are
pending, the calls open, the subagents that spoke. `TextDelta`,
`ThinkingDelta`, `ToolCall`, `ToolResult`, `PushSubagent`, `MessageDelivered`
are its methods; `FinishTurn` and `CloseCall` are `finish` with the calls it
closes, `AgentEnds` the stand-in. `stale` keeps refused calls whose result the
next turn's process delivers. `heard` is what the stream gave, kept only to
compare it with what was written. `ProviderTurn` and `HisNext` are
`SessionLog`'s own steps on the same log.

### AgentInbox

`row` is the message in the window (typed, held, sent into the turn, back in
the box, gone). `waiting`, `promoting`, `taken`, `left`, `back`, `idle` are the
fields of the inbox; `asks` the cancels out for a take back and a send now, with
their answers. `feed` and `out` are the two pipes. `cli` is the external
process, taken from how `inbox.rs` reads it: a queue of commands, a step at
which it takes them, a cancel that answers yes only for what is still queued,
an exit once its stdin ended. `reads` counts how often the model was given each
message, by this turn or the next. `Hands` says when a line can no longer be
handed to the writer, and `SilenceChecked` / `SilenceCloses`, `Stop` /
`StopCloses` / `Drained` keep apart what the code does under separate locks.

### Phone

A text is written once, and a message is the set of texts joined in it.
`tries[i]` is a request with what the page, the wire, the host and the window
each know of it; the page hears an answer or nothing (`HearTaken`,
`HearRefused`, `HearNothing`), the listener remembers a nonce as running or
done (`Arrives`), the host gives a call up at its deadline or grants the grace
of a claimed one (`Deadline`, `GraceOver`), the window claims it (`Claim`) and
takes or refuses it. `NonceFor` is the rule of `lastTry`: the same words under
the same nonce until they are known to have landed. `ran` is what the window
ran, in order.

### Serve

A request is a record of how far it is (`requests[r].at`): between two of its
places nothing is held but what `turn`, `acting` and `pause` say, which are the
fields of `ServeHost` of those names. `Send` and `Change` load a log before
anything is claimed, as `send_with` and `act` do; `read` says whether what was
loaded is still all there is. `MayClaim` is `claim`, `Hold` is `hold`, `LetGo`
the drop of `Acting`. An edit that is sent goes `EditClaims`, `EditForks`,
`EditSends`: it takes the slot under `FORKING`, makes a fork, and gives the slot
to it. A turn's task is in `running` from `spawn_turn` to its last lines, which
are two steps, for `after_turn` is over before the slot is free. `Press`,
`PressLooks`, `Schedule` are `resume_limit` with its three locks one after the
other, `Wakes` the timer, `TakePause`, `LoadPaused`, `PutBack` are `resume_now`.
Time is the number of the plan's windows that have opened; a pause waits for the
next, or for none where the CLI did not say. Which change a request makes to a
log matters to `SessionLog` and not here: `Edit` stands for every write that
leaves the chat where it is.

### Mirror, Outbox and Sync

A file's content is a version that only grows, 0 for no file; a hash is then
the version itself. `Collect`, `ApplyManifest`, `Send`, `PutDone` are the push:
the manifest names the Mac's snapshot, the server drops what is no longer named
and asks for what it lacks, and every put writes a file and then its index.
`Outbox` is the way down. A log is its number of records with the CLI version it
names. `OpenOutbox`, `HashLog`, `HashCli` are the outbox the server lists,
`GetLog`, `GetCli`, `PlaceCli`, `PlaceLog` the pull with the log placed last,
`Ack` and `AckListed` the acknowledgement that puts a chat on the acked list and
makes its log read-only. A send asks whose the chat is (`SendMore`, `Fork`),
opens its log (`LoadLog`; a new chat's is open once it is made) and takes the
turn's slot (`Claim`), with an await before each of the last two. A log made
read-only cannot be opened, but whoever has it open goes on writing it (`Open`,
`Record`). `Claim`, `CliWrites`, `TurnEnds` are a turn of the server,
`GoesOn` is his work on a chat that came home. `Sync` runs the two halves one
after the other and adds the faults: `MacStops` (a quit or a failed request) and
`ServerDies`.

### Observations, Instructions and Memory

The inbox is the sequence of writes as they fell, payloads and newlines, so that
a line two writers share is one that does not parse. A capture takes the lock,
folds the unread part of logs, or as much of it as its budget takes, appends an
observation in two writes and moves its watermarks; a dream takes the lock, reads the backlog, files it group by
group and advances one watermark. `Instructions` follows the always-loaded
file through a dream's turn: quoted, proposed, compared, copied, replaced,
recorded; `Revert` and `Dismiss` are his. `Memory` runs both in one or two
processes, where `Fault` ends a pass anywhere with its lock released.

## The runs

| Run | Configuration | Distinct states | Question |
|---|---|---|---|
| `log_rewind` | `MCSessionLog_rewind` | 239 058 | rewinds, restores, removals, rewordings, compactions and switches of kind around a round that may be cut short |
| `recorder` | `MCRecorder_engines` | 61 772 | turns on Claude Code and on a provider on one log, with his operations on turns and blocks between them |
| `session_file` | `SessionFile` | 16 191 | failures and crashes at every point of a write, three restarts, one damaged line |
| `chats` | `MCChats_all` | 1 728 130 | the window's commands interleaved at every step |
| `agents` | `MCAgents_held` | 1 982 265 | agents of two chats and New chat under messages, connects, opened and deleted chats, waiting processes |
| `turn` | `MCTurn_turns` | 49 714 | a turn of two rounds of up to three calls, and two turns of one chat; a Stop, an error, a death anywhere |
| `inbox` | `MCAgentInbox_all` | 772 567 | messages sent into a running turn, taken back and sent now |
| `phone` | `MCPhone_all` | 251 990 | messages from the phone, lost, resent, refused, answered late |
| `serve` | `MCServe_all` | 688 872 | the phone's requests and a turn with the desktop closed, and resumes after the usage limit |
| `sync` | `MCSync_pass` | 110 363 | passes of two machines cut short while both sides write |
| `memory` | `MCMemory_passes` | 278 472 | captures and dreams of two processes, ended early anywhere |
| `agents_switch` | `MCAgents_switch` | violation | `ResumesItsOwn` |

What they show:

- **`log_rewind`** Whatever was rewound, restored, removed or compacted, and
  wherever a turn was cut, the next request is one a provider accepts and tells
  of a switch of kind what a shell was told (`NextRequestIsRight`); a marker in
  force names only what is in force (`LiveMarkersTargetLive`); a rewind lifted
  at once gives back exactly the conversation (`UnrewindUndoesRewind`).
- **`recorder`** The same validity on logs that a Claude Code turn wrote, when
  calls go one by one with the handle that led to each; what he removes,
  restores or forks is as it was (`UndoneExactly`); and the turn is on the log
  as its stream gave it, every call with one result, whatever was refused,
  delivered late or cut by a death (`WrittenAsHeard`).
- **`session_file`** No marker is re-aimed at another event by any number of
  failures and repairs (`MarkersKeepTheirAim`), and the whole implements
  `SavedLog` (`KeepsThePromise`): a load finds a correctly numbered prefix, a
  repair never takes a committed line, a sealed session says truly how far the
  disk goes.
- **`chats`** A message typed at New chat lands in a chat made after it
  (`NewMessageInNewChat`), only opening a chat moves him to it
  (`OnlyOpeningMovesTheFocus`), an ephemeral chat is never let go; and where no
  command deletes and one at a time is between a read of a log file and what it
  does with it, a held copy is as long as its log, a turn writes the held copy
  and the open chat is held (`HeldWhileNeeded`).
- **`agents`** With one command of the rail or the list at a time, and one
  message on its way to a chat it makes, an agent is one chat's and no turn runs another chat's conversation (`OwnAgents`); when
  none of them overlaps a turn, a turn goes on with the conversation its log
  last recorded (`CalmlyResumesTheLogs`); a process is killed by age only by the
  timer started with it (`OnlyItsOwnTimer`).
- **`turn`** Every call of a recorded reply has its result right after it, in
  call order, and no message of his is left with nothing under it
  (`EverythingIsAnswered`); only adjacent reads overlap (`WritesRunAlone`); a
  compaction asked for in a failed turn is not run by the next
  (`CompactsWhenAskedThisTurn`); a Stop ends everything but the opening of the
  name's request (`StopCutsTheTurn`); and the log is one `SessionLog` allows
  (`RecordsAnExchange`).
- **`inbox`** A row leaves the window only once the model has the message,
  with everything that can go wrong (`NothingLost`); in a turn that is not
  stopped, does not die and was not begun in silence, no message reaches the
  model twice or after it is back in the box (`ReadOnce`); with cancels answered
  in time a waiting message can still come (`StillOnItsWay`) and the turn ends
  (`TurnIsOver`).
- **`phone`** While the listener remembers, one nonce runs once (`NonceOnce`);
  while he also neither takes a held message back nor writes on while it is
  under way nor reloads the page, a message runs once (`MessageOnce`); no text
  is lost to refusals, lost requests or a restart of the listener
  (`KeptUntilTaken`); with nothing but losses every held message goes
  (`HeldGoes`).
- **`serve`** One turn runs at most, its slot is its chat's and free when
  nothing runs, whatever failed (`SlotIsTheTurns`); one request at a time holds
  a chat to change it, and none while its turn runs (`ChangesApart`: a rename
  holds nothing, asks only whether a turn runs, and may write in one that began
  since); a pause is resumed once
  however often he presses and whichever timer wakes, and never into a window
  that is not open (`ResumedOnce`); a resume he was told is scheduled goes, or he
  is told that it did not, or a turn of the chat has ended the pause
  (`ScheduledIsSettled`).
- **`sync`** After a push that went through, the mirror has what the Mac has
  marked, and nothing more where the server has not died inside a put
  (`MirrorIsTheMacs`); a log is never at home without the Claude Code session it
  resumes (`HomeWithItsSession`); what came home is not replaced, and what was
  acknowledged is not opened or written again once nobody has it open
  (`StandsAtBothEnds`); a chat left alone comes home at last (`ComesHome`).
- **`memory`** No watermark passes what was not observed or not filed
  (`NothingPassedOver`); while no pass fails nothing is observed or filed twice
  (`OnceEach`); his words in the always-loaded file are there or in a copy, and
  a dream replaces only the text it quoted (`InstructionsStayHis`); everything
  said is filed at last (`EverythingFiled`).

## Divergences

The violation run is a finding, listed in `PROJECT.json` with its line:

- `agents_switch`: `connect_agent` reads the open chat once, waits, and gives
  the agent it built to whatever chat is open by then. That chat's next turn
  continues the first chat's conversation and writes it into its own log.

The rest of this section lists more places where the code and what it says of
itself part. They are why the passing runs are restricted as they are, and each
property above that names a setting it excludes has its reason here. Each is
checked by `tlc -config <name>.cfg <module>.tla` and ends in the violation
named. Where the first column says *as X with ...*, the configuration is `X`
with the constants and the property changed as it says.

| Configuration | Violates | What happens |
|---|---|---|
| `MCSessionLog_forkkind` | `ForkReplaysTheCut` | `fork_from` gives the fork the parent's kind of now (`let kind = self.kind()`), so a note the parent sent for a switch before the cut is missing from the fork's replay |
| `MCSessionLog_gauge` | `GaugeReadsTheWire` | `context_usage` reads the last live reply, which after a failed turn is the stand-in with no usage, that no request carries |
| as `_gauge`, `UserTurnsAlternate` | `UserTurnsAlternate` | a stand-in is left off the wire, so the next request has two messages of his side by side, which the Anthropic adapter elsewhere takes care to avoid |
| `MCRecorder_steps` | `ReplayIsValid` | two subagents of one round: the first's result closes the round, the second goes on speaking, and its result writes a reply that holds nothing but that narrative between the two results, so the second no longer follows its call and a provider refuses the log |
| as `MCRecorder_steps`, `Settings <- Early` | `ReplayIsValid` | his message is delivered between a call and its result, and is recorded between them |
| as `MCRecorder_steps`, `Settings <- Again` | `HeardInOrder` | a round ends in words, the next one thinks before it calls: one reply holds both with the thinking first |
| `MCChats_writers` | `HeldCopyIsTheLog` | a rename asks the index once whether the chat is held; when it is not, it loads and writes a copy of its own, while opening the chat may already have read the file |
| `MCChats_deletes` | `FocusIsHeld` | `focus_held` lets the index's lock go between finding the chat and setting the focus; a delete in between leaves the focus on a chat that is not held, and a message typed there then makes a new chat |
| `MCChats_deletes` (with `-continue`) | `NoTurnInTheTrash` | a delete refuses only a chat whose lock is taken; a send that has read its target and not yet taken the lock runs its turn in the log that was moved |
| as `MCAgents_switch`, `OnDisk = {}`, `OneChatPerAgent` | `OneChatPerAgent` | of two messages typed at New chat the second waits for the first one's agent; he opens the chat the first made, so the second makes a chat of its own, and gives it that agent |
| as `MCAgents_switch`, `OnDisk = {}`, `Uses <- Careful`, `ResumesTheLogs` | `ResumesTheLogs` | a connect reads New chat's empty resume while its first turn runs and places the agent when it has ended: the second message begins a new conversation |
| `MCTurn_title` | `StopEndsTheTurn` | `title` awaits the opening of its request without racing the token, so a Stop late in a first turn waits for a silent provider |
| `MCAgentInbox_slow` | `TurnEndsAtLast` | a cancel granted after the take back stopped waiting leaves nothing waiting, the main thread idle and the feed open: only a take back's yes and a `result` close an idle process's stdin |
| `MCAgentInbox_stop` | `GivenOnce` | after a Stop the rest of the output is not given to the inbox: a message whose `started` line was in it is sent again as the next turn |
| as `_stop`, `ToldDeliveredIsTrue` as a property | `ToldDeliveredIsTrue` | a Stop closes the inbox twice, and the second close empties the record of what went nowhere, so a take back of it says "delivered" |
| as `_stop`, `Settings <- Silent` | `GivenOnce` | the silence check and the close it decides are two locks; a message sent between them is run and sent again |
| as `_stop`, `Settings <- Dead` | `BoxIsUnread` | the writer fails on a process that died before its last lines were read; the take back says the message is his though the process took it |
| as `MCServe_all`, `Uses <- MCElsewhere` | `ScheduledIsSettled` | there is one pause for all chats: a limit met in another chat replaces it, and the first chat's scheduled resume is never sent and nobody is told |
| as `MCServe_all`, `Uses <- MCSlow` | `ScheduledIsSettled` | a press that looked before the turn ended schedules after it, and puts its own resume, of a pause that is over, in the place of a newer promise |
| as `MCServe_all`, `Uses <- MCListed`, `NoTurnsChatChanges` | `NoTurnsChatChanges` | an edit-and-send holds its own chat and the slot under `FORKING`; its fork is in the list before the slot is the fork's, and may be changed as its turn begins |
| as `MCServe_all`, `Uses <- MCLate`, `WorksOnTheLog` | `WorksOnTheLog` | a message or a change loads the log before it claims or holds the chat; what another wrote in between is not in the copy it then writes with |
| as `MCServe_all`, `Uses <- MCUses`, `NoEmptyChat` | `NoEmptyChat` | `new_chat` asks whether a turn runs and creates the log before it claims; refused by then, it leaves the empty chat its comment says it does not |
| as `MCServe_all`, `TurnsInTheFolder` | `TurnsInTheFolder` | a chat deleted between a message's load and its claim has its turn run in the trash |
| `MCSync_behind` | `NothingLeftBehind` | the acknowledgement names chats and not what was copied of them; a turn that began and ended in between stays on the server, read-only, and the Mac's copy lacks it for good |
| as `_behind`, `AckedUntouched` as a property | `AckedUntouched` | a send, or a new chat's first message, opens the log and claims its turn after an await; acknowledged in between, the chat has its turn written into the read-only log through the open handle, where `send_with` says "the original stays byte-identical" |
| as `_behind`, `MaxFaults = 1`, `Settings <- Dying` | `MirrorHasNoMore` | a server that dies between a file and its index keeps a copy its index does not know, so a file he unmarks then is never dropped |
| `MCMemory_glued` | `RememberedIsRead` | an append is two writes under no lock; two that meet share a line, which does not parse, and the watermark passes it though both calls said "remembered" |
| as `_glued`, `Settings <- Saving` | `WordsKept` | he saves the always-loaded file between the dream's last look at it and its rename |
| `MCPhone_ahead` | `Kept` | he begins the next message while one is on its way; refused, the first is put back only into an empty box, and is in no box, queue or transcript |
| as `_ahead`, `Worlds = {{"impatient", "refuses"}}` | `Kept` | a resend is answered "sent" while the first try still runs, and the first is then refused |
| as `_ahead`, `Worlds = {{"late"}}` | `Kept` | a claimed call that refuses after the grace was already answered "sent" |
| as `_ahead`, `Worlds = {{"again", "refuses"}}` | `Kept` | the queue drained twice at once sends a message under its nonce twice; one is answered "sent" for work the other's refusal undoes |
| as `_ahead`, `Photos = {photo}`, `Worlds = {{"swap"}}` | `Kept` | the key of a message names its words, not its files: other files under the same words go under the old nonce and are taken for a resend |
| as `_ahead`, `Worlds = {{"back"}}` | `MessageRunsOnce` | a held message taken back loses its nonce and is sent under a new one, though its first try landed |
| as `_ahead`, `Photos = {photo}`, `Worlds = {{"ahead"}}` | `MessageRunsOnce` | another message's landing clears `lastTry`, and the one in doubt is sent under a new nonce |
| as `_ahead`, `Worlds = {{"forgets"}}` | `NonceRunsOnce` | a restart of the listener, or half an hour, forgets the nonce of a message that ran |
| as `_ahead`, `Worlds = {{"reload"}}`, `MaxLosses = 2` | `EveryHeldGoes` | the first hello after a load returns before `drainQueue` |
| as `_ahead`, `Worlds = {{"half"}}` | `EveryHeldGoes` | a request fails while the event stream lives on, and nothing calls `drainQueue` |
| as `_ahead`, `Worlds = {{"refuses"}}`, `Slots = {1, 2, 3}` | `EveryHeldGoes` | the oldest held message is refused, and the next is not tried until something else calls `drainQueue` |

## Bounds

- **`SessionLog`: `MaxEvents` 6, `Replies`, `Kinds`, `Words`, `Attached`,
  `Ops`.** Six events after the creation line are enough for two messages, a
  reply with two calls, one or two results, a rewind and its restore, or a
  removal under a rewind; every pair of markers that can overlap does. `Ops`
  and the shapes of reply divide the operations between `log_rewind` (turns
  and rewinds) and `recorder` (blocks and edits). One other word is enough for
  an edit, since the projection never compares words.
- **`Recorder`: `MaxHeard` 4, `MaxCalls` 2, `MaxTurns` 2, `Attached` {0}.** Two calls make a
  round whose results may part; a second turn is where a refused call's late
  result arrives. The settings keep apart subagents, his messages and his
  operations; `MCRecorder_steps` needs five items of a stream. Files of a message
  only matter to an edit of it, which `log_rewind` has.
- **`SessionFile`: `MaxEvents` 4, `MaxLoads` 3, `MaxDamage` 1.** Four events
  fail and fuse in every pairing, one of them after a damaged line; three
  restarts let a repair be torn, repaired and followed by another process. The
  theorems need no bound.
- **`Chats`: 3 chats, of which one has a log, 2 commands, and 3 where one at a
  time is at the files; `MaxLength` 2.** Each violation needs two commands; a
  third lets a chat be let go while two use it. Lengths that differ by one tell
  copies apart. Commands, and chats not made yet, are interchangeable
  (`Symmetry`); no liveness is checked under it.
- **`Agents`: 2 chats, none on disk, and New chat, 2 commands, `MaxTalks` 1,
  `MaxFills` 2.** Chats and commands are interchangeable (`Symmetry`). Two commands make every overlap of an agent's use with its
  replacement; two fills are a timer and a process younger than it. A chat's
  second conversation would be told from its first only by the model.
- **`Turn`: `MaxRounds` 2, plans of one full turn and of two short ones, up to
  three calls.** Three calls make a run of reads before, after and around a
  write; a second round and a second turn are where what a first one left could
  matter. `MaxSaid` 100 is `SessionLog`'s bound on the log it is compared with,
  which no exchange of these plans reaches.
- **`AgentInbox`: 2 messages; each is taken back and sent now at most once.** A
  second message matters where one keeps the process open for the other; what
  stops, dies or resumes in silence is explored with one. A message is under at
  most two wires, since a send now resends it once. The theorems need no bound.
- **`Phone`: 2 texts with the same words, one with a file, 2 requests at a time,
  2 nonces, 1 loss.** Two requests are a first try and its resend; the texts tell
  words from files. The worlds combine the hardships that interact.
- **`Serve`: 2 requests at once, 2 chats of which one is there at the start, 2
  pauses; `Uses`.** Two requests with the turn they began are what every lock of
  the host keeps apart: a third could only be refused by the same two. A timer is
  one of the two until it wakes. A second chat is a fork or a new one; a second
  pause is what a first one's resume must not take. In the passing run he is not
  limited in a chat while another is paused, does not change a fork before its
  turn has begun, and a turn does not end between two looks of one press: the
  words `elsewhere`, `listed` and `slow` name those, and Divergences shows what
  each does.
- **`Sync`: 1 file of 2 versions, 2 chats of 6 records, 2 faults.** Six records
  are two turns and a fork's; a second fault strikes the pass that repairs the
  first. Files do not interact. One send at a time is between its question and
  its claim: what it asks and opens does not depend on another's.
- **`Memory`: 2 processes, 2 chats of 2 lines, 1 call of `remember`, 2 edits, 2
  proposals, 1 fault.** A second line is a watermark with something behind it and
  before it; a second edit and proposal are a Revert with something to undo.

Deadlock is checked in `agents` and `serve`: a request can always be made or go
on. In the other runs
it is not, since all of them end, at a bound or when the turn is over.

## Fairness

- **`Turn!FairSpec`** The engine's own steps are weakly fair: they are
  synchronous code between awaits, run by tokio. Nothing is asked of the
  provider: a request may open never, a stream say nothing for ever. Once the
  token is cancelled, `WindowApprover` denies what it has open, tools get the
  token and return, and the streams of the summary and the name are raced
  against it; those four are weakly fair only then. Nobody is made to send or
  to stop.
- **`AgentInbox!FairSpec`** The read loop reads what there is, and a command
  with its answer, or whose wait ran out, goes on. The process reads its stdin,
  takes what is queued, finishes what it does (strongly fair, for a message
  taken meanwhile makes it busy again) and exits when idle with its stdin
  ended: that is what the engine relies on. Nobody is made to type, stop, take
  back or die.
- **`Sync!Spec`** The desktop's loop begins a pass every quarter of an hour, so
  a push and a pull go on and are begun again (weakly fair), and a send on the
  server goes on and its turn ends by itself. Faults are bounded and not fair.
- **`Serve!FairSpec`** A request goes on, a timer that is due wakes, and the
  plan's window opens (weakly fair): tokio runs them, and time passes. Nobody is
  made to press, a turn need not end, and which way a step goes is free.
- **`Memory!Spec`** A pass that began goes on (weakly fair); passes of each kind
  are begun again and again, which the lock may keep from one of them for a
  while (strongly fair). He and the tool are not made to do anything.
- **`Phone!FairSpec`** The page's stream reconnects and its callbacks run, a
  request arrives or is lost, the host's call is claimed and answered, a turn
  ends. A world with hardships is not asked for liveness; losses are bounded.

All other properties are safety and need no fairness.

## Proofs

Proved for every value of the constants, by `tlapm` (SMT, Zenon, PTL):

| Theorem | Says | Argument |
|---|---|---|
| `ConversationProofs!TypeCorrect` | `Spec => []TypeOK` | inductive: one lemma says what each operation appends, one that appending an event that points back keeps it, and `TypeStep` has a case per operation |
| `ConversationProofs!MarkersInForce` | `Spec => []LiveMarkersTargetLive` | *MarkersInForce* below |
| `ConversationProofs!LogIsWhole` | `Spec => []LogInv` | *LogInv* below |
| `ConversationProofs!RequestsAreRight` | `Spec => []NextRequestIsRight` | *The projection* below |
| `ConversationProofs!LiftingUndoes` | `Spec => []UnrewindUndoesRewind` | the two logs agree on what is in force and removed (`Agree`), and logs that agree project alike (`AgreeProject`) |
| `ConversationProofs!RestoringUndoes` | `Spec => []RestoreIsExact`, part of `UndoneExactly` | the same |
| `ConversationProofs!ForksReplay` | `Spec => [](OfOneKind => ForkReplaysTheCut)`: no switch of kind is in force | *The fork* below |
| `ConversationProofs!UndoneAsItWas` | `Spec => []UndoneExactly`, if `"kind"` is not in `Ops` | the three above, and that no event is then a switch of kind |
| `ConversationProofs!RecorderTyped` | `RecSpec => []RecTypeOK`, if no setting has `"steps"` or `"early"` | from `RecInv` |
| `ConversationProofs!RecordedRequests` | `RecSpec => []NextRequestIsRight`, likewise | *RecInv* below |
| `ConversationProofs!RecordedAsHeard` | `RecSpec => []WrittenAsHeard`, if no setting has `"again"` either | *HeardInv* below |
| `SessionFileProofs!FileKeepsItsShape` | `Spec => []TypeOK` | with `FileInv` |
| `SessionFileProofs!FileKeepsThePromise` | `Spec => KeepsThePromise`: the file implements `SavedLog` | `SavedStep` maps each action to a step of `SavedLog` or a stutter, under `FileInv` |
| `SessionFileProofs!DiskHoldsAPrefix` | `Spec => []PrefixOnDisk` | from `FileInv` |
| `SessionFileProofs!MarkersStayAimed` | `Spec => []MarkersKeepTheirAim` | its own invariant on what is read, held and pending, kept beside `FileInv` (`AimStep`) |
| `ChatsProofs!TypesHold` | `Spec => []TypeOK` | from `Typed` |
| `ChatsProofs!NewChatIsNew` | `Spec => []NewMessageInNewChat` | *OneWriter* below |
| `ChatsProofs!HeldForAll` | `Spec => []HeldWhileNeeded` | *OneWriter* below |
| `ChatsProofs!OpeningMovesTheFocus` | `Spec => OnlyOpeningMovesTheFocus`, an action property | a case per operation: whatever else sets the focus sets it from or to New chat |
| `ChatsProofs!WritesAreAlone` | `TurnSpec => []WritesRunAlone` | *CallsInv* below |
| `ChatsProofs!CompactsAsAsked` | `TurnSpec => CompactsWhenAskedThisTurn`, an action property | `FlagInv`: the flag is of the running turn, and down when none runs; only `Settle` goes to a compaction, and only with the flag up |
| `ChatsProofs!AllIsAnswered` | `TurnSpec => []EverythingIsAnswered` | *SaidInv* below |
| `ChatsProofs!TurnsAreExchanges` | `TurnSpec => RecordsAnExchange`: a turn implements `SessionLog`, while the exchange is within `MaxSaid` | *The exchange* below |
| `AgentInboxProofs!TypesHold` | `Spec => []TypeOK` | from `Shape` |
| `AgentInboxProofs!NothingHeTypedIsLost` | `Spec => []NothingLost` | *Given* below |
| `AgentInboxProofs!ReadOnceHolds` | `Spec => []ReadOnce` | *Once* below |
| `AgentInboxProofs!StillOnItsWayHolds` | `Spec => []StillOnItsWay` | *Way* below |
| `AgentsProofs!AgentsAreTheirChats` | `AgentsSpec => []OwnAgents`, if he always uses the window with care | *AgentsInv* below |
| `AgentsProofs!AgeKillsItsOwn` | `AgentsSpec => OnlyItsOwnTimer`, an action property, with the same care | from *AgentsInv*: an agent that is kept keeps its timers, and a timer goes by firing (`TimersStay`, a case per operation) |
| `AgentsProofs!CalmTurnsResumeTheLogs` | `AgentsSpec => []CalmlyResumesTheLogs`, with the same care | *CalmInv* below |
| `PhoneProofs!TypesHold` | `Spec => []TypeOK` | inductive; one lemma for the page's writing, hearing, queue and link, the host and the window |
| `PhoneProofs!NonceIsRunOnce` | `Spec => []NonceOnce` | *RunInv* below |
| `PhoneProofs!MessageRuns` | `Spec => []MessageOnce` | *OnceInv* below |
| `PhoneProofs!NothingHeWroteIsLost` | `Spec => []KeptUntilTaken` | *KeptInv* below |
| `ServeProofs!TheSlotIsTheTurns` | `Spec => []SlotIsTheTurns` | *ServeInv* below |
| `ServeProofs!ChatsChangeApart` | `Spec => []ChangesApart` | *ServeInv* below |
| `ServeProofs!PausesAreResumedOnce` | `Spec => []ResumedOnce` | *ServeInv* below |
| `SyncProofs!TheMirror` | `Spec => []MirrorIsTheMacs` | *UpInv* below |
| `SyncProofs!LogsComeWithTheirSessions` | `Spec => []HomeWithItsSession` | *DownInv* below |
| `SyncProofs!BothEndsStand` | `Spec => StandsAtBothEnds`, an action property | from `DownInv` and what a step may do to a log and to who has it open (`LogsGrow`), and to a copy (`HomeStays`) |
| `AgentsProofs!NothingIsPassedOver` | `Spec => []NothingPassedOver` | *ObsInv* below |
| `AgentsProofs!EachOnce` | `Spec => []OnceEach` | *OneInAPass* below |
| `AgentsProofs!InstructionsAreHis` | `Spec => []InstructionsStayHis`, if no setting has `"window"` | `InsInv` ties the dream's draft to the file: between the comparison and the rename the file is what was quoted |

*MarkersInForce.* That a live marker targets live events is not inductive: a
marker that is itself rewound is not live now, and an unrewind can bring it
back. `StandingClear` says of **every** marker, live or not, that no rewind
still in force and older than the marker took away what it names. It is
preserved because lifting a rewind only removes obligations
(`StandingShrinks`), a new rewind is younger than every marker, and a new
marker may only name what is live, which is what `elide`, `edit` and the others
check. `ClearIsLive` then gives the property.

*LogInv.* A request is valid because of what a log is, not of what a step does:
a call is on one reply, once, and only results stand between a call and its
result (`EventsFit`), which is why a provider can be shown the two side by side;
and a call a running turn has open could still be answered at the end of the log
(`OpenFits`), which is what makes recording the next result keep the first. His
own operations keep both since a turn's lock keeps them out while calls are open.
A rewind needs no clause: it cuts at a message of his, so a call and its results
are on one side of every cut (`AskerIsLive`).

*The projection.* `PassOver` is followed event by event: `PassOk` says of the
messages so far that each is a reply of the log or holds what the log has between
replies, that results stand in a round right after the reply that asked for
them, and which live event each came from. At the end `Raw` holds of the list;
`Missing`, `WithRepairs` and `NoRound` are then what `answer_orphaned_calls` needs
to leave a list in which every call is answered right after it, once
(`SoundList`, by induction over the messages). Replay handles keep their place
before their call through `Sift`, which keeps order (`SiftIs`). The note: the
pass's `told` and `switch` are, after each event, the last kind told and the last
switch not told (`ToldOk`), which is what `kind_switch_note` reads off the log.

*The fork.* `CopyOk` follows `fork_from`'s loop event by event: each source is at
its new place or nowhere, and the copy only grows (`CopyIs`, `CopyGrows`).
`Mirrors` then relates the log rewound to the cut and its copy: every event in
force is copied, in order and with its markers re-aimed, except the creation
line and the markers that name nothing. It holds because a live marker targets
live events: what a copied marker names was copied before it. So removals and edits read
the same (`MirrorRemoved`, `MirrorEdits`), what is projected is the same but for
positions (`SameContent`), the pass and the repair keep that (`SamePass`,
`SameAnswers`), and `Unsourced` forgets the positions. `OfOneKind` is needed: a
fork takes the kind its parent has now, and `MCSessionLog_forkkind` shows what
that does to a cut before a switch.

*RecInv.* The recorder's part of the log's invariant: its blocks are a reply that
could be appended, with calls nobody else has (`NewCalls`); the calls still open
are on the log, unanswered, and only results come after them (`RecOpen`); what
the last process still owes was closed before (`stale`). The log itself is again
`LogInv`'s, so everything proved of a log holds of what Claude Code's turns
write. With `"steps"` or `"early"` this fails, and the code with it
(*Divergences*): words between the results of one round.

*HeardInv.* The stream so far is what the log has of the turn, then what the
recorder would write now (`Holding`): thinking, then text, then what subagents
said. An item of the stream extends the right end; a flush moves items from the
one to the other without changing the whole. `finish` only adds results for the
calls still open, after everything heard. With `"again"` a later thought is held
before earlier words, and the code writes them in that order.

*FileInv.* It ties three things that change at different moments: what a load
would read now (`Found`), what the process holds (`events`), and how far the
record in progress has come (`step`, `repair`). While idle they agree up to
what does not read; between payload and newline the disk is one ahead, by
exactly the pending event; once sealed the disk is behind. Without the clause
on the step, a crash after the payload could not be shown to leave a readable
record in its place.

*OneWriter.* That a log has one writer is not inductive: a copy handed to a
command outlives the index entry it came from, and a command that read the
index before a delete acts on it after. `OneWriter` is the strengthening, under
the condition of the property (one command at a time at the files, none forgets
a chat): a handle a command holds is of the copy the index holds
(`HandleIsHeld`), what a command at the files has read of them still stands
(`FilesAlone`), that copy is the log (`HeldCopyIsTheLog`), and the open chat is
held. `Born` and `MadeSince` carry the other half: a chat made from New chat
since a send began is remembered as such until it is opened over. Copies are
numbered, and a load takes a number nobody uses; that there always is one is a
pigeonhole over the commands (`FreshIs`), the one place where their set must be
finite.

*Given.* A row goes for three reasons, and the invariant is that each is true:
the model was given what the turn counts as taken, and every `started` line on
its way to the engine is of a message the model was given already. `Shape` adds
what makes the lines well formed, that nothing follows the end of the feed and
that an inbox closed for good stays empty. Nothing about Stops, deaths or late
answers is needed: they lose answers, and no answer makes a row go.

*Once.* In a turn that is neither stopped nor dies, a message is in one place at
most: a row that waits, one line of the feed, one entry of the process's queue,
or a send-now that will write it again under its next wire. Every line is under
a wire the inbox has given out, a `cancelled` line comes before the answer that
says so, and the process ends only after its feed did; so that when a message is
written again, nothing of its earlier wire can still be read. That the model
never reads a message he took back needs the same places: a granted cancel is
the proof that the message was in none of them.

*Way.* With every cancel answered in time, each cancel has exactly one line
still unread, or one answer still unread, and while it does its row is marked as
asked (`AskedOnce`); and a waiting message has its line in the feed or in the
queue, a line that says it started, or a granted cancel behind which it will be
dropped (`OnItsWay`). The two are proved together: that the process answers a
cancel of a message it no longer has is what the second asks of the first.

*CallsInv.* That only neighbouring reads overlap is not inductive: a batch
starts in the middle of a round, and nothing in the property says how far the
calls around it are. `CallsSoFar` gives the states a call may have at each step
of the round, and `StartedInOrder` that what runs or ran stands before what
waits. So when the first waiting call starts, all before it is settled and all
after it has not begun, and `BatchIs` says what starts with it: a run of calls
without a gap, reads unless it is the one call.

*SaidInv.* That the results of a reply stand right after it is not inductive: in
the middle of a round they do not yet. `Answered` says it of every reply when the
calls still open count as lost (`InPlace`, `Lost`), and of the last that its open
calls come, in order, after those with a result, which end the exchange
(`AskedBy`). So the next result falls in its place (`AnsweredResult`), a death
only turns open calls into torn ones (`AnsweredDie`), and when none is open what
remains is the property. A reply is recorded only when none is open, by `CallsInv`.
`Heard` names the steps at which the last event is not his message; a turn that
ends elsewhere finds the message unanswered and leaves the stand-in.

*The exchange.* Each action of `Turn` is given the action of `SessionLog` it is,
from its state under `SaidInv` (`RunTurnMaps` to `DieMaps`): the blocks recorded
are those of a shape `SessionLog` may record (`ShapesAre`, for which `MoreInv`
keeps the reply so far the beginning of one), the calls asked are its open calls,
and a result closes one since their ids differ. A step that ends a turn early is
its `Stop`. The hard case is the compaction: `Turn` asks whether the log has a
reply of the model's after the last summary, `SessionLog` whether the projected
messages have one. `PassSpeaks` follows the pass event by event (a message of
the model's stays until a summary replaces everything), and `RepairSpeaks` shows
that answering orphaned calls takes none away. The hypothesis that the exchange
stays within `MaxSaid` is only `SessionLog`'s own bound on its log, any number.

*AgentsInv.* That an agent is one chat's needs to be known of every command that
has it. The agent of an index entry, and that of a send, resumes a conversation
of its own chat or none (`EntryOwn`, `HasOwn`); a send's agent is in the index
for no other chat, save for New chat until the chat just made is given it; two
sends with one agent are about one chat (`SharedAgent`), which needs that one of
them is at New chat at most (`OneMaking`); and what a command of the rail has
read is of the chat that is open when it uses it (`ReadOwn`, `OneAtTheRail`).
An agent nobody has is dropped (`DroppedIsReset`), so one taken for a new
connection has nothing of an earlier chat; that there is a free one is a
pigeonhole over the chats and the commands, which is why both must be finite
(`UnusedIs`). Without the care the property is false: the divergences of
`MCAgents_switch` are its counterexamples.

*CalmInv.* One turn runs in a chat at a time (`OneTurnAChat`, with or without
calm). With it, a command of the rail or the list is alone (`RailAlone`), every
entry is of the newest connection and its agent resumes what its chat's log last
recorded (`UpToDate`), and a send has the agent the index has for its chat
(`HasIndexed`). The exception is a chat just made: while it has no agent it has
no record, and whoever else means to write to it has not read it. What a connect
or an open has read is the latest of the open chat (`ReadLatest`), and what is
open, in use or in the index is a chat there is, or about to be forgotten
(`AllLive`). It is kept beside *AgentsInv*.

*RunInv.* A nonce is run twice only if two requests of it reach the window. The
invariant says that, while the listener remembers, a request the host waits for
or the window has begun is the only one of its nonce (`RunsAlone`), that a nonce
so used is remembered as running (`Remembered`), that what ran was taken
(`RunnerTook`), and that what the window has begun the host knows to be claimed
(`BeginningsAreClaimed`), which is what keeps the host from giving up on a call
that runs.

*OnceInv.* A message runs twice only under two nonces. While the box is neither
written on under way, taken back nor reloaded, one request from the box is
awaited at a time, the box is empty meanwhile, and the page's last try is that
request (`OneFromTheBox`); a message has one nonce wherever it occurs, and one
back in the box is the last try's, so that it goes again under the nonce it had
(`OneNonce`). With *RunInv* it then runs once.

*KeptInv.* That every text he wrote is somewhere (`Whole`) is lost only if an
answer is read as one for another message. So a nonce has one message
(`OneMessage`); a page waits for one request from the box and one from the
queue, of different nonces (`OneAwaited`); an answer of taken has its message in
a turn (`TakenIsRun`); and the last try, whose nonce a message of the same key
takes over, is of a part of what is in the box (`LastTryIsHis`). The key is only
the words and the number of texts, so a message could take over the nonce of
another; but the last try's is part of the box, and a part as large as the box
is the box, which is where `Texts` must be finite.

*ServeInv.* Eight parts that need one another. A cancelled timer must not be a
request that has the slot, so the promised resume is a timer that waits
(`TimerWaits`). Whoever holds a chat holds it alone and it is in `acting`, and,
where he does not find a fork too early, no change is of a fork that is not
answered (`HeldApart`), which needs that a fork is made under a name no chat
ever had (`Placed`, and `ChatsStay`: a chat stays in the folder or the trash). A
pause is in one place, the slot for it or one request that has taken it, and was
not sent while it is there (`SentApart`); its number is one given out already
(`Counted`), so that the next pause is none of them.

*UpInv.* Between the manifest and the end of a push the server changes only
through this push: `InOrder` relates index and disk, `NamedIsThere` says that
what was named and is no longer to be sent is there as named, and `NothingElse`,
where the server does not die, that nothing else is. *DownInv* is five parts:
what a log, a send and a turn are on the server, what the pull knows (a listed entry is
the log as it was, the CLI file named last is at least as old), what it placed,
what is at home (a log with the file it names), and what is acknowledged.

*ObsInv.* For each process, by the place it is at: a capture's unread, folded
and written-down parts cover everything between the watermark it read and the
one it will write (`CaptureInv`), and a dream's groups cover everything between
the old watermark and the new (`DreamInv`). Only the lock's holder moves a
watermark, and the inbox only grows, so what one process has seen stays seen
whatever the tool and the chats write.

*OneInAPass.* Only the lock's holder is in a pass, of either kind. Between
captures the inbox is behind the watermarks; in one, it is behind where the
batch began or is of the batch, which has one observation a log (`BatchAhead`).
So an appended observation starts where everything else of its log ended, and
no line is covered twice. In the same way nothing past `consumed` was filed
between dreams, and in one nothing past its end or of a group still to do
(`GroupsAhead`). A pass that ends early breaks both, which is why the property
is about behaviours without one.

Assumptions: `LogAssumption` (kinds and words are distinct from the marks for
none; a reply has a block; attachments are numbers), `RecorderAssumption` (settings
are sets of their words; a message may have no file), `FileAssumption` (the
bounds are numbers), `InboxAssumption`, `PhoneAssumption`, `SyncAssumption`,
`ServeAssumption`, `MemoryAssumption`, `ChatsAssumption`, `AgentsAssumption`,
`TurnAssumption` (bounds and messages are numbers, a reply is a sequence of
names, a tool has one of the three effects, settings are sets of their words, the marks for none and for a fork are no chat,
no answer, no process and no pause, there is a process and a chat; the texts of
a phone's box, the chats with agents and the window's commands under way are
finitely many). TLC evaluates them in every run of those modules.
`InstructionsAreHis` takes its restriction to settings as a hypothesis of the
theorem, and the three theorems of `Agents` that every use is careful, as it is
in the run.

The recursive functions of the model, and the folds of the community modules it
uses, are reasoned about by induction over their argument: `NatInd` is proved
from the well-foundedness of `<` on the naturals, with the claim as a set, since
the library's own induction theorems take an operator as a parameter.

Only model-checked: the liveness properties, which are out of the prover's
reach, and `UndoneExactly` on logs that a Claude Code turn wrote (the theorem is
of the log's own specification).

Type invariants are proved for `SessionLog`, `SessionFile`, `Chats`,
`AgentInbox`, `Phone`, `Serve` and `Recorder`; in `AgentsProofs` `AgentsTyped`,
`ObsTypes` and `InsShape`, and in `SyncProofs` `UpTypes`, `ServeInv` (of the
server's half there) and `PullInv`, are the types, part of the invariants proved
about them. `TurnTypeOK` holds in its run when added to the configuration.

## What is not modelled

- Records that only label a chat (prompt layers, folders, thread rows, handles
  of agents): appends no property relates to anything.
- Wire formats of the four provider services, the words of prompts and notes,
  pricing, counting: formatting. A reply is its blocks; a failure may come
  anywhere.
- Tools behind the `Tool` trait, the shell, search, the web: I/O. A tool is its
  effect, and returns.
- Of the turn: sources and thread rows. Of the recorder: withheld thinking, a
  reply's usage and times, a council's blocks, the replay an ephemeral chat's
  prompt carries.
- Of the chats: fork, continue and move of a held chat, the provider gate. Of
  the agents: the command line a waiting process is known by is the conversation
  it resumes.
- Of the inbox: subagents, relays, wakes and a deferred call's close.
- Of the phone: New chat and council sends, the other hosts, a connection that
  drops and takes its handler with it, a chat renamed or deleted meanwhile; the
  listener's routes and token.
- Of serve: the lock on the home, approvals, Stop, projects, the rail, what a
  change does to the log (`SessionLog` has it), and the copy made of a chat the
  Mac owns.
- Of sync: hashing, the path rules, the rewriting of a copied session's folder,
  a pass that only pushes.
- Of memory: what a model says, incognito logs, the cap of turns a pass, git
  snapshots, the capture of one chat on his ask.
- The components listed `not_modelled` in `PROJECT.json`, several of them planned
  below. The window's drawing, the command line and the evaluations hold no
  state of their own that matters here. The models cover the few thousand lines
  that decide in which order things happen; most of the source is formats,
  prompts, pages and I/O, whose models would only repeat it.

## Plan

Next, each with its module, its configuration and its properties:

1. `Ask`: a deferred call, its prompt, the answer file, the resume; then the
   inbox with subagents, their reports and the wake's grace.
2. `McpClient`: replies on one stream in any order, time-outs, cancels.
3. `CliSession`: an edit of the log against the copy of the CLI's own file.
4. `Steer` and `Nested`: hooks of several processes on one locked file.
5. Of `Serve`: one holder of the home, approvals and Stop.
6. `PromptHold`, `Retry`, `Voice`, `Power`, `Preview`, the terminal pane, the
   listing cache.

Theorems next: `UndoneExactly` of the recorder's logs, and the properties of the
modules above as they are written.
