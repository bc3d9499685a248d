------------------------- MODULE ConversationProofs -------------------------
(***************************************************************************)
(* Proofs about a chat's log and what goes on the wire for it, for every   *)
(* choice of the constants and logs of any length.                         *)
(*                                                                         *)
(*  - SessionLog: the log is well formed (TypeOK), no marker in force      *)
(*    names an event a rewind took away (StandingClear is the inductive    *)
(*    strengthening), calls and results fit each other (LogInv), the       *)
(*    projection of such a log is a valid request, a rewind or a removal   *)
(*    undone at once leaves the projection as it was, and a fork sends     *)
(*    what the log cut at the same turn sends (Mirrors).                   *)
(*  - Recorder: what a turn on Claude Code writes keeps all of that        *)
(*    (RecInv), and is its stream, once and in order (HeardInv).           *)
(*                                                                         *)
(* What a recursive function of the model computes (Sift, PassOver,        *)
(* FlattenSeq) is proved by induction on its argument: the set of the      *)
(* arguments at which the claim holds is all of 0..n (UpTo, from the       *)
(* well-foundedness of < on Nat).                                          *)
(***************************************************************************)
EXTENDS Recorder, FiniteSetTheorems, WellFoundedInduction, TLAPS

-----------------------------------------------------------------------------
(* What each operation appends is an event.                                *)

\* Every block of a recorded reply is one the log can hold.
LEMMA BlocksOfType ==
    ASSUME NEW shape \in Seq(BlockKinds), NEW i \in Nat
    PROVE  /\ BlocksOf(shape, i) \in Seq(Block)
           /\ CallIds(BlocksOf(shape, i)) \subseteq Nat \X Nat
<1>1. \A n \in DOMAIN shape : shape[n] \in BlockKinds /\ n \in Nat
  OBVIOUS
<1>2. ASSUME NEW n \in DOMAIN shape
      PROVE  BlocksOf(shape, i)[n] \in Block
  <2>1. CASE shape[n] = "tool_use"
    <3>1. << i, n >> \in Nat \X Nat
      BY <1>1
    <3>2. BlocksOf(shape, i)[n] = [kind |-> "tool_use", id |-> << i, n >>]
      BY <2>1 DEF BlocksOf
    <3> QED BY <3>1, <3>2 DEF Block
  <2>2. CASE shape[n] # "tool_use"
    <3>1. BlocksOf(shape, i)[n] = [kind |-> shape[n]]
      BY <2>2 DEF BlocksOf
    <3> QED BY <3>1, <2>2, <1>1 DEF Block
  <2> QED BY <2>1, <2>2
<1>3. DOMAIN BlocksOf(shape, i) = 1..Len(shape)
  BY DEF BlocksOf
<1>4. BlocksOf(shape, i) \in Seq(Block)
  <2>1. BlocksOf(shape, i) \in [1..Len(shape) -> Block]
    BY <1>2, <1>3 DEF BlocksOf
  <2> QED BY <2>1
<1>5. ASSUME NEW n \in DOMAIN BlocksOf(shape, i), IsCall(BlocksOf(shape, i)[n])
      PROVE  BlocksOf(shape, i)[n].id \in Nat \X Nat
  BY <1>1, <1>3, <1>5 DEF BlocksOf, IsCall
<1> QED BY <1>4, <1>5 DEF CallIds

\* The events the operations append, by type.
LEMMA EventTypes ==
    /\ \A k \in Kinds : Created(k) \in Event /\ SwitchKind(k) \in Event
    /\ \A said \in {"said", ""}, n \in Attached : UserMsg(said, n) \in Event
    /\ \A bs \in Seq(Block) : Assistant(bs) \in Event
    /\ StandIn \in Event
    /\ \A id \in Nat \X Nat : Result(id) \in Event
    /\ Compaction \in Event
    /\ \A n \in Nat : RewindTo(n) \in Event /\ UnrewindOf(n) \in Event
    /\ \A T \in SUBSET Nat, b \in Nat :
            ElideOf(T, b) \in Event /\ UnelideOf(T, b) \in Event
    /\ \A t \in Nat, b \in Nat, w \in Words, n \in Attached \cup {KeepFiles} :
            EditOf(t, b, w, n) \in Event
<1>1. \A k \in Kinds : Created(k) \in Event /\ SwitchKind(k) \in Event
  BY DEF Created, SwitchKind, Event
<1>2. \A said \in {"said", ""}, n \in Attached : UserMsg(said, n) \in Event
  BY DEF UserMsg, Event
<1>3. \A bs \in Seq(Block) : Assistant(bs) \in Event
  BY DEF Assistant, Event
<1>4. StandIn \in Event
  <2>1. [kind |-> "text"] \in Block
    BY DEF Block, BlockKinds
  <2>2. << [kind |-> "text"] >> \in Seq(Block)
    BY <2>1
  <2> QED BY <2>2 DEF StandIn, Event
<1>5. \A id \in Nat \X Nat : Result(id) \in Event
  BY DEF Result, Event
<1>6. Compaction \in Event
  BY DEF Compaction, Event
<1>7. \A n \in Nat : RewindTo(n) \in Event /\ UnrewindOf(n) \in Event
  BY DEF RewindTo, UnrewindOf, Event
<1>8. \A T \in SUBSET Nat, b \in Nat :
          ElideOf(T, b) \in Event /\ UnelideOf(T, b) \in Event
  BY DEF ElideOf, UnelideOf, Event
<1>9. \A t \in Nat, b \in Nat, w \in Words, n \in Attached \cup {KeepFiles} :
          EditOf(t, b, w, n) \in Event
  BY DEF EditOf, Event
<1> QED BY <1>1, <1>2, <1>3, <1>4, <1>5, <1>6, <1>7, <1>8, <1>9

-----------------------------------------------------------------------------
(* The log stays well formed.                                              *)

\* An event that names only what the log already holds.
Aimed(e) ==
    /\ e.type = "rewind" => e.to \in DOMAIN events /\ IsUser(events[e.to])
    /\ e.type = "unrewind" => e.of \in DOMAIN events /\ events[e.of].type = "rewind"
    /\ TargetsOf(e) \subseteq {t \in DOMAIN events : IsElidable(events, t)}

\* Appending an aimed event keeps the log well formed.
LEMMA AppendKeeps ==
    ASSUME TypeOK, NEW e \in Event, Aimed(e), Record(e),
           running' \in BOOLEAN, open' \subseteq Nat \X Nat, open' # {} => running'
    PROVE  TypeOK'
<1>1. /\ events' \in Seq(Event)
      /\ Len(events') = Len(events) + 1
      /\ \A i \in DOMAIN events : events'[i] = events[i]
      /\ events'[Len(events) + 1] = e
      /\ 1 \in DOMAIN events /\ Len(events) \in Nat
  BY DEF TypeOK, Record
<1>2. events' # << >> /\ events'[1].type = "session_created"
  BY <1>1 DEF TypeOK
<1>3. ASSUME NEW i \in DOMAIN events' PROVE PointsBack(events', i)
  <2>1. CASE i \in DOMAIN events
    <3>1. PointsBack(events, i)
      BY <2>1 DEF TypeOK
    <3>2. \A t \in 1..(i - 1) : t \in DOMAIN events
      BY <2>1, <1>1
    <3>3. events'[i] = events[i] /\ \A t \in 1..(i - 1) : events'[t] = events[t]
      BY <2>1, <3>2, <1>1
    <3> QED BY <3>1, <3>3 DEF PointsBack, IsUser, IsElidable
  <2>2. CASE i = Len(events) + 1
    <3>1. 1..(i - 1) = DOMAIN events
      BY <2>2, <1>1 DEF TypeOK
    <3> QED BY <2>2, <3>1, <1>1 DEF PointsBack, Aimed, IsUser, IsElidable
  <2>3. i \in DOMAIN events \/ i = Len(events) + 1
    BY <1>1 DEF TypeOK
  <2> QED BY <2>1, <2>2, <2>3
<1> QED BY <1>1, <1>2, <1>3 DEF TypeOK

\* What is removed was named by an elision in force.
LEMMA RemovedIsNamed ==
    ASSUME TypeOK, NEW i, NEW b, RemovedAt(events, Live(events), i, b)
    PROVE  \E m \in Live(events) : i \in TargetsOf(events[m])
BY DEF RemovedAt, Names, TargetsOf

\* A live event is an event of the log.
LEMMA LiveInLog == Live(events) \subseteq DOMAIN events
BY DEF Live

\* What a marker names is an elidable event before it.
LEMMA TargetsInLog ==
    ASSUME TypeOK, NEW m \in DOMAIN events
    PROVE  TargetsOf(events[m]) \subseteq
               {t \in DOMAIN events : t < m /\ IsElidable(events, t)}
<1>1. TargetsOf(events[m]) \subseteq {t \in 1..(m - 1) : IsElidable(events, t)}
  BY DEF TypeOK, PointsBack
<1>2. \A t \in 1..(m - 1) : t \in DOMAIN events /\ t < m
  BY DEF TypeOK
<1> QED BY <1>1, <1>2

\* What is removed is an elidable event of the log.
LEMMA RemovedIsElidable ==
    ASSUME TypeOK, NEW i, NEW b, RemovedAt(events, Live(events), i, b)
    PROVE  i \in DOMAIN events /\ IsElidable(events, i)
BY RemovedIsNamed, LiveInLog, TargetsInLog

\* Blocks are counted from 1.
LEMMA BlockIndex ==
    ASSUME TypeOK, NEW i \in DOMAIN events, IsAssistant(events[i])
    PROVE  DOMAIN events[i].blocks \subseteq Nat
<1>1. events[i] \in Event
  BY DEF TypeOK
<1>2. events[i].blocks \in Seq(Block)
  BY <1>1 DEF Event, IsAssistant
<1> QED BY <1>2

\* Every operation keeps the log well formed.
LEMMA TypeStep ==
    ASSUME TypeOK, [Next]_vars
    PROVE  TypeOK'
<1>0. /\ DOMAIN events \subseteq Nat /\ Len(events) \in Nat
      /\ DOMAIN events = 1..Len(events)
      /\ running \in BOOLEAN /\ open \subseteq Nat \X Nat /\ (open # {} => running)
  <2>1. events \in Seq(Event)
    BY DEF TypeOK
  <2>2. running \in BOOLEAN /\ open \subseteq Nat \X Nat
    BY DEF TypeOK
  <2>3. open # {} => running
    BY DEF TypeOK
  <2> QED BY <2>1, <2>2, <2>3
<1>1. ASSUME NEW said \in {"said", ""}, NEW n \in Attached, RecordUser(said, n)
      PROVE  TypeOK'
  <2>1. UserMsg(said, n) \in Event
    BY EventTypes
  <2>2. Aimed(UserMsg(said, n))
    BY DEF Aimed, UserMsg, TargetsOf
  <2> QED BY <1>1, <2>1, <2>2, <1>0, AppendKeeps DEF RecordUser
<1>2. ASSUME NEW shape \in Replies, RecordAssistant(shape) PROVE TypeOK'
  <2> DEFINE bs == BlocksOf(shape, Len(events) + 1)
  <2>1. bs \in Seq(Block) /\ CallIds(bs) \subseteq Nat \X Nat
    <3>1. shape \in Seq(BlockKinds) \ {<< >>}
      BY LogAssumption
    <3>2. shape \in Seq(BlockKinds)
      BY <3>1
    <3>3. Len(events) + 1 \in Nat
      BY <1>0
    <3> QED BY <3>2, <3>3, BlocksOfType, Zenon
  <2> HIDE DEF bs
  <2>2. Assistant(bs) \in Event
    BY <1>0, <2>1, EventTypes
  <2>3. Aimed(Assistant(bs))
    BY DEF Aimed, Assistant, TargetsOf
  <2>4. Record(Assistant(bs)) /\ open' = CallIds(bs) /\ running' = (open' # {})
    BY <1>2 DEF RecordAssistant, bs
  <2> QED BY <2>1, <2>2, <2>3, <2>4, <1>0, AppendKeeps
<1>3. ASSUME NEW id \in open, RecordToolResult(id) PROVE TypeOK'
  <2>1. Result(id) \in Event
    BY <1>0, EventTypes
  <2>2. Aimed(Result(id))
    BY DEF Aimed, Result, TargetsOf
  <2> QED BY <1>3, <2>1, <2>2, <1>0, AppendKeeps DEF RecordToolResult
<1>4. ASSUME Stop PROVE TypeOK'
  BY <1>4 DEF Stop, TypeOK
<1>5. ASSUME RecordStandIn PROVE TypeOK'
  <2>1. Aimed(StandIn)
    BY DEF Aimed, StandIn, TargetsOf
  <2> QED BY <1>5, <2>1, EventTypes, <1>0, AppendKeeps DEF RecordStandIn
<1>6. ASSUME RecordCompaction PROVE TypeOK'
  <2>1. Aimed(Compaction)
    BY DEF Aimed, Compaction, TargetsOf
  <2> QED BY <1>6, <2>1, EventTypes, <1>0, AppendKeeps DEF RecordCompaction
<1>7. ASSUME NEW k \in Kinds, RecordKind(k) PROVE TypeOK'
  <2>1. Aimed(SwitchKind(k))
    BY DEF Aimed, SwitchKind, TargetsOf
  <2> QED BY <1>7, <2>1, EventTypes, <1>0, AppendKeeps DEF RecordKind
<1>8. ASSUME NEW i \in DOMAIN events, Rewind(i) PROVE TypeOK'
  <2>1. Aimed(RewindTo(i))
    BY <1>8 DEF Aimed, RewindTo, TargetsOf, Rewind
  <2> QED BY <1>8, <2>1, EventTypes, <1>0, AppendKeeps DEF Rewind
<1>9. ASSUME NEW i \in DOMAIN events, Unrewind(i) PROVE TypeOK'
  <2>1. Aimed(UnrewindOf(i))
    BY <1>9 DEF Aimed, UnrewindOf, TargetsOf, Unrewind
  <2> QED BY <1>9, <2>1, EventTypes, <1>0, AppendKeeps DEF Unrewind
<1>10. ASSUME NEW i \in DOMAIN events, NEW j \in i..Len(events),
              Elide({i, j}) \/ Unelide({i, j})
       PROVE  TypeOK'
  <2> DEFINE T == {i, j}
  <2>1. T \subseteq DOMAIN events /\ T \subseteq Nat
    <3>1. i \in 1..Len(events) /\ j \in i..Len(events)
      BY <1>0
    <3>2. j \in 1..Len(events)
      BY <1>0, <3>1
    <3> QED BY <1>0, <3>1, <3>2
  <2>2. CASE Elide(T)
    <3>1. \A t \in T : IsElidable(events, t)
      BY <2>2 DEF Elide
    <3>2. Aimed(ElideOf(T \ Elided(events), 0))
      BY <2>1, <3>1 DEF Aimed, ElideOf, TargetsOf
    <3>3. ElideOf(T \ Elided(events), 0) \in Event
      BY <1>0, <2>1, EventTypes
    <3> QED BY <2>2, <3>2, <3>3, <1>0, AppendKeeps DEF Elide
  <2>3. CASE Unelide(T)
    <3>1. \A t \in T \cap Elided(events) : t \in DOMAIN events /\ IsElidable(events, t)
      BY RemovedIsElidable DEF Elided, ElidedIn
    <3>2. Aimed(UnelideOf(T \cap Elided(events), 0))
      BY <3>1 DEF Aimed, UnelideOf, TargetsOf
    <3>3. UnelideOf(T \cap Elided(events), 0) \in Event
      BY <1>0, <2>1, EventTypes
    <3> QED BY <2>3, <3>2, <3>3, <1>0, AppendKeeps DEF Unelide
  <2> QED BY <1>10, <2>2, <2>3
<1>11. ASSUME NEW i \in DOMAIN events, NEW b \in Blocks(i),
              ElideBlock(i, b) \/ UnelideBlock(i, b)
       PROVE  TypeOK'
  <2>1. IsAssistant(events[i]) /\ b \in Nat
    BY BlockIndex DEF Blocks
  <2>2. IsElidable(events, i)
    BY <2>1 DEF IsElidable, IsAssistant
  <2>3. CASE ElideBlock(i, b)
    <3>1. Aimed(ElideOf({i}, b)) /\ ElideOf({i}, b) \in Event
      BY <1>0, <2>1, <2>2, EventTypes DEF Aimed, ElideOf, TargetsOf
    <3> QED BY <2>3, <3>1, <1>0, AppendKeeps DEF ElideBlock
  <2>4. CASE UnelideBlock(i, b)
    <3>1. Aimed(UnelideOf({i}, b)) /\ UnelideOf({i}, b) \in Event
      BY <1>0, <2>1, <2>2, EventTypes DEF Aimed, UnelideOf, TargetsOf
    <3> QED BY <2>4, <3>1, <1>0, AppendKeeps DEF UnelideBlock
  <2> QED BY <1>11, <2>3, <2>4
<1>12. ASSUME NEW i \in DOMAIN events, NEW text \in Words,
              NEW n \in Attached \cup {KeepFiles}, Edit(i, text, n)
       PROVE  TypeOK'
  <2>1. IsElidable(events, i)
    BY <1>12 DEF Edit, IsElidable, IsUser
  <2>2. Aimed(EditOf(i, 0, text, n)) /\ EditOf(i, 0, text, n) \in Event
    BY <1>0, <2>1, EventTypes DEF Aimed, EditOf, TargetsOf
  <2> QED BY <1>12, <2>2, <1>0, AppendKeeps DEF Edit
<1>13. ASSUME NEW i \in DOMAIN events, NEW text \in Words,
              NEW b \in Blocks(i), EditBlock(i, b, text)
       PROVE  TypeOK'
  <2>1. IsAssistant(events[i]) /\ b \in Nat
    BY BlockIndex DEF Blocks
  <2>2. IsElidable(events, i)
    BY <2>1 DEF IsElidable, IsAssistant
  <2>3. Aimed(EditOf(i, b, text, KeepFiles)) /\ EditOf(i, b, text, KeepFiles) \in Event
    BY <1>0, <2>1, <2>2, EventTypes DEF Aimed, EditOf, TargetsOf
  <2> QED BY <1>13, <2>3, <1>0, AppendKeeps DEF EditBlock
<1>14. CASE UNCHANGED vars
  BY <1>14 DEF vars, TypeOK
<1> QED
  BY <1>1, <1>2, <1>3, <1>4, <1>5, <1>6, <1>7, <1>8, <1>9, <1>10, <1>11, <1>12,
       <1>13, <1>14 DEF Next, TurnNext, HisNext

\* A log is well formed from its creation on.
LEMMA TypeInit == Init => TypeOK
<1> SUFFICES ASSUME NEW k \in Kinds, events = << Created(k) >>, running = FALSE, open = {}
             PROVE  TypeOK
  BY DEF Init
<1>1. Created(k) \in Event
  BY EventTypes
<1>2. events \in Seq(Event) /\ events # << >> /\ DOMAIN events = {1}
  BY <1>1
<1>3. events[1] = Created(k)
  OBVIOUS
<1>4. PointsBack(events, 1)
  BY <1>3 DEF PointsBack, Created, TargetsOf
<1> QED BY <1>2, <1>3, <1>4 DEF TypeOK, Created

\* The log is always well formed: it opens with its creation line, and a
\* rewind, a restore, a removal or an edit names an earlier event of the sort
\* Session::rewind, unrewind, elide, unelide, edit and their block forms check
\* for.
THEOREM TypeCorrect == Spec => []TypeOK
BY TypeInit, TypeStep, PTL DEF Spec

-----------------------------------------------------------------------------
(* Markers in force name events in force.                                  *)

\* A rewind in force after an append is that append or was in force before:
\* nothing puts a lifted rewind back in force.
LEMMA StandingShrinks ==
    ASSUME TypeOK, NEW e, Record(e)
    PROVE  \A r \in Standing(events') : r \in Standing(events) \/ r = Len(events) + 1
<1>1. /\ Len(events) \in Nat
      /\ DOMAIN events' = DOMAIN events \cup {Len(events) + 1}
      /\ \A i \in DOMAIN events : events'[i] = events[i]
  BY DEF TypeOK, Record
<1>2. Lifted(events) \subseteq Lifted(events')
  BY <1>1 DEF Lifted
<1> QED BY <1>1, <1>2 DEF Standing

\* A rewind in force is an event of the log, and its cut is a number.
LEMMA StandingInLog ==
    ASSUME TypeOK, NEW r \in Standing(events)
    PROVE  r \in DOMAIN events /\ events[r].type = "rewind" /\ events[r].to \in Nat
<1>1. r \in DOMAIN events /\ events[r].type = "rewind"
  BY DEF Standing
<1>2. PointsBack(events, r)
  BY <1>1 DEF TypeOK
<1> QED BY <1>1, <1>2 DEF PointsBack

\* A marker in force names events in force: what a rewind took away after
\* the marker was recorded took the marker with it.
LEMMA ClearIsLive ==
    ASSUME TypeOK, StandingClear
    PROVE  LiveMarkersTargetLive
<1> SUFFICES ASSUME NEW j \in Live(events), NEW t \in TargetsOf(events[j])
             PROVE  t \in Live(events)
  BY DEF LiveMarkersTargetLive
<1>1. j \in DOMAIN events /\ DOMAIN events \subseteq Nat
  BY LiveInLog DEF TypeOK
<1>2. t \in DOMAIN events /\ t < j /\ IsElidable(events, t)
  BY <1>1, TargetsInLog
<1>3. events[t].type \notin {"rewind", "unrewind"}
  BY <1>2 DEF IsElidable
<1>4. ASSUME NEW r \in Standing(events), events[r].to <= t, t < r PROVE FALSE
  <2>1. r \in Nat /\ events[r].type = "rewind" /\ events[r].to \in Nat
    BY <1>1, StandingInLog
  <2>2. ~(r < j)
    BY <1>1, <1>4 DEF StandingClear
  <2>3. r # j
    BY <2>1 DEF Live
  <2>4. events[r].to <= j /\ j < r
    BY <1>1, <1>2, <1>4, <2>1, <2>2, <2>3
  <2> QED BY <2>4 DEF Live
<1> QED BY <1>2, <1>3, <1>4 DEF Live

\* Appending an event that names only events in force.
LEMMA ClearAppend ==
    ASSUME TypeOK, StandingClear, NEW e, Record(e),
           TargetsOf(e) \subseteq Live(events)
    PROVE  StandingClear'
<1>1. /\ Len(events) \in Nat /\ DOMAIN events = 1..Len(events)
      /\ DOMAIN events' = 1..(Len(events) + 1)
      /\ \A i \in DOMAIN events : events'[i] = events[i]
      /\ events'[Len(events) + 1] = e
  BY DEF TypeOK, Record
<1> SUFFICES ASSUME NEW j \in DOMAIN events', NEW t \in TargetsOf(events'[j]),
                    NEW r \in Standing(events'), r < j
             PROVE  ~(events'[r].to <= t /\ t < r)
  BY DEF StandingClear
<1>2. r \in DOMAIN events'
  BY DEF Standing
<1>3. r \in DOMAIN events /\ r # Len(events) + 1
  BY <1>1, <1>2
<1>4. r \in Standing(events) /\ events'[r] = events[r]
  BY <1>1, <1>3, StandingShrinks
<1>5. CASE j \in DOMAIN events
  BY <1>1, <1>4, <1>5 DEF StandingClear
<1>6. CASE j = Len(events) + 1
  <2>1. t \in Live(events)
    BY <1>1, <1>6
  <2> QED BY <1>4, <2>1 DEF Live
<1> QED BY <1>1, <1>5, <1>6

\* Only removals, restores and edits name events.
LEMMA NamesNothing ==
    /\ \A said, n : TargetsOf(UserMsg(said, n)) = {}
    /\ \A bs : TargetsOf(Assistant(bs)) = {}
    /\ TargetsOf(StandIn) = {}
    /\ \A id : TargetsOf(Result(id)) = {}
    /\ TargetsOf(Compaction) = {}
    /\ \A k : TargetsOf(SwitchKind(k)) = {}
    /\ \A n : TargetsOf(RewindTo(n)) = {} /\ TargetsOf(UnrewindOf(n)) = {}
BY DEF TargetsOf, UserMsg, Assistant, StandIn, Result, Compaction, SwitchKind,
       RewindTo, UnrewindOf

\* Every operation leaves the standing rewinds clear of every marker.
LEMMA ClearStep ==
    ASSUME TypeOK, StandingClear, [Next]_vars
    PROVE  StandingClear'
<1>1. LiveMarkersTargetLive
  BY ClearIsLive
<1>2. ASSUME NEW i, NEW b, RemovedAt(events, Live(events), i, b)
      PROVE  i \in Live(events)
  BY <1>1, <1>2, RemovedIsNamed DEF LiveMarkersTargetLive
<1>3. ASSUME NEW said, NEW n, RecordUser(said, n) PROVE StandingClear'
  BY <1>3, NamesNothing, ClearAppend DEF RecordUser
<1>4. ASSUME NEW shape, RecordAssistant(shape) PROVE StandingClear'
  <2>1. PICK bs : Record(Assistant(bs))
    BY <1>4 DEF RecordAssistant
  <2> QED BY <2>1, NamesNothing, ClearAppend
<1>5. ASSUME NEW id, RecordToolResult(id) PROVE StandingClear'
  BY <1>5, NamesNothing, ClearAppend DEF RecordToolResult
<1>6. ASSUME RecordStandIn PROVE StandingClear'
  BY <1>6, NamesNothing, ClearAppend DEF RecordStandIn
<1>7. ASSUME RecordCompaction PROVE StandingClear'
  BY <1>7, NamesNothing, ClearAppend DEF RecordCompaction
<1>8. ASSUME NEW k, RecordKind(k) PROVE StandingClear'
  BY <1>8, NamesNothing, ClearAppend DEF RecordKind
<1>9. ASSUME NEW i, Rewind(i) PROVE StandingClear'
  BY <1>9, NamesNothing, ClearAppend DEF Rewind
<1>10. ASSUME NEW i, Unrewind(i) PROVE StandingClear'
  BY <1>10, NamesNothing, ClearAppend DEF Unrewind
<1>11. ASSUME NEW T, Elide(T) PROVE StandingClear'
  <2>1. TargetsOf(ElideOf(T \ Elided(events), 0)) \subseteq Live(events)
    BY <1>11 DEF Elide, TargetsOf, ElideOf
  <2> QED BY <1>11, <2>1, ClearAppend DEF Elide
<1>12. ASSUME NEW T, Unelide(T) PROVE StandingClear'
  <2>1. TargetsOf(UnelideOf(T \cap Elided(events), 0)) \subseteq Live(events)
    BY <1>2 DEF TargetsOf, UnelideOf, Elided, ElidedIn
  <2> QED BY <1>12, <2>1, ClearAppend DEF Unelide
<1>13. ASSUME NEW i, NEW b, ElideBlock(i, b) PROVE StandingClear'
  <2>1. TargetsOf(ElideOf({i}, b)) \subseteq Live(events)
    BY <1>13 DEF ElideBlock, TargetsOf, ElideOf
  <2> QED BY <1>13, <2>1, ClearAppend DEF ElideBlock
<1>14. ASSUME NEW i, NEW b, UnelideBlock(i, b) PROVE StandingClear'
  <2>1. RemovedAt(events, Live(events), i, b)
    BY <1>14 DEF UnelideBlock, GoneBlocks, GoneIn
  <2>2. TargetsOf(UnelideOf({i}, b)) \subseteq Live(events)
    BY <1>2, <2>1 DEF TargetsOf, UnelideOf
  <2> QED BY <1>14, <2>2, ClearAppend DEF UnelideBlock
<1>15. ASSUME NEW i, NEW text, NEW n, Edit(i, text, n)
       PROVE  StandingClear'
  <2>1. TargetsOf(EditOf(i, 0, text, n)) \subseteq Live(events)
    BY <1>15 DEF Edit, CheckEditable, TargetsOf, EditOf
  <2> QED BY <1>15, <2>1, ClearAppend DEF Edit
<1>16. ASSUME NEW i, NEW b, NEW text, EditBlock(i, b, text)
       PROVE  StandingClear'
  <2>1. TargetsOf(EditOf(i, b, text, KeepFiles)) \subseteq Live(events)
    BY <1>16 DEF EditBlock, CheckEditable, TargetsOf, EditOf
  <2> QED BY <1>16, <2>1, ClearAppend DEF EditBlock
<1>17. CASE UNCHANGED events
  BY <1>17 DEF StandingClear, Standing, Lifted
<1> QED
  BY <1>3, <1>4, <1>5, <1>6, <1>7, <1>8, <1>9, <1>10, <1>11, <1>12, <1>13, <1>14,
       <1>15, <1>16, <1>17 DEF Next, TurnNext, HisNext, Stop, vars

\* A log with only its creation line has no marker.
LEMMA ClearInit == Init => StandingClear
<1> SUFFICES ASSUME NEW k \in Kinds, events = << Created(k) >>
             PROVE  StandingClear
  BY DEF Init
<1>1. DOMAIN events = {1} /\ events[1] = Created(k)
  OBVIOUS
<1> QED BY <1>1 DEF StandingClear, TargetsOf, Created

\* A rewind never leaves a removal, a restore or an edit in force on a turn it
\* took away, whatever rewinds and restores came between: what elide_flags,
\* edit_texts and block_elisions read from the live markers is about live turns.
THEOREM MarkersInForce == Spec => []LiveMarkersTargetLive
<1>1. Init => TypeOK /\ StandingClear
  BY TypeInit, ClearInit
<1>2. TypeOK /\ StandingClear /\ [Next]_vars => (TypeOK /\ StandingClear)'
  BY TypeStep, ClearStep
<1>3. TypeOK /\ StandingClear => LiveMarkersTargetLive
  BY ClearIsLive
<1> QED BY <1>1, <1>2, <1>3, PTL DEF Spec

-----------------------------------------------------------------------------
(* Induction over the naturals, and what the recursive functions of the    *)
(* model compute by it.                                                    *)

\* A set that holds 0 and the successor of each of its numbers holds them all.
LEMMA NatInd ==
    ASSUME NEW S, 0 \in S, \A n \in Nat : n \in S => n + 1 \in S
    PROVE  Nat \subseteq S
<1>1. SUFFICES ASSUME NEW m \in Nat, m \notin S PROVE FALSE
  OBVIOUS
<1> DEFINE T == {n \in Nat : n \notin S}
<1>2. IsWellFoundedOn(OpToRel(<, Nat), Nat)
  BY NatLessThanWellFounded
<1>3. T \subseteq Nat /\ T # {}
  BY <1>1
<1>4. PICK x \in T : \A y \in T : ~(<< y, x >> \in OpToRel(<, Nat))
  <2> HIDE DEF T
  <2> QED BY <1>2, <1>3, WFMin
<1>5. \A y \in T : ~(y < x)
  BY <1>3, <1>4 DEF OpToRel
<1>6. x # 0 /\ x - 1 \in Nat /\ x - 1 < x
  OBVIOUS
<1>7. x - 1 \in S
  BY <1>5, <1>6
<1> QED BY <1>6, <1>7

\* The same, up to a bound.
LEMMA UpTo ==
    ASSUME NEW N \in Nat, NEW S, 0 \in S,
           \A n \in 0..(N - 1) : n \in S => n + 1 \in S
    PROVE  0..N \subseteq S
<1> DEFINE T == {n \in Nat : n <= N => n \in S}
<1>1. 0 \in T
  OBVIOUS
<1>2. ASSUME NEW n \in Nat, n \in T
      PROVE  n + 1 \in T
  BY <1>2
<1>3. Nat \subseteq T
  <2> HIDE DEF T
  <2> QED BY <1>1, <1>2, NatInd
<1> QED BY <1>3

\* The last of a set of positions is one of them, and none is after it.
LEMMA LastOfIs ==
    ASSUME NEW N \in Nat, NEW S \in SUBSET (1..N)
    PROVE  /\ S = {} => LastOf(S) = 0
           /\ S # {} => LastOf(S) \in S /\ \A j \in S : j <= LastOf(S)
           /\ LastOf(S) \in 0..N
<1> DEFINE G == {n \in 0..N : (\E j \in S : j <= n) =>
                                  \E i \in S : i <= n /\ \A j \in S : j <= n => j <= i}
<1>1. 0 \in G
  OBVIOUS
<1>2. ASSUME NEW n \in 0..(N - 1), n \in G
      PROVE  n + 1 \in G
  <2>1. CASE n + 1 \in S
    BY <2>1
  <2>2. CASE n + 1 \notin S
    <3>1. \A j \in S : j <= n + 1 => j <= n
      BY <2>2
    <3> QED BY <1>2, <3>1
  <2> QED BY <2>1, <2>2
<1>3. 0..N \subseteq G
  <2> HIDE DEF G
  <2> QED BY <1>1, <1>2, UpTo
<1>4. N \in G
  <2>1. N \in 0..N
    OBVIOUS
  <2> HIDE DEF G
  <2> QED BY <1>3, <2>1
<1>5. \A j \in S : j \in Nat /\ 1 <= j /\ j <= N
  OBVIOUS
<1>6. ASSUME S # {}
      PROVE  \E i \in S : \A j \in S : j <= i
  BY <1>4, <1>5, <1>6
<1>7. ASSUME S # {} PROVE LastOf(S) \in S /\ \A j \in S : j <= LastOf(S)
  <2>1. LastOf(S) = CHOOSE i \in S : \A j \in S : j <= i
    BY <1>7 DEF LastOf
  <2> QED BY <1>6, <1>7, <2>1
<1>8. S = {} => LastOf(S) = 0
  BY DEF LastOf
<1>9. LastOf(S) \in 0..N
  <2>1. CASE S = {}
    BY <1>8, <2>1
  <2>2. CASE S # {}
    <3>1. LastOf(S) \in S
      BY <1>7, <2>2
    <3>2. LastOf(S) \in Nat /\ 1 <= LastOf(S) /\ LastOf(S) <= N
      BY <1>5, <3>1, Zenon
    <3> QED BY <3>2
  <2> QED BY <2>1, <2>2
<1> QED BY <1>7, <1>8, <1>9

\* Sift, place by place.
LEMMA SiftSteps ==
    ASSUME NEW S, NEW s \in Seq(S), NEW keep
    PROVE  \E f : /\ DOMAIN f = 0..Len(s)
                  /\ f[0] = << >>
                  /\ \A n \in 1..Len(s) :
                        f[n] = IF n \in keep THEN Append(f[n - 1], s[n]) ELSE f[n - 1]
                  /\ Sift(s, keep) = f[Len(s)]
<1> DEFINE Val(f, n) == IF n = 0 THEN << >>
                        ELSE IF n \in keep THEN Append(f[n - 1], s[n]) ELSE f[n - 1]
           Ok(f, m) == f = [n \in 0..m |-> Val(f, n)]
           G == {m \in 0..Len(s) : \E f : Ok(f, m)}
           sifted == CHOOSE f : Ok(f, Len(s))
<1>0. Len(s) \in Nat
  OBVIOUS
<1>1. 0 \in G
  <2>1. Ok([n \in 0..0 |-> << >>], 0)
    OBVIOUS
  <2> HIDE DEF Ok
  <2> QED BY <1>0, <2>1
<1>2. ASSUME NEW m \in 0..(Len(s) - 1), m \in G
      PROVE  m + 1 \in G
  <2>1. PICK f : Ok(f, m)
    BY <1>2
  <2> DEFINE g == [n \in 0..(m + 1) |-> IF n = m + 1 THEN Val(f, n) ELSE f[n]]
  <2>2. \A n \in 0..(m + 1) : g[n] = Val(g, n)
    <3>1. \A n \in 0..m : f[n] = Val(f, n)
      BY <2>1
    <3>2. \A n \in 0..m : n \in 0..(m + 1) /\ n # m + 1
      BY <1>0
    <3>3. \A n \in 0..m : g[n] = f[n]
      BY <3>2
    <3>4. \A n \in 1..(m + 1) : n - 1 \in 0..m
      BY <1>0
    <3>5. \A n \in 0..(m + 1) : Val(g, n) = Val(f, n)
      BY <1>0, <3>3, <3>4
    <3> QED BY <1>0, <3>1, <3>3, <3>5
  <2>3. Ok(g, m + 1)
    <3> HIDE DEF Val
    <3>1. g = [n \in 0..(m + 1) |-> g[n]]
      OBVIOUS
    <3> HIDE DEF g
    <3> QED BY <2>2, <3>1
  <2> HIDE DEF Ok, g
  <2> QED BY <1>0, <2>3
<1>3. Len(s) \in G
  <2> HIDE DEF G
  <2>1. 0..Len(s) \subseteq G
    BY <1>0, <1>1, <1>2, UpTo
  <2> QED BY <1>0, <2>1
<1>4. Ok(sifted, Len(s))
  <2> HIDE DEF Ok
  <2> QED BY <1>3
<1>5. Sift(s, keep) = sifted[Len(s)]
  BY DEF Sift
<1> HIDE DEF sifted
<1>6. DOMAIN sifted = 0..Len(s) /\ \A n \in 0..Len(s) : sifted[n] = Val(sifted, n)
  BY <1>4
<1>7. sifted[0] = << >>
  BY <1>0, <1>6
<1>8. \A n \in 1..Len(s) :
        sifted[n] = IF n \in keep THEN Append(sifted[n - 1], s[n]) ELSE sifted[n - 1]
  <2>1. \A n \in 1..Len(s) : n \in 0..Len(s) /\ n # 0
    BY <1>0
  <2>2. \A n \in 1..Len(s) : sifted[n] = Val(sifted, n)
    BY <1>6, <2>1
  <2> QED BY <2>1, <2>2
<1> QED BY <1>5, <1>6, <1>7, <1>8

\* What is sifted: the elements at the kept places, each once and in order.
LEMMA SiftIs ==
    ASSUME NEW S, NEW s \in Seq(S), NEW keep
    PROVE  /\ Sift(s, keep) \in Seq(S)
           /\ \E p \in [1..Len(Sift(s, keep)) -> keep \cap DOMAIN s] :
                /\ \A k \in 1..Len(Sift(s, keep)) : Sift(s, keep)[k] = s[p[k]]
                /\ \A j, k \in 1..Len(Sift(s, keep)) : j < k => p[j] < p[k]
                /\ \A n \in keep \cap DOMAIN s : \E k \in 1..Len(Sift(s, keep)) : p[k] = n
<1> DEFINE Places(n) == keep \cap (1..n)
           Picks(t, P, p) ==
               /\ p \in [1..Len(t) -> P]
               /\ \A k \in 1..Len(t) : t[k] = s[p[k]]
               /\ \A j, k \in 1..Len(t) : j < k => p[j] < p[k]
               /\ \A m \in P : \E k \in 1..Len(t) : p[k] = m
           Picked(t, P) == t \in Seq(S) /\ \E p : Picks(t, P, p)
<1>0. Len(s) \in Nat /\ DOMAIN s = 1..Len(s)
  OBVIOUS
<1>1. PICK f : /\ DOMAIN f = 0..Len(s)
               /\ f[0] = << >>
               /\ \A n \in 1..Len(s) :
                     f[n] = IF n \in keep THEN Append(f[n - 1], s[n]) ELSE f[n - 1]
               /\ Sift(s, keep) = f[Len(s)]
  BY SiftSteps
<1> DEFINE G == {n \in 0..Len(s) : Picked(f[n], Places(n))}
<1>2. 0 \in G
  <2>1. Places(0) = {}
    OBVIOUS
  <2>2. f[0] \in Seq(S) /\ Len(f[0]) = 0
    BY <1>1
  <2>3. [k \in {} |-> 0] \in [1..Len(f[0]) -> Places(0)]
    BY <2>2
  <2> HIDE DEF Places
  <2>4. Picked(f[0], Places(0))
    BY <2>1, <2>2, <2>3
  <2> HIDE DEF Picked
  <2> QED BY <1>0, <2>4
<1>3. ASSUME NEW n \in 0..(Len(s) - 1), n \in G
      PROVE  n + 1 \in G
  <2>0. n \in Nat /\ n + 1 \in 1..Len(s) /\ (n + 1) - 1 = n
    BY <1>0
  <2>1. Picked(f[n], Places(n))
    BY <1>3
  <2>2. CASE n + 1 \notin keep
    <3>1. f[n + 1] = f[n]
      BY <1>1, <2>0, <2>2
    <3>2. Places(n + 1) = Places(n)
      BY <2>0, <2>2
    <3> HIDE DEF Places
    <3>3. Picked(f[n + 1], Places(n + 1))
      BY <2>1, <3>1, <3>2
    <3> HIDE DEF Picked
    <3> QED BY <2>0, <3>3
  <2>3. CASE n + 1 \in keep
    <3>1. f[n + 1] = Append(f[n], s[n + 1])
      BY <1>1, <2>0, <2>3
    <3>2. Places(n + 1) = Places(n) \cup {n + 1}
      BY <2>0, <2>3
    <3>3. \A m \in Places(n) : m \in Nat /\ m < n + 1
      BY <2>0
    <3> HIDE DEF Places
    <3>4. f[n] \in Seq(S) /\ Len(f[n]) \in Nat /\ s[n + 1] \in S
      BY <1>0, <2>0, <2>1
    <3> DEFINE L == Len(f[n])
               t == f[n + 1]
    <3>15. PICK p : Picks(f[n], Places(n), p)
      BY <2>1
    <3>5. /\ p \in [1..L -> Places(n)]
          /\ \A k \in 1..L : f[n][k] = s[p[k]]
          /\ \A j, k \in 1..L : j < k => p[j] < p[k]
          /\ \A m \in Places(n) : \E k \in 1..L : p[k] = m
      BY <3>15
    <3> DEFINE q == [k \in 1..(L + 1) |-> IF k = L + 1 THEN n + 1 ELSE p[k]]
    <3>6. /\ t \in Seq(S) /\ Len(t) = L + 1
          /\ t[L + 1] = s[n + 1] /\ \A k \in 1..L : t[k] = f[n][k]
      BY <3>1, <3>4
    <3>7. \A k \in 1..L : k \in 1..(L + 1) /\ k # L + 1 /\ q[k] = p[k]
      BY <3>4
    <3>8. q[L + 1] = n + 1 /\ L + 1 \in 1..(L + 1)
      BY <3>4
    <3>9. \A k \in 1..(L + 1) : k \in 1..L \/ k = L + 1
      BY <3>4
    <3>10. q \in [1..(L + 1) -> Places(n + 1)]
      BY <3>2, <3>5, <3>9
    <3> HIDE DEF q, t, L
    <3>11. \A k \in 1..(L + 1) : t[k] = s[q[k]]
      BY <3>5, <3>6, <3>7, <3>8, <3>9 DEF L
    <3>12. \A j, k \in 1..(L + 1) : j < k => q[j] < q[k]
      <4> SUFFICES ASSUME NEW j \in 1..(L + 1), NEW k \in 1..(L + 1), j < k
                   PROVE  q[j] < q[k]
        OBVIOUS
      <4>1. j \in 1..L /\ p[j] \in Places(n)
        <5>1. j \in 1..L
          BY <3>4 DEF L
        <5> QED BY <3>5, <5>1
      <4>2. CASE k \in 1..L
        BY <3>5, <3>7, <4>1, <4>2 DEF L
      <4>3. CASE k = L + 1
        BY <3>3, <3>7, <3>8, <4>1, <4>3
      <4> QED BY <3>9, <4>2, <4>3
    <3>13. \A m \in Places(n + 1) : \E k \in 1..(L + 1) : q[k] = m
      <4> SUFFICES ASSUME NEW m \in Places(n + 1)
                   PROVE  \E k \in 1..(L + 1) : q[k] = m
        OBVIOUS
      <4>1. CASE m = n + 1
        BY <3>8, <4>1
      <4>2. CASE m \in Places(n)
        <5>1. PICK k \in 1..L : p[k] = m
          BY <3>5, <4>2 DEF L
        <5> QED BY <3>7, <5>1
      <4> QED BY <3>2, <4>1, <4>2
    <3>14. Picked(t, Places(n + 1))
      <4>1. t \in Seq(S) /\ Len(t) = L + 1
        BY <3>6
      <4>2. Picks(t, Places(n + 1), q)
        BY <3>10, <3>11, <3>12, <3>13, <4>1
      <4> HIDE DEF Picks
      <4> QED BY <4>1, <4>2
    <3> HIDE DEF Picked
    <3> QED BY <2>0, <3>14 DEF t
  <2> QED BY <2>2, <2>3
<1>4. Picked(f[Len(s)], Places(Len(s)))
  <2> HIDE DEF G
  <2>1. 0..Len(s) \subseteq G
    BY <1>0, <1>2, <1>3, UpTo
  <2>2. Len(s) \in G
    BY <1>0, <2>1
  <2> USE DEF G
  <2> HIDE DEF Picked
  <2> QED BY <2>2
<1>5. Places(Len(s)) = keep \cap DOMAIN s
  BY <1>0
<1>6. Picked(Sift(s, keep), keep \cap DOMAIN s)
  <2> HIDE DEF Places, Picked
  <2> QED BY <1>1, <1>4, <1>5
<1> QED BY <1>6, Zenon

\* FlattenSeq, sequence by sequence.
LEMMA FlattenSteps ==
    ASSUME NEW S, NEW ss \in Seq(Seq(S))
    PROVE  \E f : /\ DOMAIN f = 0..Len(ss)
                  /\ f[0] = << >>
                  /\ \A n \in 1..Len(ss) : f[n] = f[n - 1] \o ss[n]
                  /\ FlattenSeq(ss) = f[Len(ss)]
<1> DEFINE Val(f, n) == IF n = 1 THEN ss[n] ELSE f[n - 1] \o ss[n]
           Ok(f, m) == f = [n \in 1..m |-> Val(f, n)]
           G == {m \in 0..Len(ss) : \E f : Ok(f, m)}
           flat == CHOOSE f : Ok(f, Len(ss))
<1>0. Len(ss) \in Nat
  OBVIOUS
<1>1. 0 \in G
  <2>1. Ok([n \in 1..0 |-> << >>], 0)
    OBVIOUS
  <2> HIDE DEF Ok
  <2> QED BY <1>0, <2>1
<1>2. ASSUME NEW m \in 0..(Len(ss) - 1), m \in G
      PROVE  m + 1 \in G
  <2>1. PICK f : Ok(f, m)
    BY <1>2
  <2> DEFINE g == [n \in 1..(m + 1) |-> IF n = m + 1 THEN Val(f, n) ELSE f[n]]
  <2>2. \A n \in 1..(m + 1) : g[n] = Val(g, n)
    <3>1. \A n \in 1..m : f[n] = Val(f, n)
      BY <2>1
    <3>2. \A n \in 1..m : n \in 1..(m + 1) /\ n # m + 1
      BY <1>0
    <3>3. \A n \in 1..m : g[n] = f[n]
      BY <3>2
    <3>4. \A n \in 1..(m + 1) : n = 1 \/ n - 1 \in 1..m
      BY <1>0
    <3>5. \A n \in 1..(m + 1) : Val(g, n) = Val(f, n)
      BY <1>0, <3>3, <3>4
    <3>6. g[m + 1] = Val(f, m + 1)
      BY <1>0
    <3> HIDE DEF g, Val
    <3>7. \A n \in 1..(m + 1) : n \in 1..m \/ n = m + 1
      BY <1>0
    <3> QED BY <3>1, <3>3, <3>5, <3>6, <3>7
  <2>3. Ok(g, m + 1)
    <3> HIDE DEF Val
    <3>1. g = [n \in 1..(m + 1) |-> g[n]]
      OBVIOUS
    <3> HIDE DEF g
    <3> QED BY <2>2, <3>1
  <2> HIDE DEF Ok, g
  <2> QED BY <1>0, <2>3
<1>3. Len(ss) \in G
  <2> HIDE DEF G
  <2>1. 0..Len(ss) \subseteq G
    BY <1>0, <1>1, <1>2, UpTo
  <2> QED BY <1>0, <2>1
<1>4. Ok(flat, Len(ss))
  <2> HIDE DEF Ok
  <2> QED BY <1>3
<1>5. Len(ss) # 0 => FlattenSeq(ss) = flat[Len(ss)]
  BY DEF FlattenSeq
<1> HIDE DEF flat
<1>6. \A n \in 1..Len(ss) : flat[n] = Val(flat, n)
  BY <1>4
<1> DEFINE h == [n \in 0..Len(ss) |-> IF n = 0 THEN << >> ELSE flat[n]]
<1>7. \A n \in 1..Len(ss) : n \in 0..Len(ss) /\ n # 0 /\ n - 1 \in 0..Len(ss) /\ ss[n] \in Seq(S)
  BY <1>0
<1>8. h[0] = << >>
  BY <1>0
<1>9. \A n \in 1..Len(ss) : h[n] = h[n - 1] \o ss[n]
  <2> SUFFICES ASSUME NEW n \in 1..Len(ss) PROVE h[n] = h[n - 1] \o ss[n]
    OBVIOUS
  <2>1. h[n] = flat[n] /\ flat[n] = Val(flat, n) /\ ss[n] \in Seq(S)
    BY <1>6, <1>7
  <2>2. CASE n = 1
    <3>1. h[n - 1] = << >>
      BY <1>8, <2>2
    <3>2. << >> \o ss[n] = ss[n]
      BY <2>1
    <3> QED BY <2>1, <2>2, <3>1, <3>2
  <2>3. CASE n # 1
    <3>1. n - 1 # 0 /\ n - 1 \in 0..Len(ss)
      BY <1>0, <2>3
    <3>2. h[n - 1] = flat[n - 1]
      BY <3>1
    <3> QED BY <2>1, <2>3, <3>2
  <2> QED BY <2>2, <2>3
<1>10. FlattenSeq(ss) = h[Len(ss)]
  <2>1. CASE Len(ss) = 0
    <3>1. FlattenSeq(ss) = ss
      BY <2>1 DEF FlattenSeq
    <3> QED BY <1>8, <2>1, <3>1
  <2>2. CASE Len(ss) # 0
    BY <1>0, <1>5, <2>2
  <2> QED BY <2>1, <2>2
<1>11. DOMAIN h = 0..Len(ss)
  OBVIOUS
<1> HIDE DEF h
<1> QED BY <1>8, <1>9, <1>10, <1>11

\* The state of the pass after each event, from the one before.
LEMMA PassSteps ==
    ASSUME NEW log, Len(log) \in Nat
    PROVE  /\ DOMAIN PassOver(log) = 0..Len(log)
           /\ PassOver(log)[0] = [ms |-> << >>, told |-> BornKind(log), switch |-> 0]
           /\ \A i \in 1..Len(log) :
                 PassOver(log)[i] =
                     IF i \in Live(log)
                     THEN StepAt(log, Live(log), ElidedIn(log, Live(log)),
                                 RemovedCalls(log, Live(log)), PassOver(log)[i - 1], i)
                     ELSE PassOver(log)[i - 1]
<1> DEFINE St(st, i) == StepAt(log, Live(log), ElidedIn(log, Live(log)),
                               RemovedCalls(log, Live(log)), st, i)
           start == [ms |-> << >>, told |-> BornKind(log), switch |-> 0]
           Val(f, n) == IF n = 0 THEN start
                        ELSE IF n \in Live(log) THEN St(f[n - 1], n) ELSE f[n - 1]
           Ok(f, m) == f = [n \in 0..m |-> Val(f, n)]
           G == {m \in 0..Len(log) : \E f : Ok(f, m)}
           pass == CHOOSE f : Ok(f, Len(log))
<1> HIDE DEF St, start
<1>1. 0 \in G
  <2>1. Ok([n \in 0..0 |-> start], 0)
    OBVIOUS
  <2> HIDE DEF Ok
  <2> QED BY <2>1
<1>2. ASSUME NEW m \in 0..(Len(log) - 1), m \in G
      PROVE  m + 1 \in G
  <2>1. PICK f : Ok(f, m)
    BY <1>2
  <2> DEFINE g == [n \in 0..(m + 1) |-> IF n = m + 1 THEN Val(f, n) ELSE f[n]]
  <2>2. \A n \in 0..(m + 1) : g[n] = Val(g, n)
    <3>1. \A n \in 0..m : f[n] = Val(f, n)
      BY <2>1
    <3>2. \A n \in 0..m : n \in 0..(m + 1) /\ n # m + 1
      OBVIOUS
    <3>3. \A n \in 0..m : g[n] = f[n]
      BY <3>2
    <3>4. \A n \in 1..(m + 1) : n - 1 \in 0..m
      OBVIOUS
    <3>5. \A n \in 0..(m + 1) : Val(g, n) = Val(f, n)
      BY <3>3, <3>4
    <3> QED BY <3>1, <3>3, <3>5
  <2>3. Ok(g, m + 1)
    <3> HIDE DEF Val
    <3>1. g = [n \in 0..(m + 1) |-> g[n]]
      OBVIOUS
    <3> HIDE DEF g
    <3> QED BY <2>2, <3>1
  <2> HIDE DEF Ok, g
  <2> QED BY <2>3
<1>3. Len(log) \in G
  <2> HIDE DEF G
  <2>1. 0..Len(log) \subseteq G
    BY <1>1, <1>2, UpTo
  <2> QED BY <2>1
<1>4. Ok(pass, Len(log))
  <2> HIDE DEF Ok
  <2> QED BY <1>3
<1>5. PassOver(log) = pass
  BY DEF PassOver, St, start
<1> HIDE DEF pass
<1>6. DOMAIN pass = 0..Len(log) /\ \A n \in 0..Len(log) : pass[n] = Val(pass, n)
  BY <1>4
<1>7. pass[0] = start
  BY <1>6
<1>8. ASSUME NEW n \in 1..Len(log)
      PROVE  pass[n] = IF n \in Live(log) THEN St(pass[n - 1], n) ELSE pass[n - 1]
  <2>1. n \in 0..Len(log) /\ n # 0
    OBVIOUS
  <2> QED BY <1>6, <2>1
<1> QED BY <1>5, <1>6, <1>7, <1>8 DEF St, start

Sifted(S, s, keep, o) ==
    /\ o \in Seq(S)
    /\ \E p \in [1..Len(o) -> keep \cap DOMAIN s] :
          /\ \A k \in 1..Len(o) : o[k] = s[p[k]]
          /\ \A j, k \in 1..Len(o) : j < k => p[j] < p[k]
          /\ \A n \in keep \cap DOMAIN s : \E k \in 1..Len(o) : p[k] = n

LEMMA SiftSifted ==
    ASSUME NEW S, NEW s \in Seq(S), NEW keep
    PROVE  Sifted(S, s, keep, Sift(s, keep))
<1> DEFINE o == Sift(s, keep)
<1>1. o \in Seq(S)
  BY SiftIs
<1>2. \E p \in [1..Len(o) -> keep \cap DOMAIN s] :
          /\ \A k \in 1..Len(o) : o[k] = s[p[k]]
          /\ \A j, k \in 1..Len(o) : j < k => p[j] < p[k]
          /\ \A n \in keep \cap DOMAIN s : \E k \in 1..Len(o) : p[k] = n
  BY SiftIs
<1> HIDE DEF o
<1>3. Sifted(S, s, keep, o)
  BY <1>1, <1>2 DEF Sifted
<1> QED BY <1>3 DEF o

-----------------------------------------------------------------------------
(* What the log holds besides its markers: each result stands behind the   *)
(* reply that asked for it with other results alone between them, a call   *)
(* is one reply's and has one result at most, and what an edit rewords is  *)
(* something that was said.                                                *)

\* The reply at a asks for call id, and from there to j are results alone.
Asks(log, a, id, j) ==
    /\ IsAssistant(log[a]) /\ ~log[a].stand_in
    /\ id \in CallIds(log[a].blocks)
    /\ \A m \in (a + 1)..(j - 1) : log[m].type = "tool_result"

ReplyFits(log, i) ==
    LET bs == log[i].blocks IN
    /\ bs # << >>
    /\ log[i].stand_in => CallIds(bs) = {}
    /\ \A n \in DOMAIN bs : IsCall(bs[n]) =>
          /\ bs[n].id = << i, n >> \/ bs[n].id[1] = 0
          /\ \A m \in DOMAIN bs : IsCall(bs[m]) /\ bs[m].id = bs[n].id => m = n
          /\ \A k \in 1..(i - 1) : IsAssistant(log[k]) => bs[n].id \notin CallIds(log[k].blocks)

ResultFits(log, i) ==
    /\ \E a \in 1..(i - 1) : Asks(log, a, log[i].id, i)
    /\ \A k \in 1..(i - 1) : log[k].type = "tool_result" => log[k].id # log[i].id

EditFits(log, i) ==
    LET t == log[i].target IN
    /\ t \in 1..(i - 1)
    /\ IF log[i].block = 0 THEN IsUser(log[t])
       ELSE /\ log[i].files = KeepFiles
            /\ IsAssistant(log[t])
            /\ log[i].block \in DOMAIN log[t].blocks
            /\ IsText(log[t].blocks[log[i].block])

Fits(log, i) ==
    /\ IsUser(log[i]) => log[i].said # "" \/ log[i].files > 0
    /\ IsAssistant(log[i]) => ReplyFits(log, i)
    /\ log[i].type = "tool_result" => ResultFits(log, i)
    /\ log[i].type = "edit" => EditFits(log, i)

\* A call still open may be answered at the end of the log.
OpenFits ==
    \A id \in open :
        /\ \E a \in DOMAIN events : Asks(events, a, id, Len(events) + 1)
        /\ \A k \in DOMAIN events : events[k].type = "tool_result" => events[k].id # id

EventsFit == \A i \in DOMAIN events : Fits(events, i)

\* What an event's place asks of the log is asked of what comes before it.
LEMMA FitsHere ==
    ASSUME NEW log, NEW other, NEW i \in Nat \ {0},
           \A k \in 1..i : other[k] = log[k], Fits(log, i)
    PROVE  Fits(other, i)
<1>1. other[i] = log[i] /\ \A k \in 1..(i - 1) : other[k] = log[k]
  OBVIOUS
<1>2. ReplyFits(log, i) => ReplyFits(other, i)
  BY <1>1 DEF ReplyFits
<1>3. ASSUME ResultFits(log, i) PROVE ResultFits(other, i)
  <2>1. PICK a \in 1..(i - 1) : Asks(log, a, log[i].id, i)
    BY <1>3 DEF ResultFits
  <2>2. \A m \in (a + 1)..(i - 1) : m \in 1..(i - 1)
    OBVIOUS
  <2>3. Asks(other, a, other[i].id, i)
    BY <1>1, <2>1, <2>2 DEF Asks
  <2> QED BY <1>1, <1>3, <2>3 DEF ResultFits
<1>4. EditFits(log, i) => EditFits(other, i)
  BY <1>1 DEF EditFits
<1> QED BY <1>1, <1>2, <1>3, <1>4 DEF Fits

\* What is appended fits if it does at the end of the log.
LEMMA FitsAppend ==
    ASSUME TypeOK, EventsFit, NEW e, Record(e), Fits(events', Len(events) + 1)
    PROVE  EventsFit'
<1>1. /\ Len(events) \in Nat /\ DOMAIN events = 1..Len(events)
      /\ DOMAIN events' = 1..(Len(events) + 1)
      /\ \A i \in DOMAIN events : events'[i] = events[i]
  BY DEF TypeOK, Record
<1> SUFFICES ASSUME NEW i \in DOMAIN events' PROVE Fits(events', i)
  BY DEF EventsFit
<1>2. CASE i \in DOMAIN events
  <2>1. i \in Nat \ {0} /\ \A k \in 1..i : k \in DOMAIN events
    BY <1>1, <1>2
  <2>2. \A k \in 1..i : events'[k] = events[k]
    BY <1>1, <2>1
  <2>3. Fits(events, i)
    BY <1>2 DEF EventsFit
  <2> QED BY <2>1, <2>2, <2>3, FitsHere
<1> QED BY <1>1, <1>2

\* What is recorded is the last event.
LEMMA RecordIsLast ==
    ASSUME TypeOK, NEW e, Record(e)
    PROVE  events'[Len(events) + 1] = e
BY DEF TypeOK, Record

\* Most events fit anywhere.
LEMMA PlainFits ==
    ASSUME TypeOK, EventsFit, NEW e, Record(e),
           e.type \notin {"user_message", "assistant_message", "tool_result", "edit"}
    PROVE  EventsFit'
<1>1. events'[Len(events) + 1] = e
  BY DEF TypeOK, Record
<1> QED BY <1>1, FitsAppend DEF Fits, IsUser, IsAssistant

\* The markers he leaves are not part of the exchange.
LEMMA PlainTypes ==
    /\ \A k : SwitchKind(k).type = "kind"
    /\ Compaction.type = "compaction"
    /\ \A n : RewindTo(n).type = "rewind" /\ UnrewindOf(n).type = "unrewind"
    /\ \A T, b : ElideOf(T, b).type = "elide" /\ UnelideOf(T, b).type = "unelide"
BY DEF SwitchKind, Compaction, RewindTo, UnrewindOf, ElideOf, UnelideOf

\* A reply recorded at its own position brings calls no other has.
LEMMA ReplyFitsHere ==
    ASSUME TypeOK, EventsFit, NEW shape \in Seq(BlockKinds) \ {<< >>},
           Record(Assistant(BlocksOf(shape, Len(events) + 1)))
    PROVE  EventsFit'
<1> DEFINE i == Len(events) + 1
           bs == BlocksOf(shape, i)
<1>1. /\ Len(events) \in Nat /\ DOMAIN events = 1..Len(events)
      /\ \A k \in DOMAIN events : events'[k] = events[k]
      /\ events'[i] = Assistant(bs)
      /\ \A k \in 1..(i - 1) : k \in DOMAIN events
  BY DEF TypeOK, Record
<1>2. DOMAIN bs = DOMAIN shape /\ DOMAIN shape = 1..Len(shape) /\ Len(shape) \in Nat \ {0}
  BY DEF BlocksOf
<1>3. \A n \in DOMAIN bs : IsCall(bs[n]) => bs[n].id = << i, n >>
  BY DEF BlocksOf, IsCall
<1>4. bs # << >>
  BY <1>2
<1>5. ASSUME NEW k \in DOMAIN events, IsAssistant(events[k]), NEW id \in CallIds(events[k].blocks)
      PROVE  id[1] # i
  <2>1. PICK n \in DOMAIN events[k].blocks : IsCall(events[k].blocks[n]) /\ events[k].blocks[n].id = id
    BY <1>5 DEF CallIds
  <2>2. id = << k, n >> \/ id[1] = 0
    BY <1>5, <2>1 DEF EventsFit, Fits, ReplyFits
  <2> QED BY <1>1, <2>2
<1>6. \A n \in DOMAIN bs : IsCall(bs[n]) => bs[n].id[1] = i
  BY <1>3
<1> HIDE DEF i, bs
<1>7. ReplyFits(events', i)
  <2>1. events'[i].blocks = bs /\ events'[i].stand_in = FALSE
    BY <1>1 DEF Assistant
  <2>2. \A n \in DOMAIN bs : \A m \in DOMAIN bs :
            IsCall(bs[n]) /\ IsCall(bs[m]) /\ bs[m].id = bs[n].id => m = n
    BY <1>3
  <2>3. \A n \in DOMAIN bs : \A k \in 1..(i - 1) :
            IsCall(bs[n]) /\ IsAssistant(events'[k]) => bs[n].id \notin CallIds(events'[k].blocks)
    BY <1>1, <1>5, <1>6
  <2> QED BY <1>3, <1>4, <2>1, <2>2, <2>3 DEF ReplyFits
<1>8. Fits(events', i)
  BY <1>1, <1>7 DEF Fits, IsUser, IsAssistant, Assistant
<1> QED BY <1>8, FitsAppend DEF i, bs

LogInv == TypeOK /\ EventsFit /\ OpenFits

\* With no call open there is nothing to answer.
LEMMA NoneOpen == open = {} => OpenFits
BY DEF OpenFits

LEMMA FitsInit == Init => EventsFit /\ OpenFits
<1> SUFFICES ASSUME NEW k \in Kinds, events = << Created(k) >>, open = {}
             PROVE  EventsFit
  BY NoneOpen DEF Init
<1>1. DOMAIN events = {1} /\ events[1].type = "session_created"
  BY DEF Created
<1> QED BY <1>1 DEF EventsFit, Fits, IsUser, IsAssistant

\* A result follows the reply that asked for it, and answers nothing twice.
LEMMA ResultKeeps ==
    ASSUME LogInv, NEW id \in open, RecordToolResult(id)
    PROVE  EventsFit' /\ OpenFits'
<1> DEFINE n == Len(events) + 1
<1>1. /\ Len(events) \in Nat /\ DOMAIN events = 1..Len(events)
      /\ events' = Append(events, Result(id))
      /\ DOMAIN events' = 1..n /\ Len(events') = n
      /\ \A k \in DOMAIN events : events'[k] = events[k] /\ k \in DOMAIN events'
      /\ events'[n] = Result(id)
      /\ \A k \in 1..(n - 1) : k \in DOMAIN events
  BY DEF LogInv, TypeOK, RecordToolResult, Record
<1>2. ASSUME NEW x \in open
      PROVE  \E a \in DOMAIN events : Asks(events', a, x, n) /\ Asks(events', a, x, n + 1)
  <2>1. PICK a \in DOMAIN events : Asks(events, a, x, n)
    BY DEF LogInv, OpenFits
  <2>2. \A m \in (a + 1)..(n - 1) : m \in DOMAIN events
    BY <1>1
  <2>3. \A m \in (a + 1)..((n + 1) - 1) : m = n \/ m \in (a + 1)..(n - 1)
    BY <1>1
  <2>4. events'[n].type = "tool_result"
    BY <1>1 DEF Result
  <2>5. events'[a] = events[a]
    BY <1>1
  <2> HIDE DEF n
  <2> QED BY <1>1, <2>1, <2>2, <2>3, <2>4, <2>5 DEF Asks
<1>3. events'[n].id = id
  BY <1>1 DEF Result
<1>4. \A k \in DOMAIN events : events[k].type = "tool_result" => events[k].id # id
  BY DEF LogInv, OpenFits
<1>5. Fits(events', n)
  <2>1. \E a \in 1..(n - 1) : Asks(events', a, id, n)
    <3>1. PICK a \in DOMAIN events : Asks(events', a, id, n)
      BY <1>2
    <3> QED BY <1>1, <3>1
  <2>2. ResultFits(events', n)
    BY <1>1, <1>3, <1>4, <2>1 DEF ResultFits
  <2>3. events'[n].type = "tool_result"
    BY <1>1 DEF Result
  <2> HIDE DEF n
  <2> QED BY <2>2, <2>3 DEF Fits, IsUser, IsAssistant
<1>6. EventsFit'
  BY <1>5, FitsAppend DEF LogInv, RecordToolResult
<1>7. OpenFits'
  <2> SUFFICES ASSUME NEW x \in open, x # id
               PROVE  /\ \E a \in DOMAIN events' : Asks(events', a, x, Len(events') + 1)
                      /\ \A k \in DOMAIN events' : events'[k].type = "tool_result" => events'[k].id # x
    BY DEF OpenFits, RecordToolResult
  <2>1. \E a \in DOMAIN events' : Asks(events', a, x, n + 1)
    BY <1>1, <1>2
  <2>2. \A k \in DOMAIN events' : k \in DOMAIN events \/ k = n
    BY <1>1
  <2>3. \A k \in DOMAIN events : events[k].type = "tool_result" => events[k].id # x
    BY DEF LogInv, OpenFits
  <2> HIDE DEF n
  <2> QED BY <1>1, <1>3, <2>1, <2>2, <2>3
<1> QED BY <1>6, <1>7

\* Every step of SessionLog keeps the log's events where they fit.
LEMMA FitsStep ==
    ASSUME LogInv, [Next]_vars
    PROVE  EventsFit' /\ OpenFits'
<1>0. /\ TypeOK /\ EventsFit /\ OpenFits
      /\ Len(events) \in Nat /\ DOMAIN events = 1..Len(events)
      /\ ~running => open = {}
  BY DEF LogInv, TypeOK
<1>1. ASSUME NEW said \in {"said", ""}, NEW n \in Attached, RecordUser(said, n)
      PROVE  EventsFit' /\ OpenFits'
  <2>7. Record(UserMsg(said, n))
    BY <1>1 DEF RecordUser
  <2>1. events'[Len(events) + 1] = UserMsg(said, n) /\ Record(UserMsg(said, n))
    BY <1>0, <2>7, RecordIsLast
  <2>2. said # "" \/ n > 0
    BY <1>1 DEF RecordUser
  <2>3. UserMsg(said, n).type = "user_message" /\ UserMsg(said, n).said = said
            /\ UserMsg(said, n).files = n
    BY DEF UserMsg
  <2>4. Fits(events', Len(events) + 1)
    BY <2>1, <2>2, <2>3 DEF Fits, IsUser, IsAssistant
  <2>5. open' = {}
    BY <1>0, <1>1 DEF RecordUser
  <2>6. OpenFits'
    BY <2>5 DEF OpenFits
  <2> QED BY <1>0, <2>1, <2>4, <2>6, FitsAppend
<1>2. ASSUME NEW shape \in Replies, RecordAssistant(shape)
      PROVE  EventsFit' /\ OpenFits'
  <2> DEFINE i == Len(events) + 1
             bs == BlocksOf(shape, i)
  <2>1. shape \in Seq(BlockKinds) \ {<< >>}
    BY LogAssumption
  <2>2. Record(Assistant(bs)) /\ open' = CallIds(bs)
    BY <1>2 DEF RecordAssistant
  <2> HIDE DEF bs
  <2>3. EventsFit'
    BY <1>0, <2>1, <2>2, ReplyFitsHere DEF bs
  <2>4. /\ Len(events') = i /\ DOMAIN events' = 1..i /\ i \in DOMAIN events'
        /\ events'[i] = Assistant(bs)
        /\ \A k \in DOMAIN events : events'[k] = events[k]
    BY <1>0, <2>2 DEF Record, TypeOK
  <2>5. ASSUME NEW id \in open' PROVE Asks(events', i, id, i + 1)
    <3>1. \A m \in (i + 1)..((i + 1) - 1) : FALSE
      BY <1>0
    <3>2. events'[i].blocks = bs /\ ~events'[i].stand_in /\ IsAssistant(events'[i])
      BY <2>4 DEF Assistant, IsAssistant
    <3> HIDE DEF i
    <3> QED BY <2>2, <2>5, <3>1, <3>2 DEF Asks
  <2>6. ASSUME NEW id \in open', NEW k \in DOMAIN events', events'[k].type = "tool_result"
        PROVE  events'[k].id # id
    <3>1. k \in 1..(k - 1) \/ k \in DOMAIN events
      BY <1>0, <2>4, <2>6 DEF Assistant
    <3>2. k \in DOMAIN events
      BY <1>0, <3>1
    <3>3. ResultFits(events', k)
      BY <2>3, <2>6 DEF EventsFit, Fits
    <3>4. PICK a \in 1..(k - 1) : Asks(events', a, events'[k].id, k)
      BY <3>3 DEF ResultFits
    <3>5. a \in 1..(i - 1) /\ IsAssistant(events'[a])
      BY <1>0, <3>2, <3>4 DEF Asks
    <3>8. Fits(events', i)
      BY <2>3, <2>4 DEF EventsFit
    <3>9. IsAssistant(events'[i])
      BY <2>4 DEF IsAssistant, Assistant
    <3>6. ReplyFits(events', i)
      BY <3>8, <3>9 DEF Fits
    <3>7. id \notin CallIds(events'[a].blocks)
      <4>1. PICK n \in DOMAIN bs : IsCall(bs[n]) /\ bs[n].id = id
        BY <2>2, <2>6 DEF CallIds
      <4>2. events'[i].blocks = bs
        BY <2>4 DEF Assistant
      <4> QED BY <3>5, <3>6, <4>1, <4>2 DEF ReplyFits
    <3> QED BY <3>4, <3>7 DEF Asks
  <2>7. OpenFits'
    BY <2>4, <2>5, <2>6 DEF OpenFits
  <2> QED BY <2>3, <2>7
<1>3. ASSUME NEW id \in open, RecordToolResult(id)
      PROVE  EventsFit' /\ OpenFits'
  BY <1>3, ResultKeeps
<1>4. CASE Stop
  BY <1>0, <1>4 DEF Stop, EventsFit, OpenFits
<1>5. CASE RecordStandIn
  <2>1. events'[Len(events) + 1] = StandIn /\ Record(StandIn)
    BY <1>0, <1>5 DEF RecordStandIn, Record
  <2>2. StandIn.type = "assistant_message" /\ StandIn.blocks = << [kind |-> "text"] >>
    BY DEF StandIn
  <2>3. CallIds(StandIn.blocks) = {} /\ \A n \in DOMAIN StandIn.blocks : ~IsCall(StandIn.blocks[n])
    BY <2>2 DEF CallIds, IsCall
  <2>4. StandIn.blocks # << >>
    BY <2>2
  <2>5. ReplyFits(events', Len(events) + 1)
    BY <2>1, <2>3, <2>4 DEF ReplyFits
  <2>6. Fits(events', Len(events) + 1)
    BY <2>1, <2>2, <2>5 DEF Fits, IsUser, IsAssistant
  <2>7. OpenFits'
    BY <1>5 DEF RecordStandIn, OpenFits
  <2> QED BY <1>0, <2>1, <2>6, <2>7, FitsAppend
<1>6. ASSUME NEW e, Record(e), ~running, UNCHANGED open,
             e.type \notin {"user_message", "assistant_message", "tool_result", "edit"}
      PROVE  EventsFit' /\ OpenFits'
  <2>1. open' = {}
    BY <1>0, <1>6
  <2> QED BY <1>0, <1>6, <2>1, PlainFits DEF OpenFits
<1>7. ASSUME NEW e, Record(e), ~running, UNCHANGED open, e.type = "edit",
             e.target \in DOMAIN events,
             IF e.block = 0 THEN IsUser(events[e.target])
             ELSE /\ e.files = KeepFiles
                  /\ IsAssistant(events[e.target])
                  /\ e.block \in DOMAIN events[e.target].blocks
                  /\ IsText(events[e.target].blocks[e.block])
      PROVE  EventsFit' /\ OpenFits'
  <2>1. /\ events'[Len(events) + 1] = e
        /\ \A k \in DOMAIN events : events'[k] = events[k]
        /\ e.target \in 1..((Len(events) + 1) - 1)
    BY <1>0, <1>7 DEF Record, TypeOK
  <2>2. EditFits(events', Len(events) + 1)
    BY <1>7, <2>1 DEF EditFits
  <2>3. Fits(events', Len(events) + 1)
    BY <1>7, <2>1, <2>2 DEF Fits, IsUser, IsAssistant
  <2>4. open' = {}
    BY <1>0, <1>7
  <2> QED BY <1>0, <1>7, <2>3, <2>4, FitsAppend DEF OpenFits
<1>8. CASE RecordCompaction
  BY <1>6, <1>8, PlainTypes DEF RecordCompaction, AtRest
<1>9. ASSUME NEW k, RecordKind(k)
      PROVE  EventsFit' /\ OpenFits'
  BY <1>6, <1>9, PlainTypes DEF RecordKind, AtRest
<1>10. ASSUME NEW i, Rewind(i)
       PROVE  EventsFit' /\ OpenFits'
  BY <1>6, <1>10, PlainTypes DEF Rewind, AtRest
<1>11. ASSUME NEW i, Unrewind(i)
       PROVE  EventsFit' /\ OpenFits'
  BY <1>6, <1>11, PlainTypes DEF Unrewind, AtRest
<1>12. ASSUME NEW T, Elide(T)
       PROVE  EventsFit' /\ OpenFits'
  BY <1>6, <1>12, PlainTypes DEF Elide, AtRest
<1>13. ASSUME NEW T, Unelide(T)
       PROVE  EventsFit' /\ OpenFits'
  BY <1>6, <1>13, PlainTypes DEF Unelide, AtRest
<1>14. ASSUME NEW i, NEW b, ElideBlock(i, b)
       PROVE  EventsFit' /\ OpenFits'
  BY <1>6, <1>14, PlainTypes DEF ElideBlock, AtRest
<1>15. ASSUME NEW i, NEW b, UnelideBlock(i, b)
       PROVE  EventsFit' /\ OpenFits'
  BY <1>6, <1>15, PlainTypes DEF UnelideBlock, AtRest
<1>16. ASSUME NEW i \in DOMAIN events, NEW text, NEW n, Edit(i, text, n)
       PROVE  EventsFit' /\ OpenFits'
  <2>1. /\ EditOf(i, 0, text, n).type = "edit" /\ EditOf(i, 0, text, n).target = i
        /\ EditOf(i, 0, text, n).block = 0
    BY DEF EditOf
  <2> QED BY <1>7, <1>16, <2>1 DEF Edit, AtRest
<1>17. ASSUME NEW i \in DOMAIN events, NEW b, NEW text, EditBlock(i, b, text)
       PROVE  EventsFit' /\ OpenFits'
  <2> DEFINE e == EditOf(i, b, text, KeepFiles)
  <2>1. e.type = "edit" /\ e.target = i /\ e.block = b /\ e.files = KeepFiles
    BY DEF EditOf
  <2>2. b \in DOMAIN events[i].blocks /\ IsAssistant(events[i])
    BY <1>17 DEF EditBlock
  <2>3. b # 0
    <3>1. events[i] \in Event
      BY <1>0 DEF TypeOK
    <3>2. events[i].blocks \in Seq(Block)
      BY <2>2, <3>1 DEF Event, IsAssistant
    <3> QED BY <2>2, <3>2
  <2> HIDE DEF e
  <2> QED BY <1>7, <1>17, <2>1, <2>2, <2>3 DEF EditBlock, AtRest, e
<1>18. CASE UNCHANGED vars
  BY <1>0, <1>18 DEF vars, EventsFit, OpenFits
<1>19. CASE TurnNext
  BY <1>1, <1>2, <1>3, <1>4, <1>5, <1>8, <1>19 DEF TurnNext
<1>20. CASE HisNext
  BY <1>9, <1>10, <1>11, <1>12, <1>13, <1>14, <1>15, <1>16, <1>17, <1>20 DEF HisNext
<1> QED BY <1>18, <1>19, <1>20 DEF Next

\* The log's events are always where they fit.
THEOREM LogIsWhole == Spec => []LogInv
<1>1. Init => LogInv
  BY TypeInit, FitsInit DEF LogInv
<1>2. LogInv /\ [Next]_vars => LogInv'
  BY TypeStep, FitsStep DEF LogInv
<1> QED BY <1>1, <1>2, PTL DEF Spec

-----------------------------------------------------------------------------
(* What a request is made of.  A message holds something, and its text is  *)
(* never blank.                                                            *)

WireBlock ==
    [kind : {"marker", "file", "summary", "omitted", "thinking", "reasoning_ref"}, src : Nat]
        \cup [kind : {"text", "narrative"}, say : Words \cup {"said", "own"}, src : Nat]
        \cup [kind : {"note"}, say : Kinds, src : Nat]
        \cup [kind : {"tool_use"}, id : Nat \X Nat, src : Nat]
        \cup [kind : {"tool_result"}, id : Nat \X Nat,
              content : {"kept", "marker", "repair"}, src : Nat]

Message == [role : {"user", "assistant"}, content : Seq(WireBlock) \ {<< >>}]

\* An event of the log, or the message a shell is about to record.
Entry == Event \cup {UserMsg("said", 0)}

\* A log whose events are where they fit.
Whole(log) ==
    /\ log \in Seq(Entry)
    /\ log # << >> /\ log[1].type = "session_created"
    /\ \A i \in DOMAIN log : PointsBack(log, i) /\ Fits(log, i)

LEMMA EntryFields ==
    ASSUME NEW e \in Entry
    PROVE  /\ IsUser(e) => e.said \in {"said", ""} /\ e.files \in Nat
           /\ IsAssistant(e) => e.blocks \in Seq(Block)
           /\ e.type = "tool_result" => e.id \in Nat \X Nat
           /\ e.type \in {"kind", "session_created"} => e.kind \in Kinds
           /\ e.type = "edit" => e.text \in Words /\ (e.files # KeepFiles => e.files \in Nat)
<1>1. CASE e = UserMsg("said", 0)
  BY <1>1 DEF UserMsg, IsUser, IsAssistant
<1>2. CASE e \in Event
  <2>1. IsUser(e) => e.said \in {"said", ""} /\ e.files \in Nat
    BY <1>2, LogAssumption DEF Event, IsUser
  <2>2. IsAssistant(e) => e.blocks \in Seq(Block)
    BY <1>2 DEF Event, IsAssistant
  <2>3. e.type = "tool_result" => e.id \in Nat \X Nat
    BY <1>2 DEF Event
  <2>4. e.type \in {"kind", "session_created"} => e.kind \in Kinds
    BY <1>2 DEF Event
  <2>5. e.type = "edit" => e.text \in Words /\ (e.files # KeepFiles => e.files \in Nat)
    BY <1>2, LogAssumption DEF Event
  <2> QED BY <2>1, <2>2, <2>3, <2>4, <2>5
<1> QED BY <1>1, <1>2 DEF Entry

LEMMA WholeLog ==
    ASSUME NEW log, Whole(log)
    PROVE  /\ Len(log) \in Nat \ {0} /\ DOMAIN log = 1..Len(log)
           /\ \A i \in DOMAIN log : log[i] \in Entry
           /\ Live(log) \subseteq DOMAIN log
           /\ \A i \in DOMAIN log : IsAssistant(log[i]) =>
                 /\ log[i].blocks \in Seq(Block)
                 /\ DOMAIN log[i].blocks = 1..Len(log[i].blocks)
                 /\ Len(log[i].blocks) \in Nat
                 /\ \A b \in DOMAIN log[i].blocks : log[i].blocks[b] \in Block
<1>1. Len(log) \in Nat \ {0} /\ DOMAIN log = 1..Len(log) /\ \A i \in DOMAIN log : log[i] \in Entry
  BY DEF Whole
<1>2. Live(log) \subseteq DOMAIN log
  BY DEF Live
<1>3. ASSUME NEW i \in DOMAIN log, IsAssistant(log[i])
      PROVE  log[i].blocks \in Seq(Block)
  BY <1>1, <1>3, EntryFields
<1>4. \A bs \in Seq(Block) : /\ DOMAIN bs = 1..Len(bs) /\ Len(bs) \in Nat
                             /\ \A b \in DOMAIN bs : bs[b] \in Block
  OBVIOUS
<1> QED BY <1>1, <1>2, <1>3, <1>4

LEMMA BlockFields ==
    ASSUME NEW b \in Block
    PROVE  b.kind \in BlockKinds /\ (IsCall(b) => b.id \in Nat \X Nat)
BY DEF Block, IsCall, BlockKinds

\* A block goes out as what it is.
LEMMA OutBlockIs ==
    ASSUME NEW b \in Block, NEW i \in Nat
    PROVE  /\ OutBlock(b, i, "own") \in WireBlock
           /\ OutBlock(b, i, "own").kind = b.kind
           /\ OutBlock(b, i, "own").src = i
           /\ IsCall(b) => OutBlock(b, i, "own").id = b.id
<1>1. b.kind \in BlockKinds /\ (IsCall(b) => b.id \in Nat \X Nat)
  BY BlockFields
<1>2. CASE IsText(b)
  <2>1. OutBlock(b, i, "own") = [kind |-> b.kind, say |-> "own", src |-> i]
    BY <1>2 DEF OutBlock
  <2>2. b.kind \in {"text", "narrative"} /\ ~IsCall(b)
    BY <1>2 DEF IsText, IsCall
  <2> QED BY <2>1, <2>2 DEF WireBlock
<1>3. CASE IsCall(b)
  <2>1. ~IsText(b) /\ b.kind = "tool_use"
    BY <1>3 DEF IsText, IsCall
  <2>2. OutBlock(b, i, "own") = [kind |-> "tool_use", id |-> b.id, src |-> i]
    BY <1>3, <2>1 DEF OutBlock
  <2> QED BY <1>1, <1>3, <2>1, <2>2 DEF WireBlock
<1>4. CASE ~IsText(b) /\ ~IsCall(b)
  <2>1. OutBlock(b, i, "own") = [kind |-> b.kind, src |-> i]
    BY <1>4 DEF OutBlock
  <2>2. b.kind \in {"thinking", "reasoning_ref"}
    BY <1>1, <1>4 DEF IsText, IsCall, BlockKinds
  <2> QED BY <1>4, <2>1, <2>2 DEF WireBlock
<1> QED BY <1>2, <1>3, <1>4

LEMMA ReplyIs ==
    ASSUME NEW log, Whole(log), NEW i \in DOMAIN log, IsAssistant(log[i])
    PROVE  ReplyFits(log, i) /\ i \in Nat
<1>1. Fits(log, i)
  BY DEF Whole
<1>2. ReplyFits(log, i)
  BY <1>1 DEF Fits
<1>3. DOMAIN log = 1..Len(log) /\ Len(log) \in Nat
  BY WholeLog
<1>4. i \in Nat
  BY <1>3
<1> QED BY <1>2, <1>4

\* An edit in force is a live event that names the place.
Rewords(log, j, i, b) ==
    /\ j \in Live(log) /\ log[j].type = "edit"
    /\ log[j].target = i /\ log[j].block = b
    /\ log[j].text \in Words /\ log[j].text # ""

LEMMA EditAtIs ==
    ASSUME NEW log, Whole(log), NEW i, NEW b, EditAt(log, Live(log), i, b) # 0
    PROVE  Rewords(log, EditAt(log, Live(log), i, b), i, b)
<1> DEFINE E == {e \in Live(log) : /\ log[e].type = "edit"
                                   /\ log[e].target = i
                                   /\ log[e].block = b}
           j == EditAt(log, Live(log), i, b)
<1>1. E \in SUBSET (1..Len(log)) /\ Len(log) \in Nat
  BY WholeLog
<1>2. j = LastOf(E)
  BY DEF EditAt
<1> HIDE DEF E
<1>3. j \in E
  BY <1>1, <1>2, LastOfIs
<1> USE DEF E
<1>4. log[j] \in Entry
  BY <1>3, WholeLog
<1>5. log[j].text \in Words
  BY <1>3, <1>4, EntryFields
<1> QED BY <1>3, <1>5, LogAssumption DEF Rewords

\* A block of a reply, its edit with it: only what was said is reworded.
LEMMA EditedBlockIs ==
    ASSUME NEW log, Whole(log), NEW i \in DOMAIN log, IsAssistant(log[i]),
           NEW n \in DOMAIN log[i].blocks
    PROVE  LET o == EditedBlock(log, Live(log), i, n)
               b == log[i].blocks[n]
           IN  /\ o \in WireBlock
               /\ o.kind \in BlockKinds /\ o.src = i
               /\ IsCall(o) <=> IsCall(b)
               /\ IsCall(b) => o.id = b.id
               /\ (o.kind = "reasoning_ref") <=> (b.kind = "reasoning_ref")
<1> DEFINE o == EditedBlock(log, Live(log), i, n)
           b == log[i].blocks[n]
           edit == EditAt(log, Live(log), i, n)
<1>1. i \in Nat /\ n \in Nat /\ n # 0 /\ b \in Block
  BY WholeLog
<1>2. CASE edit = 0
  <2>1. o = OutBlock(b, i, "own")
    BY <1>2 DEF EditedBlock
  <2> QED BY <1>1, <2>1, OutBlockIs, BlockFields DEF IsCall
<1>3. CASE edit # 0
  <2>1. /\ edit \in Live(log) /\ log[edit].type = "edit"
        /\ log[edit].target = i /\ log[edit].block = n /\ log[edit].text \in Words
    <3>1. Rewords(log, edit, i, n)
      BY <1>3, EditAtIs
    <3> HIDE DEF edit
    <3>2. edit \in Live(log) /\ log[edit].text \in Words
      BY <3>1 DEF Rewords
    <3>3. log[edit].type = "edit"
      BY <3>1 DEF Rewords
    <3>4. log[edit].target = i /\ log[edit].block = n
      BY <3>1 DEF Rewords
    <3> QED BY <3>2, <3>3, <3>4
  <2>2. EditFits(log, edit)
    BY <2>1, WholeLog DEF Whole, Fits
  <2>3. IsText(b)
    BY <1>1, <2>1, <2>2 DEF EditFits
  <2>4. o = [kind |-> "text", say |-> log[edit].text, src |-> i]
    BY <1>3 DEF EditedBlock
  <2>5. o \in WireBlock
    BY <1>1, <2>1, <2>4 DEF WireBlock
  <2> QED BY <2>3, <2>4, <2>5 DEF IsText, IsCall, BlockKinds
<1> QED BY <1>2, <1>3

-----------------------------------------------------------------------------
(* Calls and replay handles keep their places when content is sifted.      *)

CallsOnce(c) ==
    \A m, n \in DOMAIN c : IsCall(c[m]) /\ IsCall(c[n]) /\ c[m].id = c[n].id => m = n

LeadsIn(c, led) ==
    \A n \in DOMAIN c : c[n].kind = "reasoning_ref" =>
        n < Len(c) /\ IsCall(c[n + 1]) /\ c[n + 1].id \in led

\* A handle is kept with the call it leads.
HandlesKept(t, keep) ==
    \A x \in DOMAIN t :
        /\ x \in keep /\ x + 1 \in DOMAIN t
        /\ t[x].kind = "reasoning_ref" /\ IsCall(t[x + 1])
        => x + 1 \in keep

\* What is sifted keeps its order, and a handle whose call is kept leads it.
LEMMA SiftKeeps ==
    ASSUME NEW S, NEW t \in Seq(S), NEW keep, HandlesKept(t, keep)
    PROVE  /\ Sift(t, keep) \in Seq(S)
           /\ \A k \in DOMAIN Sift(t, keep) :
                 \E x \in DOMAIN t : x \in keep /\ Sift(t, keep)[k] = t[x]
           /\ \A x \in DOMAIN t : x \in keep =>
                 \E k \in DOMAIN Sift(t, keep) : Sift(t, keep)[k] = t[x]
           /\ CallsOnce(t) => CallsOnce(Sift(t, keep))
           /\ \A led : LeadsIn(t, led) => LeadsIn(Sift(t, keep), led)
<1> DEFINE o == Sift(t, keep)
<1>1. /\ o \in Seq(S)
      /\ \E p \in [1..Len(o) -> keep \cap DOMAIN t] :
            /\ \A k \in 1..Len(o) : o[k] = t[p[k]]
            /\ \A j, k \in 1..Len(o) : j < k => p[j] < p[k]
            /\ \A n \in keep \cap DOMAIN t : \E k \in 1..Len(o) : p[k] = n
  <2>1. Sifted(S, t, keep, o)
    BY SiftSifted
  <2> HIDE DEF o
  <2> QED BY <2>1 DEF Sifted
<1> HIDE DEF o
<1>2. PICK p \in [1..Len(o) -> keep \cap DOMAIN t] :
            /\ \A k \in 1..Len(o) : o[k] = t[p[k]]
            /\ \A j, k \in 1..Len(o) : j < k => p[j] < p[k]
            /\ \A n \in keep \cap DOMAIN t : \E k \in 1..Len(o) : p[k] = n
  BY <1>1
<1>3. /\ DOMAIN o = 1..Len(o) /\ Len(o) \in Nat
      /\ DOMAIN t = 1..Len(t) /\ Len(t) \in Nat
  BY <1>1
<1>4. \A k \in DOMAIN o : p[k] \in keep /\ p[k] \in DOMAIN t /\ o[k] = t[p[k]] /\ p[k] \in Nat
  BY <1>2, <1>3
<1>5. \A x \in DOMAIN t : x \in keep => \E k \in DOMAIN o : o[k] = t[x]
  BY <1>2, <1>3
<1>6. ASSUME CallsOnce(t) PROVE CallsOnce(o)
  <2> SUFFICES ASSUME NEW m \in DOMAIN o, NEW n \in DOMAIN o,
                      IsCall(o[m]), IsCall(o[n]), o[m].id = o[n].id
               PROVE  m = n
    BY DEF CallsOnce
  <2>1. p[m] = p[n]
    BY <1>4, <1>6 DEF CallsOnce
  <2> QED BY <1>2, <1>3, <1>4, <2>1
<1>7. ASSUME NEW led, LeadsIn(t, led) PROVE LeadsIn(o, led)
  <2> SUFFICES ASSUME NEW n \in DOMAIN o, o[n].kind = "reasoning_ref"
               PROVE  n < Len(o) /\ IsCall(o[n + 1]) /\ o[n + 1].id \in led
    BY DEF LeadsIn
  <2> DEFINE x == p[n]
  <2>1. x \in DOMAIN t /\ x \in keep /\ t[x].kind = "reasoning_ref" /\ o[n] = t[x]
    BY <1>4
  <2>2. x < Len(t) /\ IsCall(t[x + 1]) /\ t[x + 1].id \in led
    BY <1>7, <2>1 DEF LeadsIn
  <2>3. x + 1 \in DOMAIN t /\ x \in Nat
    BY <1>3, <2>1, <2>2
  <2>4. x + 1 \in keep
    BY <2>1, <2>2, <2>3 DEF HandlesKept
  <2>5. PICK k \in 1..Len(o) : p[k] = x + 1
    BY <1>2, <2>3, <2>4
  <2>6. k \in Nat /\ n \in Nat /\ k \in DOMAIN o
    BY <1>3
  <2>7. n < k
    <3>1. CASE k = n
      BY <2>3, <2>5, <3>1
    <3>2. CASE k < n
      <4>1. p[k] < p[n]
        BY <1>2, <1>3, <3>2
      <4> QED BY <2>3, <2>5, <4>1
    <3> QED BY <2>6, <3>1, <3>2
  <2>8. k = n + 1
    <3>1. CASE n + 1 < k
      <4>1. n + 1 \in DOMAIN o /\ n < n + 1
        BY <1>3, <2>6, <3>1
      <4>2. p[n] < p[n + 1] /\ p[n + 1] < p[k]
        BY <1>2, <1>3, <3>1, <4>1
      <4>3. p[n + 1] \in Nat
        BY <1>4, <4>1
      <4> QED BY <2>3, <2>5, <4>2, <4>3
    <3> QED BY <2>6, <2>7, <3>1
  <2>9. o[n + 1] = t[x + 1]
    BY <1>4, <2>5, <2>6, <2>8
  <2> QED BY <1>3, <2>2, <2>6, <2>7, <2>8, <2>9
<1> QED BY <1>1, <1>4, <1>5, <1>6, <1>7 DEF o

-----------------------------------------------------------------------------
(* What one event puts into a message.                                     *)

Led(bs) ==
    {bs[m + 1].id : m \in {x \in 1..(Len(bs) - 1) :
        bs[x].kind = "reasoning_ref" /\ IsCall(bs[x + 1])}}

Refs(bs) == {x \in DOMAIN bs : bs[x].kind = "reasoning_ref"}

\* The handle a reply opens with leads one of its calls.
Leads(bs) == Led(bs) # {} /\ Cardinality(Refs(bs)) = 1

\* The content of reply i: its calls but for those taken out, each once, and
\* no result; and a handle still leads its call.
Carries(log, i, c) ==
    LET bs == log[i].blocks IN
    /\ c \in Seq(WireBlock) /\ c # << >>
    /\ \A n \in DOMAIN c : c[n].kind \notin {"tool_result", "note"}
    /\ CallsOnce(c)
    /\ \A b \in DOMAIN bs \ GoneIn(log, Live(log), i) :
          IsCall(bs[b]) => \E n \in DOMAIN c : IsCall(c[n]) /\ c[n].id = bs[b].id
    /\ \A n \in DOMAIN c : c[n].kind = "reasoning_ref" => c[n].src = i
    /\ Leads(bs) => LeadsIn(c, Led(bs))

\* A handle that alone leads a call leads it in any rendering of the blocks.
LEMMA LeadsInBlocks ==
    ASSUME NEW bs \in Seq(Block), Leads(bs),
           NEW s, DOMAIN s = DOMAIN bs, Len(s) = Len(bs),
           \A n \in DOMAIN bs :
               /\ IsCall(s[n]) <=> IsCall(bs[n])
               /\ IsCall(bs[n]) => s[n].id = bs[n].id
               /\ (s[n].kind = "reasoning_ref") <=> (bs[n].kind = "reasoning_ref")
    PROVE  LeadsIn(s, Led(bs))
<1>1. DOMAIN bs = 1..Len(bs) /\ Len(bs) \in Nat
  OBVIOUS
<1>2. IsFiniteSet(Refs(bs))
  <2>1. IsFiniteSet(1..Len(bs))
    BY <1>1, FS_Interval
  <2>2. Refs(bs) \subseteq 1..Len(bs)
    BY <1>1 DEF Refs
  <2> QED BY <2>1, <2>2, FS_Subset
<1>3. PICK x : Refs(bs) = {x}
  BY <1>2, FS_Singleton DEF Leads
<1>4. PICK m \in 1..(Len(bs) - 1) : bs[m].kind = "reasoning_ref" /\ IsCall(bs[m + 1])
  BY DEF Leads, Led
<1>5. m \in DOMAIN bs /\ m + 1 \in DOMAIN bs /\ m < Len(bs) /\ m \in Nat
  BY <1>1
<1>6. m = x
  BY <1>3, <1>4, <1>5 DEF Refs
<1>7. bs[m + 1].id \in Led(bs)
  BY <1>4 DEF Led
<1> SUFFICES ASSUME NEW n \in DOMAIN s, s[n].kind = "reasoning_ref"
             PROVE  n < Len(s) /\ IsCall(s[n + 1]) /\ s[n + 1].id \in Led(bs)
  BY DEF LeadsIn
<1>8. n = x
  BY <1>3 DEF Refs
<1> QED BY <1>4, <1>5, <1>6, <1>7, <1>8

\* A marker in front or behind changes neither.
LEMMA MarkerKeeps ==
    ASSUME NEW c \in Seq(WireBlock), NEW m \in WireBlock,
           m.kind \notin {"tool_use", "reasoning_ref"}
    PROVE  /\ << m >> \o c \in Seq(WireBlock) /\ Append(c, m) \in Seq(WireBlock)
           /\ \A n \in DOMAIN (<< m >> \o c) : (<< m >> \o c)[n] = m \/ \E k \in DOMAIN c : (<< m >> \o c)[n] = c[k]
           /\ \A n \in DOMAIN Append(c, m) : Append(c, m)[n] = m \/ \E k \in DOMAIN c : Append(c, m)[n] = c[k]
           /\ \A k \in DOMAIN c : \E n \in DOMAIN (<< m >> \o c) : (<< m >> \o c)[n] = c[k]
           /\ \A k \in DOMAIN c : \E n \in DOMAIN Append(c, m) : Append(c, m)[n] = c[k]
           /\ CallsOnce(c) => CallsOnce(<< m >> \o c) /\ CallsOnce(Append(c, m))
           /\ \A led : LeadsIn(c, led) => LeadsIn(<< m >> \o c, led) /\ LeadsIn(Append(c, m), led)
<1> DEFINE f == << m >> \o c
           g == Append(c, m)
<1>1. /\ DOMAIN c = 1..Len(c) /\ Len(c) \in Nat
      /\ f \in Seq(WireBlock) /\ Len(f) = Len(c) + 1 /\ DOMAIN f = 1..(Len(c) + 1)
      /\ f[1] = m /\ \A k \in 1..Len(c) : f[k + 1] = c[k]
  <2>1. << m >> \in Seq(WireBlock) /\ Len(<< m >>) = 1
    OBVIOUS
  <2>2. f \in Seq(WireBlock) /\ Len(f) = Len(c) + 1
    BY <2>1
  <2>3. f[1] = m
    BY <2>1
  <2>4. \A k \in 1..Len(c) : f[k + 1] = c[k]
    BY <2>1
  <2> HIDE DEF f
  <2> QED BY <2>2, <2>3, <2>4
<1>2. /\ g \in Seq(WireBlock) /\ Len(g) = Len(c) + 1 /\ DOMAIN g = 1..(Len(c) + 1)
      /\ g[Len(c) + 1] = m /\ \A k \in 1..Len(c) : g[k] = c[k]
  OBVIOUS
<1> HIDE DEF f, g
<1>3. /\ \A n \in DOMAIN f : n = 1 \/ (n - 1 \in DOMAIN c /\ f[n] = c[n - 1])
      /\ \A n \in DOMAIN g : n = Len(c) + 1 \/ (n \in DOMAIN c /\ g[n] = c[n])
      /\ \A k \in DOMAIN c : k \in DOMAIN g /\ k + 1 \in DOMAIN f
  <2>1. \A n \in 1..(Len(c) + 1) : n = 1 \/ (n - 1 \in 1..Len(c) /\ (n - 1) + 1 = n)
    BY <1>1
  <2>2. \A n \in 1..(Len(c) + 1) : n = Len(c) + 1 \/ n \in 1..Len(c)
    BY <1>1
  <2> QED BY <1>1, <1>2, <2>1, <2>2
<1>4. ~IsCall(m) /\ m.kind # "reasoning_ref"
  BY DEF IsCall
<1>5. ASSUME CallsOnce(c) PROVE CallsOnce(f)
  <2> SUFFICES ASSUME NEW a \in DOMAIN f, NEW b \in DOMAIN f,
                      IsCall(f[a]), IsCall(f[b]), f[a].id = f[b].id
               PROVE  a = b
    BY DEF CallsOnce
  <2>1. a - 1 \in DOMAIN c /\ f[a] = c[a - 1] /\ b - 1 \in DOMAIN c /\ f[b] = c[b - 1]
    BY <1>1, <1>3, <1>4
  <2>2. a - 1 = b - 1
    BY <1>5, <2>1 DEF CallsOnce
  <2> QED BY <1>1, <2>2
<1>6. ASSUME CallsOnce(c) PROVE CallsOnce(g)
  BY <1>2, <1>3, <1>4, <1>6 DEF CallsOnce
<1>7. ASSUME NEW led, LeadsIn(c, led) PROVE LeadsIn(f, led)
  <2> SUFFICES ASSUME NEW n \in DOMAIN f, f[n].kind = "reasoning_ref"
               PROVE  n < Len(f) /\ IsCall(f[n + 1]) /\ f[n + 1].id \in led
    BY DEF LeadsIn
  <2>1. n - 1 \in DOMAIN c /\ f[n] = c[n - 1]
    BY <1>1, <1>3, <1>4
  <2>2. n - 1 < Len(c) /\ IsCall(c[(n - 1) + 1]) /\ c[(n - 1) + 1].id \in led
    BY <1>7, <2>1 DEF LeadsIn
  <2>3. n \in 1..Len(c) /\ (n - 1) + 1 = n
    BY <1>1, <2>1, <2>2
  <2> QED BY <1>1, <2>2, <2>3
<1>8. ASSUME NEW led, LeadsIn(c, led) PROVE LeadsIn(g, led)
  <2> SUFFICES ASSUME NEW n \in DOMAIN g, g[n].kind = "reasoning_ref"
               PROVE  n < Len(g) /\ IsCall(g[n + 1]) /\ g[n + 1].id \in led
    BY DEF LeadsIn
  <2>1. n \in DOMAIN c /\ g[n] = c[n]
    BY <1>2, <1>3, <1>4
  <2>2. n < Len(c) /\ IsCall(c[n + 1]) /\ c[n + 1].id \in led
    BY <1>8, <2>1 DEF LeadsIn
  <2>3. n + 1 \in 1..Len(c) /\ n < Len(g)
    BY <1>1, <1>2, <2>1, <2>2
  <2> QED BY <1>2, <2>2, <2>3
<1>9. /\ \A n \in DOMAIN f : f[n] = m \/ \E k \in DOMAIN c : f[n] = c[k]
      /\ \A n \in DOMAIN g : g[n] = m \/ \E k \in DOMAIN c : g[n] = c[k]
      /\ \A k \in DOMAIN c : \E n \in DOMAIN f : f[n] = c[k]
      /\ \A k \in DOMAIN c : \E n \in DOMAIN g : g[n] = c[k]
  BY <1>1, <1>2, <1>3
<1> QED BY <1>1, <1>2, <1>5, <1>6, <1>7, <1>8, <1>9 DEF f, g

LEMMA MarkerIs ==
    ASSUME NEW i \in Nat
    PROVE  /\ Marker(i) \in WireBlock /\ Marker(i).kind = "marker" /\ Marker(i).src = i
           /\ [kind |-> "omitted", src |-> i] \in WireBlock
           /\ [kind |-> "summary", src |-> i] \in WireBlock
BY DEF Marker, WireBlock

\* A reply's blocks before they are sifted, each with its edit or without.
LEMMA Rendered ==
    ASSUME NEW log, Whole(log), NEW i \in DOMAIN log, IsAssistant(log[i]), ReplyFits(log, i),
           NEW s, DOMAIN s = DOMAIN log[i].blocks,
           \/ s = [n \in DOMAIN log[i].blocks |-> OutBlock(log[i].blocks[n], i, "own")]
           \/ s = [n \in DOMAIN log[i].blocks |-> EditedBlock(log, Live(log), i, n)]
    PROVE  /\ s \in Seq(WireBlock) /\ Len(s) = Len(log[i].blocks)
           /\ \A n \in DOMAIN s :
                 /\ s[n].kind \in BlockKinds /\ s[n].src = i
                 /\ IsCall(s[n]) <=> IsCall(log[i].blocks[n])
                 /\ IsCall(log[i].blocks[n]) => s[n].id = log[i].blocks[n].id
                 /\ (s[n].kind = "reasoning_ref") <=> (log[i].blocks[n].kind = "reasoning_ref")
           /\ CallsOnce(s)
           /\ Leads(log[i].blocks) => LeadsIn(s, Led(log[i].blocks))
<1> DEFINE bs == log[i].blocks
<1>1. /\ bs \in Seq(Block) /\ DOMAIN bs = 1..Len(bs) /\ Len(bs) \in Nat /\ i \in Nat
      /\ \A n \in DOMAIN bs : bs[n] \in Block
  BY WholeLog
<1> HIDE DEF bs
<1>2. ASSUME NEW n \in DOMAIN bs
      PROVE  /\ s[n] \in WireBlock
             /\ s[n].kind \in BlockKinds /\ s[n].src = i
             /\ IsCall(s[n]) <=> IsCall(bs[n])
             /\ IsCall(bs[n]) => s[n].id = bs[n].id
             /\ (s[n].kind = "reasoning_ref") <=> (bs[n].kind = "reasoning_ref")
  <2>1. CASE s[n] = OutBlock(bs[n], i, "own")
    <3>1. bs[n] \in Block /\ bs[n].kind \in BlockKinds
      BY <1>1, BlockFields
    <3> QED BY <1>1, <2>1, <3>1, OutBlockIs DEF IsCall
  <2>2. CASE s[n] = EditedBlock(log, Live(log), i, n)
    BY <2>2, EditedBlockIs DEF bs
  <2> QED BY <2>1, <2>2 DEF bs
<1>3. s \in Seq(WireBlock) /\ Len(s) = Len(bs)
  <2>1. s = [n \in 1..Len(bs) |-> s[n]]
    BY <1>1 DEF bs
  <2>2. s \in [1..Len(bs) -> WireBlock]
    BY <1>1, <1>2, <2>1
  <2> QED BY <1>1, <2>2
<1>4. CallsOnce(s)
  BY <1>2 DEF CallsOnce, ReplyFits, bs
<1>5. Leads(bs) => LeadsIn(s, Led(bs))
  BY <1>1, <1>2, <1>3, LeadsInBlocks DEF bs
<1> QED BY <1>2, <1>3, <1>4, <1>5 DEF bs

\* A handle goes with its call, so what is kept of one leads what is kept.
LEMMA KeptLeads ==
    ASSUME NEW bs, NEW gone, NEW s, DOMAIN s = DOMAIN bs,
           \A n \in DOMAIN s :
               /\ IsCall(s[n]) <=> IsCall(bs[n])
               /\ (s[n].kind = "reasoning_ref") <=> (bs[n].kind = "reasoning_ref"),
           NEW x \in DOMAIN s, ~LeadsRemovedCall(bs, gone, x), x + 1 \in DOMAIN s,
           s[x].kind = "reasoning_ref", IsCall(s[x + 1])
    PROVE  /\ x + 1 \notin gone /\ bs[x + 1].kind = "tool_use"
           /\ ~LeadsRemovedCall(bs, gone, x + 1)
BY DEF LeadsRemovedCall, IsCall

\* An elided reply keeps its calls and what leads them.
LEMMA ElideCarries ==
    ASSUME NEW log, Whole(log), NEW i \in DOMAIN log, IsAssistant(log[i])
    PROVE  Carries(log, i, ElideAssistant(log, Live(log), i))
<1> DEFINE bs == log[i].blocks
           gone == GoneIn(log, Live(log), i)
           kept == {n \in DOMAIN bs : /\ bs[n].kind \in {"tool_use", "reasoning_ref"}
                                      /\ ~(IsCall(bs[n]) /\ n \in gone)
                                      /\ ~LeadsRemovedCall(bs, gone, n)}
           s == [n \in DOMAIN bs |-> OutBlock(bs[n], i, "own")]
           t == Sift(s, kept)
           c == << Marker(i) >> \o t
<1>1. ReplyFits(log, i) /\ i \in Nat
  BY ReplyIs
<1>2. /\ s \in Seq(WireBlock) /\ Len(s) = Len(bs) /\ DOMAIN s = DOMAIN bs
      /\ \A n \in DOMAIN s :
            /\ s[n].kind \in BlockKinds /\ s[n].src = i
            /\ IsCall(s[n]) <=> IsCall(bs[n])
            /\ IsCall(bs[n]) => s[n].id = bs[n].id
            /\ (s[n].kind = "reasoning_ref") <=> (bs[n].kind = "reasoning_ref")
      /\ CallsOnce(s)
      /\ Leads(bs) => LeadsIn(s, Led(bs))
  <2>1. DOMAIN s = DOMAIN bs
    OBVIOUS
  <2> QED BY <1>1, <2>1, Rendered
<1>3. c = ElideAssistant(log, Live(log), i)
  BY DEF ElideAssistant
<1>4. \A n \in kept : ~LeadsRemovedCall(bs, gone, n)
  OBVIOUS
<1>5. \A n \in DOMAIN bs : IsCall(bs[n]) /\ n \notin gone => n \in kept
  BY DEF IsCall, LeadsRemovedCall
<1> HIDE DEF s, kept, gone, bs, c
<1>6. HandlesKept(s, kept)
  <2> SUFFICES ASSUME NEW x \in DOMAIN s, x \in kept, x + 1 \in DOMAIN s,
                      s[x].kind = "reasoning_ref", IsCall(s[x + 1])
               PROVE  x + 1 \in kept
    BY DEF HandlesKept
  <2>1. x + 1 \notin gone
    BY <1>2, <1>4, KeptLeads
  <2> QED BY <1>2, <1>5, <2>1
<1>7. /\ t \in Seq(WireBlock)
      /\ \A k \in DOMAIN t : \E x \in DOMAIN s : x \in kept /\ t[k] = s[x]
      /\ \A x \in DOMAIN s : x \in kept => \E k \in DOMAIN t : t[k] = s[x]
      /\ CallsOnce(t)
      /\ \A led : LeadsIn(s, led) => LeadsIn(t, led)
  BY <1>2, <1>6, SiftKeeps
<1> HIDE DEF t
<1>8. /\ c \in Seq(WireBlock)
      /\ \A n \in DOMAIN c : c[n] = Marker(i) \/ \E k \in DOMAIN t : c[n] = t[k]
      /\ \A k \in DOMAIN t : \E n \in DOMAIN c : c[n] = t[k]
      /\ CallsOnce(c)
      /\ \A led : LeadsIn(t, led) => LeadsIn(c, led)
  BY <1>1, <1>7, MarkerIs, MarkerKeeps DEF c
<1>9. c # << >>
  BY <1>7, <1>8 DEF c
<1>10. \A n \in DOMAIN c : c[n] = Marker(i) \/ \E x \in DOMAIN s : c[n] = s[x]
  BY <1>7, <1>8
<1>11. \A n \in DOMAIN c : c[n].kind \notin {"tool_result", "note"} /\ c[n].src = i
  <2>1. Marker(i).kind = "marker" /\ Marker(i).src = i
    BY <1>1, MarkerIs
  <2>2. \A x \in DOMAIN s : s[x].kind \notin {"tool_result", "note"} /\ s[x].src = i
    BY <1>2 DEF BlockKinds
  <2> QED BY <1>10, <2>1, <2>2
<1>12. ASSUME NEW b \in DOMAIN bs \ gone, IsCall(bs[b])
       PROVE  \E n \in DOMAIN c : IsCall(c[n]) /\ c[n].id = bs[b].id
  <2>1. b \in kept /\ b \in DOMAIN s /\ IsCall(s[b]) /\ s[b].id = bs[b].id
    BY <1>2, <1>5, <1>12
  <2>2. PICK k \in DOMAIN t : t[k] = s[b]
    BY <1>7, <2>1
  <2>3. PICK n \in DOMAIN c : c[n] = t[k]
    BY <1>8
  <2> QED BY <2>1, <2>2, <2>3
<1>13. Leads(bs) => LeadsIn(c, Led(bs))
  BY <1>2, <1>7, <1>8
<1>14. Carries(log, i, c)
  BY <1>8, <1>9, <1>11, <1>12, <1>13 DEF Carries, bs, gone
<1> QED BY <1>3, <1>14

\* A reply as its blocks' markers leave it.
LEMMA EditCarries ==
    ASSUME NEW log, Whole(log), NEW i \in DOMAIN log, IsAssistant(log[i])
    PROVE  Carries(log, i, EditAssistant(log, Live(log), i))
<1> DEFINE bs == log[i].blocks
           gone == GoneIn(log, Live(log), i)
           kept == {n \in DOMAIN bs : n \notin gone /\ ~LeadsRemovedCall(bs, gone, n)}
           s == [n \in DOMAIN bs |-> EditedBlock(log, Live(log), i, n)]
           out == Sift(s, kept)
           full == IF gone # {} /\ ~\E k \in DOMAIN out : IsText(out[k]) \/ IsCall(out[k])
                   THEN Append(out, Marker(i)) ELSE out
           spoken == {k \in DOMAIN full : full[k].kind # "narrative"}
           left == Sift(full, spoken)
           c == IF left = << >> /\ full # << >>
                THEN << [kind |-> "omitted", src |-> i] >> ELSE left
<1>1. ReplyFits(log, i) /\ i \in Nat
  BY ReplyIs
<1>2. /\ s \in Seq(WireBlock) /\ Len(s) = Len(bs) /\ DOMAIN s = DOMAIN bs
      /\ \A n \in DOMAIN s :
            /\ s[n].kind \in BlockKinds /\ s[n].src = i
            /\ IsCall(s[n]) <=> IsCall(bs[n])
            /\ IsCall(bs[n]) => s[n].id = bs[n].id
            /\ (s[n].kind = "reasoning_ref") <=> (bs[n].kind = "reasoning_ref")
      /\ CallsOnce(s)
      /\ Leads(bs) => LeadsIn(s, Led(bs))
  <2>1. DOMAIN s = DOMAIN bs
    OBVIOUS
  <2> QED BY <1>1, <2>1, Rendered
<1>3. c = EditAssistant(log, Live(log), i)
  BY DEF EditAssistant
<1>4. \A n \in kept : ~LeadsRemovedCall(bs, gone, n)
  OBVIOUS
<1>5. \A n \in DOMAIN bs : IsCall(bs[n]) /\ n \notin gone => n \in kept
  BY DEF IsCall, LeadsRemovedCall
<1>15. bs # << >> /\ DOMAIN bs = 1..Len(bs) /\ Len(bs) \in Nat
  BY <1>1, WholeLog DEF ReplyFits
<1>16. (\E n \in DOMAIN bs : n \notin kept) => gone # {}
  BY DEF LeadsRemovedCall
<1> HIDE DEF s, kept, gone, bs, c
<1>6. HandlesKept(s, kept)
  <2> SUFFICES ASSUME NEW x \in DOMAIN s, x \in kept, x + 1 \in DOMAIN s,
                      s[x].kind = "reasoning_ref", IsCall(s[x + 1])
               PROVE  x + 1 \in kept
    BY DEF HandlesKept
  <2>1. x + 1 \notin gone
    BY <1>2, <1>4, KeptLeads
  <2> QED BY <1>2, <1>5, <2>1
<1>7. /\ out \in Seq(WireBlock)
      /\ \A k \in DOMAIN out : \E x \in DOMAIN s : x \in kept /\ out[k] = s[x]
      /\ \A x \in DOMAIN s : x \in kept => \E k \in DOMAIN out : out[k] = s[x]
      /\ CallsOnce(out)
      /\ \A led : LeadsIn(s, led) => LeadsIn(out, led)
  BY <1>2, <1>6, SiftKeeps
<1>17. full # << >>
  <2>1. CASE out # << >>
    <3>1. Append(out, Marker(i)) # << >>
      BY <1>7
    <3> QED BY <2>1, <3>1
  <2>2. CASE out = << >>
    <3>1. 1 \in DOMAIN bs /\ 1 \notin kept
      BY <1>2, <1>7, <1>15, <2>2
    <3>2. gone # {} /\ DOMAIN out = {}
      BY <1>16, <2>2, <3>1
    <3>3. full = Append(out, Marker(i))
      BY <3>2
    <3> QED BY <1>7, <3>3
  <2> QED BY <2>1, <2>2
<1> HIDE DEF out
<1>8. /\ full \in Seq(WireBlock)
      /\ \A n \in DOMAIN full : full[n] = Marker(i) \/ \E k \in DOMAIN out : full[n] = out[k]
      /\ \A k \in DOMAIN out : \E n \in DOMAIN full : full[n] = out[k]
      /\ CallsOnce(full)
      /\ \A led : LeadsIn(out, led) => LeadsIn(full, led)
  <2>1. CASE full = out
    <3> HIDE DEF full
    <3> QED BY <1>7, <2>1
  <2>2. CASE full = Append(out, Marker(i))
    <3> HIDE DEF full
    <3>1. Marker(i) \in WireBlock /\ Marker(i).kind = "marker"
      BY <1>1, MarkerIs
    <3> QED BY <1>7, <2>2, <3>1, MarkerKeeps
  <2> QED BY <2>1, <2>2
<1> HIDE DEF full
<1>9. \A x \in DOMAIN full : IsCall(full[x]) => x \in spoken
  BY DEF IsCall
<1>18. \A x \in DOMAIN full : x \in spoken <=> full[x].kind # "narrative"
  OBVIOUS
<1> HIDE DEF spoken
<1>10. /\ left \in Seq(WireBlock)
       /\ \A k \in DOMAIN left : \E x \in DOMAIN full : x \in spoken /\ left[k] = full[x]
       /\ \A x \in DOMAIN full : x \in spoken => \E k \in DOMAIN left : left[k] = full[x]
       /\ CallsOnce(left)
       /\ \A led : LeadsIn(full, led) => LeadsIn(left, led)
  <2>1. HandlesKept(full, spoken)
    BY <1>9 DEF HandlesKept
  <2> QED BY <1>8, <2>1, SiftKeeps
<1> HIDE DEF left
<1>11. \A n \in DOMAIN left : left[n].kind \notin {"tool_result", "note"} /\ left[n].src = i
  <2>1. Marker(i).kind = "marker" /\ Marker(i).src = i
    BY <1>1, MarkerIs
  <2>2. \A x \in DOMAIN s : s[x].kind \notin {"tool_result", "note"} /\ s[x].src = i
    BY <1>2 DEF BlockKinds
  <2>3. \A k \in DOMAIN out : \E x \in DOMAIN s : out[k] = s[x]
    BY <1>7
  <2>4. \A k \in DOMAIN full : full[k].kind \notin {"tool_result", "note"} /\ full[k].src = i
    BY <1>8, <2>1, <2>2, <2>3
  <2> QED BY <1>10, <2>4
<1>12. ASSUME NEW b \in DOMAIN bs \ gone, IsCall(bs[b])
       PROVE  \E n \in DOMAIN left : IsCall(left[n]) /\ left[n].id = bs[b].id
  <2>1. b \in kept /\ b \in DOMAIN s /\ IsCall(s[b]) /\ s[b].id = bs[b].id
    BY <1>2, <1>5, <1>12
  <2>2. PICK k \in DOMAIN out : out[k] = s[b]
    BY <1>7, <2>1
  <2>3. PICK n \in DOMAIN full : full[n] = out[k]
    BY <1>8
  <2>4. PICK m \in DOMAIN left : left[m] = full[n]
    BY <1>9, <1>10, <2>1, <2>2, <2>3
  <2> QED BY <2>1, <2>2, <2>3, <2>4
<1>13. Leads(bs) => LeadsIn(left, Led(bs))
  BY <1>2, <1>7, <1>8, <1>10
<1>19. CASE left = << >>
  <2> DEFINE o == [kind |-> "omitted", src |-> i]
  <2>1. c = << o >> /\ o \in WireBlock
    BY <1>1, <1>17, <1>19, MarkerIs DEF c
  <2>2. o.kind = "omitted" /\ o.src = i
    OBVIOUS
  <2> HIDE DEF o
  <2>3. /\ c \in Seq(WireBlock) /\ c # << >> /\ DOMAIN c = {1} /\ c[1] = o
    BY <2>1
  <2>4. CallsOnce(c) /\ \A led : LeadsIn(c, led)
    BY <2>2, <2>3 DEF CallsOnce, LeadsIn
  <2>5. \A b \in DOMAIN bs \ gone : ~IsCall(bs[b])
    BY <1>12, <1>19
  <2> QED BY <1>3, <2>2, <2>3, <2>4, <2>5 DEF Carries, bs, gone
<1>20. CASE left # << >>
  <2>1. c = left
    BY <1>20 DEF c
  <2>2. Carries(log, i, left)
    BY <1>10, <1>11, <1>12, <1>13, <1>20, <1>8, <1>7 DEF Carries, bs, gone
  <2> QED BY <1>3, <2>1, <2>2
<1> QED BY <1>19, <1>20

LEMMA ReplyCarries ==
    ASSUME NEW log, Whole(log), NEW i \in DOMAIN log, IsAssistant(log[i]), NEW elided
    PROVE  Carries(log, i, AssistantContent(log, Live(log), elided, i))
BY ElideCarries, EditCarries DEF AssistantContent

-----------------------------------------------------------------------------
(* What the pass has gathered after each event.                            *)

\* Nothing in this content is a call, a result or a handle.
Plain(c) == \A n \in DOMAIN c : c[n].kind \notin {"tool_use", "tool_result", "reasoning_ref"}

LEMMA OneIn ==
    ASSUME NEW S, NEW x \in S
    PROVE  /\ << x >> \in Seq(S) \ {<< >>} /\ Len(<< x >>) = 1
           /\ DOMAIN << x >> = {1} /\ << x >>[1] = x
OBVIOUS

LEMMA JoinIn ==
    ASSUME NEW S, NEW s \in Seq(S), NEW t \in Seq(S)
    PROVE  /\ s \o t \in Seq(S) /\ Len(s \o t) = Len(s) + Len(t)
           /\ Len(s) \in Nat /\ Len(t) \in Nat
           /\ s \o t = << >> => Len(s) = 0 /\ Len(t) = 0
           /\ \A n \in DOMAIN (s \o t) : (s \o t)[n] \in S
OBVIOUS

\* His message as it goes out is never empty and its text never blank.
LEMMA UserIs ==
    ASSUME NEW log, Whole(log), NEW i \in DOMAIN log, IsUser(log[i]), NEW elided
    PROVE  /\ UserContent(log, Live(log), elided, i) \in Seq(WireBlock) \ {<< >>}
           /\ Plain(UserContent(log, Live(log), elided, i))
           /\ \A n \in DOMAIN UserContent(log, Live(log), elided, i) :
                 UserContent(log, Live(log), elided, i)[n].kind # "note"
<1> DEFINE edit  == EditAt(log, Live(log), i, 0)
           sets  == FilesEditAt(log, Live(log), i)
           said  == IF edit = 0 THEN log[i].said ELSE log[edit].text
           files == IF sets = 0 THEN log[i].files ELSE log[sets].files
           words == IF said # "" \/ files = 0
                    THEN << [kind |-> "text", say |-> said, src |-> i] >> ELSE << >>
           c == IF i \in elided THEN << Marker(i) >> ELSE FileBlocks(files, i) \o words
           F == {j \in Live(log) : /\ log[j].type = "edit"
                                   /\ log[j].target = i
                                   /\ log[j].files # KeepFiles}
           E == {j \in Live(log) : /\ log[j].type = "edit"
                                   /\ log[j].target = i
                                   /\ log[j].block = 0}
<1>1. c = UserContent(log, Live(log), elided, i)
  BY DEF UserContent
<1>2. /\ Len(log) \in Nat /\ DOMAIN log = 1..Len(log) /\ Live(log) \subseteq 1..Len(log)
      /\ i \in Nat /\ log[i] \in Entry
  BY WholeLog
<1>3. Fits(log, i)
  BY DEF Whole
<1>4. log[i].said \in {"said", ""} /\ log[i].files \in Nat /\ (log[i].said # "" \/ log[i].files # 0)
  <2>1. log[i].said \in {"said", ""} /\ log[i].files \in Nat
    BY <1>2, EntryFields
  <2>2. log[i].said # "" \/ log[i].files > 0
    BY <1>3 DEF Fits
  <2>4. \A n \in Nat : n > 0 => n # 0
    OBVIOUS
  <2>3. log[i].files > 0 => log[i].files # 0
    BY <2>1, <2>4, Zenon
  <2> QED BY <2>1, <2>2, <2>3
<1>5. sets = LastOf(F) /\ edit = LastOf(E)
  BY DEF FilesEditAt, EditAt
<1>6. F \in SUBSET (1..Len(log)) /\ E \in SUBSET (1..Len(log))
  BY <1>2
<1>7. edit # 0 => log[edit].text \in Words /\ log[edit].text # ""
  <2>1. edit # 0 => Rewords(log, edit, i, 0)
    BY EditAtIs
  <2> HIDE DEF edit
  <2> QED BY <2>1 DEF Rewords
<1>8. ASSUME sets # 0
      PROVE  log[sets].files \in Nat /\ edit # 0
  <2> HIDE DEF F, E, sets, edit
  <2>1. sets \in F
    BY <1>2, <1>5, <1>6, <1>8, LastOfIs
  <2>2. /\ sets \in Live(log) /\ log[sets].type = "edit"
        /\ log[sets].target = i /\ log[sets].files # KeepFiles
    BY <2>1 DEF F
  <2>3. sets \in DOMAIN log /\ log[sets] \in Entry
    BY <1>2, <2>2, WholeLog
  <2>4. log[sets].files \in Nat
    BY <2>2, <2>3, EntryFields
  <2>5. Fits(log, sets)
    BY <2>3 DEF Whole
  <2>6. EditFits(log, sets)
    BY <2>2, <2>5 DEF Fits
  <2>7. log[sets].block = 0
    BY <2>2, <2>6 DEF EditFits
  <2>8. sets \in E
    BY <2>2, <2>7 DEF E
  <2>9. edit \in E
    BY <1>2, <1>5, <1>6, <2>8, LastOfIs
  <2> QED BY <1>6, <2>4, <2>9
<1>9. files \in Nat
  BY <1>4, <1>8
<1>10. said \in Words \cup {"said", ""} /\ ~(said = "" /\ files = 0)
  <2> HIDE DEF edit, sets
  <2>1. CASE edit = 0
    <3>1. sets = 0
      BY <1>8, <2>1
    <3>2. said = log[i].said /\ files = log[i].files
      BY <2>1, <3>1
    <3>3. log[i].said \in Words \cup {"said", ""}
      BY <1>4
    <3>4. ~(log[i].said = "" /\ log[i].files = 0)
      BY <1>4
    <3> HIDE DEF said, files
    <3> QED BY <3>2, <3>3, <3>4
  <2>2. CASE edit # 0
    <3>1. said = log[edit].text
      BY <2>2
    <3> HIDE DEF said, files
    <3> QED BY <1>7, <2>2, <3>1
  <2> QED BY <2>1, <2>2
<1> HIDE DEF edit, sets, said, files
<1>11. CASE i \in elided
  <2>1. c = << Marker(i) >> /\ Marker(i) \in WireBlock /\ Marker(i).kind = "marker"
    BY <1>2, <1>11, MarkerIs
  <2>2. c \in Seq(WireBlock) \ {<< >>} /\ DOMAIN c = {1} /\ c[1].kind = "marker"
    <3> DEFINE m == Marker(i)
    <3> HIDE DEF c, m
    <3>1. c = << m >> /\ m \in WireBlock /\ m.kind = "marker"
      BY <2>1 DEF m
    <3> QED BY <3>1, OneIn
  <2> HIDE DEF c
  <2> QED BY <1>1, <2>2 DEF Plain
<1>12. CASE i \notin elided
  <2> DEFINE fs == FileBlocks(files, i)
             W == {b \in WireBlock : b.kind \in {"file", "text"}}
  <2>1. fs \in Seq(W) /\ Len(fs) = files
    <3>1. [kind |-> "file", src |-> i] \in W
      BY <1>2 DEF WireBlock
    <3> HIDE DEF W
    <3> QED BY <1>9, <3>1 DEF FileBlocks
  <2>2. words \in Seq(W)
    <3>1. CASE said # ""
      <4>1. said \in Words \cup {"said", "own"}
        BY <1>10, <3>1
      <4>2. [kind |-> "text", say |-> said, src |-> i] \in W
        BY <1>2, <4>1 DEF WireBlock
      <4>3. words = << [kind |-> "text", say |-> said, src |-> i] >>
        BY <3>1
      <4> HIDE DEF W, words
      <4> QED BY <4>2, <4>3, OneIn
    <3>2. CASE said = ""
      <4>1. words = << >>
        BY <1>10, <3>2
      <4> HIDE DEF W, words
      <4> QED BY <4>1
    <3> QED BY <3>1, <3>2
  <2>3. files # 0 \/ Len(words) = 1
    BY <1>10
  <2> HIDE DEF words, fs, W
  <2>4. c = fs \o words
    BY <1>12 DEF fs
  <2>5. c \in Seq(W) /\ Len(c) # 0
    <3> HIDE DEF c
    <3>1. /\ c \in Seq(W) /\ Len(c) = Len(fs) + Len(words)
          /\ Len(fs) \in Nat /\ Len(words) \in Nat
      BY <2>1, <2>2, <2>4, JoinIn
    <3>2. CASE files # 0
      BY <1>9, <2>1, <3>1, <3>2
    <3>3. CASE Len(words) = 1
      BY <3>1, <3>3
    <3> QED BY <2>3, <3>2, <3>3
  <2>6. c \in Seq(WireBlock)
    <3>1. W \subseteq WireBlock
      BY DEF W
    <3> HIDE DEF c
    <3> QED BY <2>5, <3>1
  <2>7. \A n \in DOMAIN c : c[n].kind \in {"file", "text"}
    BY <2>5 DEF W
  <2> HIDE DEF c
  <2> QED BY <1>1, <2>5, <2>6, <2>7 DEF Plain
<1> QED BY <1>11, <1>12

\* One step of the pass, by the event's type.
LEMMA StepIs ==
    ASSUME NEW log, NEW live, NEW elided, NEW removed, NEW st, NEW i
    PROVE  LET next == StepAt(log, live, elided, removed, st, i) IN
           /\ log[i].type = "kind" => next = [st EXCEPT !.switch = i]
           /\ IsUser(log[i]) => next = UserStep(log, live, elided, st, i)
           /\ IsAssistant(log[i]) /\ ~log[i].stand_in =>
                 next = [st EXCEPT !.ms =
                            Append(@, Msg("assistant", AssistantContent(log, live, elided, i)))]
           /\ log[i].type = "tool_result" => next = AnswerStep(log, elided, removed, st, i)
           /\ log[i].type = "compaction" =>
                 next = [st EXCEPT !.ms =
                            << Msg("user", << [kind |-> "summary", src |-> i] >>) >>]
           /\ log[i].type \notin {"kind", "user_message", "assistant_message",
                                  "tool_result", "compaction"} => next = st
           /\ IsAssistant(log[i]) /\ log[i].stand_in => next = st
BY DEF StepAt, IsUser, IsAssistant

-----------------------------------------------------------------------------

\* The reply at a, as the request carries it.
Sent(log, a) == Msg("assistant", AssistantContent(log, Live(log), ElidedIn(log, Live(log)), a))

\* A result stands in the message after the one that asked for it, once.
RoundAfter(ms, k) ==
    LET c == ms[k].content IN
    /\ ms[k].role = "user"
    /\ k > 1 /\ ms[k - 1].role = "assistant"
    /\ \A n \in DOMAIN c : c[n].kind = "tool_result" /\ c[n].id \in CallIds(ms[k - 1].content)
    /\ \A m, n \in DOMAIN c : c[m].id = c[n].id => m = n

RawAt(log, ms, k) ==
    \/ /\ ms[k].role = "assistant"
       /\ \E a \in DOMAIN log : IsAssistant(log[a]) /\ Carries(log, a, ms[k].content)
    \/ ms[k].role = "user" /\ Plain(ms[k].content)
    \/ RoundAfter(ms, k)

Raw(log, ms) == ms \in Seq(Message) /\ \A k \in DOMAIN ms : RawAt(log, ms, k)

\* The last message is reply a's, or holds the results after it up to i.
AtTop(log, ms, a, i) ==
    \/ ms # << >> /\ ms[Len(ms)] = Sent(log, a)
    \/ /\ Len(ms) > 1 /\ ms[Len(ms) - 1] = Sent(log, a)
       /\ ms[Len(ms)].role = "user"
       /\ \A n \in DOMAIN ms[Len(ms)].content :
             /\ ms[Len(ms)].content[n].kind = "tool_result"
             /\ \E j \in (a + 1)..i : log[j].id = ms[Len(ms)].content[n].id

\* The round of reply a is not over at i.
InRound(log, a, i) ==
    /\ a \in Live(log) /\ a <= i
    /\ IsAssistant(log[a]) /\ ~log[a].stand_in
    /\ \A m \in (a + 1)..i : log[m].type = "tool_result"

PassOk(log, st, i) ==
    /\ st \in [ms : Seq(Message), told : Kinds, switch : Nat]
    /\ st.switch # 0 => st.switch \in DOMAIN log /\ log[st.switch].type = "kind"
    /\ Raw(log, st.ms)
    /\ \A a \in DOMAIN log : InRound(log, a, i) => AtTop(log, st.ms, a, i)

\* A live result answers a live reply.
LEMMA AskerIsLive ==
    ASSUME NEW log, Whole(log), NEW i \in Live(log), log[i].type = "tool_result",
           NEW a \in 1..(i - 1), Asks(log, a, log[i].id, i)
    PROVE  a \in Live(log)
<1>1. i \in DOMAIN log /\ DOMAIN log = 1..Len(log) /\ Len(log) \in Nat /\ i \in Nat
  BY WholeLog
<1>2. a \in DOMAIN log /\ a < i /\ a \in Nat
  BY <1>1
<1>3. log[a].type \notin {"rewind", "unrewind"}
  BY DEF Asks, IsAssistant
<1> SUFFICES ASSUME NEW r \in Standing(log), log[r].to <= a, a < r
             PROVE  FALSE
  BY <1>2, <1>3 DEF Live
<1>4. r \in DOMAIN log /\ log[r].type = "rewind" /\ r \in Nat
  BY <1>1 DEF Standing
<1>5. PointsBack(log, r)
  BY <1>4 DEF Whole
<1>6. log[r].to \in Nat
  <2>1. log[r].to \in 1..(r - 1)
    BY <1>4, <1>5 DEF PointsBack
  <2> QED BY <1>4, <2>1
<1>7. ~(r <= i)
  <2>1. SUFFICES ASSUME r <= i PROVE FALSE
    OBVIOUS
  <2>2. r = i \/ r \in (a + 1)..(i - 1)
    BY <1>1, <1>2, <1>4, <2>1
  <2> QED BY <1>4, <2>2 DEF Asks
<1>8. log[r].to <= i /\ i < r
  BY <1>1, <1>2, <1>4, <1>6, <1>7
<1> QED BY <1>8 DEF Live

\* Messages that stay where they are stay as they were.
LEMMA RawHere ==
    ASSUME NEW log, NEW ms, NEW other, NEW k \in Nat, RawAt(log, ms, k),
           other[k] = ms[k], other[k - 1] = ms[k - 1]
    PROVE  RawAt(log, other, k)
BY DEF RawAt, RoundAfter

\* A message added at the end.
LEMMA RawAppend ==
    ASSUME NEW log, NEW ms, Raw(log, ms), NEW m \in Message,
           RawAt(log, Append(ms, m), Len(ms) + 1)
    PROVE  Raw(log, Append(ms, m))
<1>1. /\ ms \in Seq(Message) /\ Len(ms) \in Nat /\ DOMAIN ms = 1..Len(ms)
      /\ Append(ms, m) \in Seq(Message) /\ DOMAIN Append(ms, m) = 1..(Len(ms) + 1)
      /\ \A k \in 1..Len(ms) : Append(ms, m)[k] = ms[k]
  BY DEF Raw
<1> SUFFICES ASSUME NEW k \in 1..Len(ms) PROVE RawAt(log, Append(ms, m), k)
  <2>1. \A k \in 1..(Len(ms) + 1) : k \in 1..Len(ms) \/ k = Len(ms) + 1
    BY <1>1
  <2> QED BY <1>1, <2>1 DEF Raw
<1>2. RawAt(log, ms, k) /\ k \in Nat
  BY <1>1 DEF Raw
<1>3. CASE k > 1
  <2>1. k - 1 \in 1..Len(ms)
    BY <1>1, <1>3
  <2> QED BY <1>1, <1>2, <2>1, RawHere
<1>4. CASE k = 1
  <2>1. ~RoundAfter(ms, k)
    BY <1>4 DEF RoundAfter
  <2> QED BY <1>1, <1>2, <2>1 DEF RawAt
<1> QED BY <1>2, <1>3, <1>4

LEMMA MsgIs ==
    /\ \A role, c : Msg(role, c).role = role /\ Msg(role, c).content = c
    /\ \A role \in {"user", "assistant"}, c \in Seq(WireBlock) \ {<< >>} : Msg(role, c) \in Message
BY DEF Msg, Message

LEMMA MessageIs ==
    ASSUME NEW m \in Message
    PROVE  /\ m.role \in {"user", "assistant"}
           /\ m.content \in Seq(WireBlock) /\ m.content # << >>
           /\ DOMAIN m.content = 1..Len(m.content) /\ Len(m.content) \in Nat \ {0}
           /\ m = Msg(m.role, m.content)
<1>1. /\ m.role \in {"user", "assistant"} /\ m.content \in Seq(WireBlock) /\ m.content # << >>
      /\ m = Msg(m.role, m.content)
  BY DEF Message, Msg
<1>2. \A c \in Seq(WireBlock) : DOMAIN c = 1..Len(c) /\ Len(c) \in Nat /\ (c # << >> => Len(c) # 0)
  OBVIOUS
<1> QED BY <1>1, <1>2

\* A message whose content is replaced.
LEMMA Refilled ==
    ASSUME NEW m \in Message, NEW c
    PROVE  [m EXCEPT !.content = c] = Msg(m.role, c)
<1> DEFINE r == m.role
           old == m.content
<1>1. m = [role |-> r, content |-> old]
  BY MessageIs DEF Msg
<1> HIDE DEF r, old
<1>2. [m EXCEPT !.content = c] = [role |-> r, content |-> c]
  BY <1>1
<1> QED BY <1>2 DEF Msg, r

\* A round under way at i was under way before, unless its reply is i.
LEMMA InRoundBefore ==
    ASSUME NEW log, Whole(log), NEW i \in 1..Len(log), NEW a \in DOMAIN log, InRound(log, a, i)
    PROVE  \/ a = i /\ IsAssistant(log[i]) /\ ~log[i].stand_in
           \/ InRound(log, a, i - 1) /\ log[i].type = "tool_result" /\ a \in 1..(i - 1)
<1>1. DOMAIN log = 1..Len(log) /\ Len(log) \in Nat /\ a \in Nat /\ i \in Nat
  BY WholeLog
<1>2. CASE a = i
  BY <1>2 DEF InRound
<1>3. CASE a # i
  <2>1. a <= i - 1 /\ i \in (a + 1)..i /\ a \in 1..(i - 1)
    BY <1>1, <1>3 DEF InRound
  <2>2. \A m \in (a + 1)..(i - 1) : m \in (a + 1)..i
    BY <1>1
  <2> QED BY <2>1, <2>2 DEF InRound
<1> QED BY <1>2, <1>3

\* Only a reply or a result is at the top of an open round.
LEMMA NoRoundHere ==
    ASSUME NEW log, Whole(log), NEW i \in 1..Len(log),
           log[i].type # "tool_result", ~(IsAssistant(log[i]) /\ ~log[i].stand_in),
           NEW a \in DOMAIN log
    PROVE  ~InRound(log, a, i)
BY InRoundBefore

\* A step that adds one message, or none.
LEMMA PassPush ==
    ASSUME NEW log, NEW st, NEW next, NEW i, Raw(log, st.ms), NEW m \in Message,
           next \in [ms : Seq(Message), told : Kinds, switch : Nat],
           next.switch # 0 => next.switch \in DOMAIN log /\ log[next.switch].type = "kind",
           next.ms = Append(st.ms, m), RawAt(log, next.ms, Len(st.ms) + 1),
           \A a \in DOMAIN log : InRound(log, a, i) => m = Sent(log, a)
    PROVE  PassOk(log, next, i)
<1>1. Raw(log, next.ms)
  BY RawAppend
<1>2. st.ms \in Seq(Message)
  BY DEF Raw
<1>3. next.ms # << >> /\ next.ms[Len(next.ms)] = m
  BY <1>2
<1> QED BY <1>1, <1>3 DEF PassOk, AtTop

LEMMA PassUser ==
    ASSUME NEW log, Whole(log), NEW i \in 1..Len(log), NEW st, PassOk(log, st, i - 1),
           IsUser(log[i]), NEW elided
    PROVE  PassOk(log, UserStep(log, Live(log), elided, st, i), i)
<1> DEFINE tell == st.switch # 0 /\ log[st.switch].kind # st.told
           k == log[st.switch].kind
           note == IF tell THEN << [kind |-> "note", say |-> k, src |-> st.switch] >> ELSE << >>
           body == UserContent(log, Live(log), elided, i)
           c == note \o body
           next == UserStep(log, Live(log), elided, st, i)
<1>1. DOMAIN log = 1..Len(log) /\ i \in DOMAIN log
  BY WholeLog
<1>2. body \in Seq(WireBlock) \ {<< >>} /\ Plain(body)
  BY <1>1, UserIs
<1>3. /\ st \in [ms : Seq(Message), told : Kinds, switch : Nat] /\ Raw(log, st.ms)
      /\ st.switch # 0 => st.switch \in DOMAIN log /\ log[st.switch].type = "kind"
  BY DEF PassOk
<1>4. tell => k \in Kinds
  <2>1. ASSUME tell
        PROVE  log[st.switch] \in Entry /\ log[st.switch].type = "kind"
    BY <1>3, <2>1, WholeLog
  <2> QED BY <2>1, EntryFields
<1>5. next = [ms |-> Append(st.ms, Msg("user", c)),
              told |-> IF tell THEN k ELSE st.told,
              switch |-> 0]
  BY DEF UserStep
<1>6. note \in Seq(WireBlock) /\ Plain(note)
  <2>1. CASE tell
    <3> DEFINE b == [kind |-> "note", say |-> k, src |-> st.switch]
    <3>1. b \in WireBlock /\ b.kind = "note"
      BY <1>3, <1>4, <2>1 DEF WireBlock
    <3>2. note = << b >>
      BY <2>1
    <3> HIDE DEF b, note
    <3> QED BY <3>1, <3>2, OneIn DEF Plain
  <2>2. CASE ~tell
    <3>1. note = << >>
      BY <2>2
    <3> HIDE DEF note
    <3> QED BY <3>1 DEF Plain
  <2> QED BY <2>1, <2>2
<1> HIDE DEF note, body, c, tell, k, next
<1>7. c \in Seq(WireBlock) \ {<< >>} /\ Plain(c)
  <2> DEFINE W == {b \in WireBlock : b.kind \notin {"tool_use", "tool_result", "reasoning_ref"}}
  <2>1. \A s \in Seq(WireBlock) : Plain(s) => s \in Seq(W)
    BY DEF Plain
  <2>2. note \in Seq(W) /\ body \in Seq(W) /\ Len(body) # 0
    BY <1>2, <1>6, <2>1
  <2> HIDE DEF W
  <2>3. /\ c \in Seq(W) /\ c # << >>
        /\ \A n \in DOMAIN c : c[n] \in W
    BY <2>2, JoinIn DEF c
  <2> QED BY <2>3 DEF W, Plain
<1> DEFINE m == Msg("user", c)
<1>8. m \in Message /\ m.role = "user" /\ m.content = c
  BY <1>7, MsgIs
<1> HIDE DEF m
<1>9. next \in [ms : Seq(Message), told : Kinds, switch : Nat] /\ next.switch = 0
          /\ next.ms = Append(st.ms, m)
  <2>1. (IF tell THEN k ELSE st.told) \in Kinds
    BY <1>3, <1>4
  <2>2. Append(st.ms, m) \in Seq(Message)
    BY <1>3, <1>8
  <2> QED BY <1>5, <2>1, <2>2 DEF m
<1>10. next.ms[Len(st.ms) + 1] = m
  BY <1>3, <1>9
<1>11. RawAt(log, next.ms, Len(st.ms) + 1)
  BY <1>7, <1>8, <1>10 DEF RawAt
<1>12. \A a \in DOMAIN log : ~InRound(log, a, i)
  BY NoRoundHere DEF IsUser, IsAssistant
<1> QED BY <1>3, <1>8, <1>9, <1>11, <1>12, PassPush DEF next

LEMMA PassReply ==
    ASSUME NEW log, Whole(log), NEW i \in 1..Len(log), NEW st, PassOk(log, st, i - 1),
           IsAssistant(log[i]), ~log[i].stand_in
    PROVE  PassOk(log, [st EXCEPT !.ms = Append(@, Sent(log, i))], i)
<1> DEFINE m == Sent(log, i)
           next == [st EXCEPT !.ms = Append(@, m)]
<1>1. DOMAIN log = 1..Len(log) /\ i \in DOMAIN log
  BY WholeLog
<1>2. /\ st \in [ms : Seq(Message), told : Kinds, switch : Nat] /\ Raw(log, st.ms)
      /\ st.switch # 0 => st.switch \in DOMAIN log /\ log[st.switch].type = "kind"
  BY DEF PassOk
<1>3. Carries(log, i, m.content) /\ m.role = "assistant" /\ m \in Message
  <2> DEFINE c == AssistantContent(log, Live(log), ElidedIn(log, Live(log)), i)
  <2>1. Carries(log, i, c)
    BY <1>1, ReplyCarries
  <2>2. c \in Seq(WireBlock) \ {<< >>}
    BY <2>1 DEF Carries
  <2> QED BY <2>1, <2>2, MsgIs DEF Sent
<1> HIDE DEF m
<1>4. next \in [ms : Seq(Message), told : Kinds, switch : Nat] /\ next.switch = st.switch
          /\ next.ms = Append(st.ms, m)
  <2>1. Append(st.ms, m) \in Seq(Message)
    BY <1>2, <1>3
  <2> QED BY <1>2, <2>1
<1> HIDE DEF next
<1>5. next.ms[Len(st.ms) + 1] = m
  BY <1>2, <1>4
<1>6. RawAt(log, next.ms, Len(st.ms) + 1)
  BY <1>1, <1>3, <1>5 DEF RawAt
<1>7. \A a \in DOMAIN log : InRound(log, a, i) => m = Sent(log, a)
  <2>1. log[i].type # "tool_result"
    BY DEF IsAssistant
  <2> QED BY <2>1, InRoundBefore DEF m
<1> QED BY <1>2, <1>3, <1>4, <1>6, <1>7, PassPush DEF next, m

LEMMA PassCompaction ==
    ASSUME NEW log, Whole(log), NEW i \in 1..Len(log), NEW st, PassOk(log, st, i - 1),
           log[i].type = "compaction"
    PROVE  PassOk(log, [st EXCEPT !.ms = << Msg("user", << [kind |-> "summary", src |-> i] >>) >>], i)
<1> DEFINE b == [kind |-> "summary", src |-> i]
           m == Msg("user", << b >>)
           next == [st EXCEPT !.ms = << m >>]
<1>1. /\ st \in [ms : Seq(Message), told : Kinds, switch : Nat]
      /\ st.switch # 0 => st.switch \in DOMAIN log /\ log[st.switch].type = "kind"
  BY DEF PassOk
<1>2. b \in WireBlock /\ b.kind = "summary"
  <2>1. i \in Nat
    BY WholeLog
  <2>2. b \in WireBlock
    BY <2>1, MarkerIs
  <2> QED BY <2>2
<1> HIDE DEF b
<1>3. << b >> \in Seq(WireBlock) \ {<< >>} /\ Plain(<< b >>)
  BY <1>2, OneIn DEF Plain
<1>4. m \in Message /\ m.role = "user" /\ m.content = << b >>
  BY <1>3, MsgIs
<1> HIDE DEF m
<1>5. << m >> \in Seq(Message) /\ DOMAIN << m >> = {1} /\ << m >>[1] = m
  BY <1>4, OneIn
<1>6. next \in [ms : Seq(Message), told : Kinds, switch : Nat] /\ next.switch = st.switch
          /\ next.ms = << m >>
  BY <1>1, <1>5
<1> HIDE DEF next
<1>7. Raw(log, next.ms)
  BY <1>3, <1>4, <1>5, <1>6 DEF Raw, RawAt
<1>8. \A a \in DOMAIN log : ~InRound(log, a, i)
  BY NoRoundHere DEF IsAssistant
<1> QED BY <1>1, <1>6, <1>7, <1>8 DEF PassOk, next, m, b

\* An event that leaves the messages alone.
LEMMA PassOther ==
    ASSUME NEW log, Whole(log), NEW i \in 1..Len(log), NEW st, PassOk(log, st, i - 1),
           log[i].type # "tool_result", ~(IsAssistant(log[i]) /\ ~log[i].stand_in)
    PROVE  PassOk(log, st, i) /\ (log[i].type = "kind" => PassOk(log, [st EXCEPT !.switch = i], i))
<1>1. \A a \in DOMAIN log : ~InRound(log, a, i)
  BY NoRoundHere
<1>2. PassOk(log, st, i)
  BY <1>1 DEF PassOk
<1>3. ASSUME log[i].type = "kind" PROVE PassOk(log, [st EXCEPT !.switch = i], i)
  <2> DEFINE next == [st EXCEPT !.switch = i]
  <2>1. i \in DOMAIN log /\ i \in Nat
    BY WholeLog
  <2>2. st \in [ms : Seq(Message), told : Kinds, switch : Nat]
    BY DEF PassOk
  <2>3. next \in [ms : Seq(Message), told : Kinds, switch : Nat] /\ next.ms = st.ms /\ next.switch = i
    BY <2>1, <2>2
  <2> HIDE DEF next
  <2>4. Raw(log, next.ms)
    BY <2>3 DEF PassOk
  <2>5. PassOk(log, next, i)
    BY <1>1, <1>3, <2>1, <2>3, <2>4 DEF PassOk
  <2> QED BY <2>5 DEF next
<1> QED BY <1>2, <1>3

\* What is not live is passed over.
LEMMA PassNotLive ==
    ASSUME NEW log, Whole(log), NEW i \in 1..Len(log), NEW st, PassOk(log, st, i - 1),
           i \notin Live(log)
    PROVE  PassOk(log, st, i)
<1>1. ASSUME NEW a \in DOMAIN log, InRound(log, a, i) PROVE AtTop(log, st.ms, a, i)
  <2>1. a # i
    BY <1>1 DEF InRound
  <2>2. InRound(log, a, i - 1)
    BY <1>1, <2>1, InRoundBefore
  <2>3. AtTop(log, st.ms, a, i - 1)
    BY <2>2 DEF PassOk
  <2>4. i \in Nat /\ a \in Nat
    BY WholeLog
  <2>5. \A j \in (a + 1)..(i - 1) : j \in (a + 1)..i
    BY <2>4
  <2> QED BY <2>3, <2>5 DEF AtTop
<1> QED BY <1>1 DEF PassOk

\* A call still wanted is in the reply as it is sent.
LEMMA CallIsSent ==
    ASSUME NEW log, Whole(log), NEW a \in Live(log), IsAssistant(log[a]),
           NEW id \in CallIds(log[a].blocks), id \notin RemovedCalls(log, Live(log))
    PROVE  id \in CallIds(Sent(log, a).content)
<1>1. a \in DOMAIN log
  BY WholeLog
<1>2. PICK b \in DOMAIN log[a].blocks : IsCall(log[a].blocks[b]) /\ log[a].blocks[b].id = id
  BY DEF CallIds
<1>3. b \notin GoneIn(log, Live(log), a)
  BY <1>2 DEF RemovedCalls
<1> DEFINE c == AssistantContent(log, Live(log), ElidedIn(log, Live(log)), a)
<1>4. Carries(log, a, c)
  BY <1>1, ReplyCarries
<1>5. Sent(log, a).content = c
  BY MsgIs DEF Sent
<1> HIDE DEF c
<1>6. \E n \in DOMAIN c : IsCall(c[n]) /\ c[n].id = id
  BY <1>2, <1>3, <1>4 DEF Carries
<1> QED BY <1>5, <1>6 DEF CallIds

LEMMA SentIs ==
    ASSUME NEW log, Whole(log), NEW a \in DOMAIN log, IsAssistant(log[a])
    PROVE  /\ Sent(log, a) \in Message /\ Sent(log, a).role = "assistant"
           /\ Carries(log, a, Sent(log, a).content)
<1> DEFINE c == AssistantContent(log, Live(log), ElidedIn(log, Live(log)), a)
<1>1. Carries(log, a, c)
  BY ReplyCarries
<1> HIDE DEF c
<1>2. c \in Seq(WireBlock) \ {<< >>}
  BY <1>1 DEF Carries
<1> QED BY <1>1, <1>2, MsgIs DEF Sent, c

\* Two replies with results alone between each and i are one.
LEMMA OneAsker ==
    ASSUME NEW log, NEW i \in Nat, NEW a \in 1..(i - 1), NEW b \in 1..(i - 1),
           IsAssistant(log[a]), IsAssistant(log[b]),
           \A m \in (a + 1)..(i - 1) : log[m].type = "tool_result",
           \A m \in (b + 1)..(i - 1) : log[m].type = "tool_result"
    PROVE  a = b
<1>1. CASE a < b
  <2>1. b \in (a + 1)..(i - 1)
    BY <1>1
  <2> QED BY <2>1 DEF IsAssistant
<1>2. CASE b < a
  <2>1. a \in (b + 1)..(i - 1)
    BY <1>2
  <2> QED BY <2>1 DEF IsAssistant
<1> QED BY <1>1, <1>2

LEMMA PassAnswer ==
    ASSUME NEW log, Whole(log), NEW i \in 1..Len(log), NEW st, PassOk(log, st, i - 1),
           i \in Live(log), log[i].type = "tool_result"
    PROVE  PassOk(log, AnswerStep(log, ElidedIn(log, Live(log)), RemovedCalls(log, Live(log)), st, i), i)
<1> DEFINE id == log[i].id
           block == ResultBlock(id, IF i \in ElidedIn(log, Live(log)) THEN "marker" ELSE "kept", i)
           ms == st.ms
           next == AnswerStep(log, ElidedIn(log, Live(log)), RemovedCalls(log, Live(log)), st, i)
<1>1. /\ DOMAIN log = 1..Len(log) /\ i \in DOMAIN log /\ i \in Nat
      /\ id \in Nat \X Nat
  <2>1. DOMAIN log = 1..Len(log) /\ i \in DOMAIN log /\ i \in Nat /\ log[i] \in Entry
    BY WholeLog
  <2> QED BY <2>1, EntryFields
<1>2. /\ st \in [ms : Seq(Message), told : Kinds, switch : Nat] /\ Raw(log, ms)
      /\ st.switch # 0 => st.switch \in DOMAIN log /\ log[st.switch].type = "kind"
      /\ Len(ms) \in Nat /\ DOMAIN ms = 1..Len(ms)
  BY DEF PassOk
<1>3. block \in WireBlock /\ block.kind = "tool_result" /\ block.id = id
  BY <1>1 DEF ResultBlock, WireBlock
<1>4. ResultFits(log, i)
  <2>1. Fits(log, i)
    BY <1>1 DEF Whole
  <2> QED BY <2>1 DEF Fits
<1>5. PICK a \in 1..(i - 1) : Asks(log, a, id, i)
  BY <1>4 DEF ResultFits
<1>6. a \in Live(log) /\ a \in DOMAIN log /\ a \in Nat
  <2>1. a \in Live(log)
    BY <1>5, AskerIsLive
  <2> QED BY <1>1, <2>1, WholeLog
<1>7. InRound(log, a, i - 1)
  BY <1>1, <1>5, <1>6 DEF InRound, Asks
<1>8. AtTop(log, ms, a, i - 1)
  BY <1>6, <1>7 DEF PassOk
<1>9. ASSUME NEW x \in DOMAIN log, InRound(log, x, i)
      PROVE  x = a
  <2>1. x \in 1..(i - 1) /\ InRound(log, x, i - 1)
    BY <1>9, InRoundBefore DEF IsAssistant
  <2> QED BY <1>1, <1>5, <2>1, OneAsker DEF InRound, Asks
<1>10. IsAssistant(log[a]) /\ id \in CallIds(log[a].blocks)
  BY <1>5 DEF Asks
<1>11. /\ Sent(log, a) \in Message /\ Sent(log, a).role = "assistant"
       /\ Carries(log, a, Sent(log, a).content)
  BY <1>6, <1>10, SentIs
<1> HIDE DEF block
<1>12. CASE id \in RemovedCalls(log, Live(log))
  <2>1. next = st
    BY <1>12 DEF AnswerStep
  <2> HIDE DEF next
  <2>2. AtTop(log, ms, a, i)
    <3>1. \A j \in (a + 1)..(i - 1) : j \in (a + 1)..i
      BY <1>1, <1>6
    <3> QED BY <1>8, <3>1 DEF AtTop
  <2>3. PassOk(log, st, i)
    BY <1>2, <1>9, <2>2 DEF PassOk
  <2> QED BY <2>1, <2>3 DEF next
<1>13. CASE id \notin RemovedCalls(log, Live(log))
  <2>1. id \in CallIds(Sent(log, a).content)
    BY <1>6, <1>10, <1>13, CallIsSent
  <2>2. CASE ms # << >> /\ ms[Len(ms)] = Sent(log, a)
    <3> DEFINE m == Msg("user", << block >>)
    <3>1. ~RoundIsOpen(ms)
      BY <1>11, <2>2 DEF RoundIsOpen, Last
    <3>2. next = [st EXCEPT !.ms = Append(@, m)]
      BY <1>13, <3>1 DEF AnswerStep, block
    <3>3. << block >> \in Seq(WireBlock) \ {<< >>} /\ DOMAIN << block >> = {1} /\ << block >>[1] = block
      BY <1>3, OneIn
    <3>4. m \in Message /\ m.role = "user" /\ m.content = << block >>
      BY <3>3, MsgIs
    <3> HIDE DEF m, next
    <3>5. /\ next \in [ms : Seq(Message), told : Kinds, switch : Nat]
          /\ next.switch = st.switch /\ next.ms = Append(ms, m)
      <4>1. Append(ms, m) \in Seq(Message)
        BY <1>2, <3>4
      <4> QED BY <1>2, <3>2, <4>1
    <3>6. /\ Len(next.ms) = Len(ms) + 1 /\ next.ms[Len(ms) + 1] = m
          /\ next.ms[Len(ms)] = ms[Len(ms)] /\ Len(ms) # 0
      BY <1>2, <2>2, <3>4, <3>5
    <3>7. RoundAfter(next.ms, Len(ms) + 1)
      <4>1. Len(ms) + 1 > 1 /\ (Len(ms) + 1) - 1 = Len(ms)
        BY <1>2, <3>6
      <4>2. next.ms[(Len(ms) + 1) - 1] = Sent(log, a)
        BY <2>2, <3>6, <4>1
      <4> QED BY <1>3, <1>11, <2>1, <3>3, <3>4, <3>6, <4>1, <4>2 DEF RoundAfter
    <3>8. Raw(log, next.ms)
      BY <1>2, <3>4, <3>5, <3>7, RawAppend DEF RawAt
    <3>9. AtTop(log, next.ms, a, i)
      <4>1. Len(next.ms) > 1 /\ Len(next.ms) - 1 = Len(ms)
        BY <1>2, <3>6
      <4>2. next.ms[Len(next.ms) - 1] = Sent(log, a) /\ next.ms[Len(next.ms)] = m
        BY <2>2, <3>6, <4>1
      <4>3. i \in (a + 1)..i
        BY <1>1, <1>6
      <4> QED BY <1>3, <3>3, <3>4, <4>1, <4>2, <4>3 DEF AtTop
    <3>10. PassOk(log, next, i)
      BY <1>2, <1>9, <3>5, <3>8, <3>9 DEF PassOk
    <3> QED BY <3>10 DEF next
  <2>3. CASE /\ Len(ms) > 1 /\ ms[Len(ms) - 1] = Sent(log, a)
             /\ ms[Len(ms)].role = "user"
             /\ \A n \in DOMAIN ms[Len(ms)].content :
                   /\ ms[Len(ms)].content[n].kind = "tool_result"
                   /\ \E j \in (a + 1)..(i - 1) : log[j].id = ms[Len(ms)].content[n].id
    <3> DEFINE L == Len(ms)
               old == ms[L].content
               c == Append(old, block)
               m == [ms[L] EXCEPT !.content = c]
    <3>1. L \in DOMAIN ms /\ L - 1 \in DOMAIN ms /\ L # L - 1 /\ ms # << >>
      BY <1>2, <2>3
    <3>2. /\ ms[L] \in Message /\ old \in Seq(WireBlock) /\ Len(old) \in Nat \ {0}
          /\ DOMAIN old = 1..Len(old) /\ ms[L] = Msg(ms[L].role, old)
      <4>1. ms[L] \in Message
        BY <1>2, <3>1
      <4> QED BY <4>1, MessageIs
    <3>3. RoundIsOpen(ms)
      <4>1. Len(old) \in DOMAIN old
        BY <3>2
      <4> QED BY <2>3, <3>1, <4>1 DEF RoundIsOpen, Last
    <3>4. next = [st EXCEPT !.ms[L].content = Append(@, block)]
      BY <1>13, <3>3 DEF AnswerStep, block
    <3>5. /\ c \in Seq(WireBlock) \ {<< >>} /\ DOMAIN c = 1..(Len(old) + 1)
          /\ c[Len(old) + 1] = block /\ \A n \in 1..Len(old) : c[n] = old[n]
      <4> HIDE DEF old
      <4>1. c \in Seq(WireBlock) /\ Len(c) = Len(old) + 1
        BY <1>3, <3>2
      <4> QED BY <1>3, <3>2, <4>1
    <3>6. m = Msg("user", c) /\ m \in Message /\ m.role = "user" /\ m.content = c
      <4>1. ms[L] = [role |-> "user", content |-> old]
        BY <2>3, <3>2 DEF Msg
      <4>2. m = [role |-> "user", content |-> c]
        <5> DEFINE M == ms[L]
        <5> HIDE DEF c, M, old
        <5>1. M = [role |-> "user", content |-> old]
          BY <4>1 DEF M
        <5>2. [M EXCEPT !.content = c] = [role |-> "user", content |-> c]
          BY <5>1
        <5> QED BY <5>2 DEF M
      <4>3. m = Msg("user", c)
        BY <4>2 DEF Msg
      <4> HIDE DEF m, c
      <4> QED BY <3>5, <4>3, MsgIs
    <3>7. /\ next \in [ms : Seq(Message), told : Kinds, switch : Nat]
          /\ next.switch = st.switch /\ next.ms = [ms EXCEPT ![L] = m]
      <4>1. next.ms = [ms EXCEPT ![L] = m] /\ next.switch = st.switch /\ next.told = st.told
        BY <1>2, <3>4
      <4>2. next = [ms |-> next.ms, told |-> next.told, switch |-> next.switch]
        BY <1>2, <3>4
      <4> HIDE DEF m, next
      <4>3. [ms EXCEPT ![L] = m] \in Seq(Message)
        BY <1>2, <3>1, <3>6
      <4> QED BY <1>2, <4>1, <4>2, <4>3
    <3> HIDE DEF m, next, c, old
    <3>8. /\ next.ms \in Seq(Message) /\ DOMAIN next.ms = DOMAIN ms /\ Len(next.ms) = L
          /\ next.ms[L] = m /\ \A k \in DOMAIN ms : k # L => next.ms[k] = ms[k]
      BY <1>2, <3>1, <3>7
    <3>9. RawAt(log, ms, L)
      BY <1>2, <3>1 DEF Raw
    <3>10. /\ \A n \in DOMAIN old : old[n].kind = "tool_result" /\ old[n].id \in CallIds(Sent(log, a).content)
           /\ \A x, y \in DOMAIN old : old[x].id = old[y].id => x = y
      <4>1. 1 \in DOMAIN old /\ old[1].kind = "tool_result"
        BY <2>3, <3>2 DEF old
      <4>2. ~Plain(ms[L].content)
        BY <4>1 DEF Plain, old
      <4>3. RoundAfter(ms, L)
        BY <2>3, <3>9, <4>2 DEF RawAt
      <4> QED BY <2>3, <4>3 DEF RoundAfter, old
    <3>11. \A n \in DOMAIN old : old[n].id # id
      <4> SUFFICES ASSUME NEW n \in DOMAIN old, old[n].id = id PROVE FALSE
        OBVIOUS
      <4>1. PICK j \in (a + 1)..(i - 1) : log[j].id = id
        BY <2>3 DEF old
      <4>2. log[j].type = "tool_result" /\ j \in 1..(i - 1)
        BY <1>1, <1>5, <1>6 DEF Asks
      <4> QED BY <1>4, <4>1, <4>2 DEF ResultFits
    <3>12. \A n \in DOMAIN c : n = Len(old) + 1 \/ n \in DOMAIN old
      BY <3>2, <3>5
    <3>13. /\ \A n \in DOMAIN c : c[n].kind = "tool_result" /\ c[n].id \in CallIds(Sent(log, a).content)
           /\ \A x, y \in DOMAIN c : c[x].id = c[y].id => x = y
      BY <1>3, <2>1, <3>2, <3>5, <3>10, <3>11, <3>12
    <3>14. RoundAfter(next.ms, L)
      BY <1>11, <2>3, <3>1, <3>6, <3>8, <3>13 DEF RoundAfter
    <3>15. Raw(log, next.ms)
      <4> SUFFICES ASSUME NEW k \in DOMAIN ms PROVE RawAt(log, next.ms, k)
        BY <3>8 DEF Raw
      <4>1. CASE k = L
        BY <3>14, <4>1 DEF RawAt
      <4>2. CASE k # L
        <5>1. RawAt(log, ms, k) /\ k \in Nat /\ k < L
          BY <1>2, <4>2 DEF Raw
        <5>2. CASE k > 1
          <6>1. k - 1 \in DOMAIN ms /\ k - 1 # L
            BY <1>2, <5>1, <5>2
          <6> QED BY <3>8, <4>2, <5>1, <6>1, RawHere
        <5>3. CASE k = 1
          <6>1. ~RoundAfter(ms, k)
            BY <5>3 DEF RoundAfter
          <6> QED BY <3>8, <4>2, <5>1, <6>1 DEF RawAt
        <5>4. k = 1 \/ k > 1
          BY <1>2
        <5> QED BY <5>2, <5>3, <5>4
      <4> QED BY <4>1, <4>2
    <3>16. AtTop(log, next.ms, a, i)
      <4>1. \A n \in DOMAIN c : \E j \in (a + 1)..i : log[j].id = c[n].id
        <5> SUFFICES ASSUME NEW n \in DOMAIN c
                     PROVE  \E j \in (a + 1)..i : log[j].id = c[n].id
          OBVIOUS
        <5>1. CASE n = Len(old) + 1
          <6>1. i \in (a + 1)..i
            BY <1>1, <1>6
          <6> QED BY <1>3, <3>5, <5>1, <6>1
        <5>2. CASE n \in DOMAIN old
          <6>1. PICK j \in (a + 1)..(i - 1) : log[j].id = old[n].id
            BY <2>3, <5>2 DEF old
          <6>2. j \in (a + 1)..i
            BY <1>1, <1>6
          <6> QED BY <3>2, <3>5, <5>2, <6>1, <6>2
        <5> QED BY <3>12, <5>1, <5>2
      <4>2. next.ms[L - 1] = Sent(log, a)
        BY <2>3, <3>1, <3>8
      <4> QED BY <2>3, <3>6, <3>8, <3>13, <4>1, <4>2 DEF AtTop
    <3>17. PassOk(log, next, i)
      BY <1>2, <1>9, <3>7, <3>15, <3>16 DEF PassOk
    <3> QED BY <3>17 DEF next
  <2> QED BY <1>8, <2>2, <2>3 DEF AtTop
<1> QED BY <1>12, <1>13

LEMMA PassStep ==
    ASSUME NEW log, Whole(log), NEW i \in 1..Len(log), NEW st, PassOk(log, st, i - 1),
           i \in Live(log)
    PROVE  PassOk(log, StepAt(log, Live(log), ElidedIn(log, Live(log)),
                              RemovedCalls(log, Live(log)), st, i), i)
<1> DEFINE live == Live(log)
           elided == ElidedIn(log, Live(log))
           removed == RemovedCalls(log, Live(log))
           next == StepAt(log, live, elided, removed, st, i)
<1>1. /\ log[i].type = "kind" => next = [st EXCEPT !.switch = i]
      /\ IsUser(log[i]) => next = UserStep(log, live, elided, st, i)
      /\ IsAssistant(log[i]) /\ ~log[i].stand_in => next = [st EXCEPT !.ms = Append(@, Sent(log, i))]
      /\ log[i].type = "tool_result" => next = AnswerStep(log, elided, removed, st, i)
      /\ log[i].type = "compaction" =>
            next = [st EXCEPT !.ms =
                       << Msg("user", << [kind |-> "summary", src |-> i] >>) >>]
      /\ log[i].type \notin {"kind", "user_message", "assistant_message",
                             "tool_result", "compaction"} => next = st
      /\ IsAssistant(log[i]) /\ log[i].stand_in => next = st
  BY StepIs DEF Sent
<1> HIDE DEF next
<1>2. CASE log[i].type = "kind"
  <2>1. ~IsAssistant(log[i]) /\ log[i].type # "tool_result"
    BY <1>2 DEF IsAssistant
  <2> QED BY <1>1, <1>2, <2>1, PassOther DEF next
<1>3. CASE IsUser(log[i])
  BY <1>1, <1>3, PassUser DEF next
<1>4. CASE IsAssistant(log[i]) /\ ~log[i].stand_in
  BY <1>1, <1>4, PassReply DEF next
<1>5. CASE log[i].type = "tool_result"
  BY <1>1, <1>5, PassAnswer DEF next
<1>6. CASE log[i].type = "compaction"
  BY <1>1, <1>6, PassCompaction DEF next
<1>7. CASE IsAssistant(log[i]) /\ log[i].stand_in
  <2>1. log[i].type # "tool_result"
    BY <1>7 DEF IsAssistant
  <2> QED BY <1>1, <1>7, <2>1, PassOther DEF next
<1>8. CASE log[i].type \notin {"kind", "user_message", "assistant_message", "tool_result", "compaction"}
  <2>1. ~IsAssistant(log[i]) /\ log[i].type # "tool_result"
    BY <1>8 DEF IsAssistant
  <2> QED BY <1>1, <1>8, <2>1, PassOther DEF next
<1> QED BY <1>2, <1>3, <1>4, <1>5, <1>6, <1>7, <1>8 DEF IsUser, IsAssistant

\* The pass keeps what it has gathered in order, to the end of the log.
LEMMA PassIsOk ==
    ASSUME NEW log, Whole(log)
    PROVE  \A i \in 0..Len(log) : PassOk(log, PassOver(log)[i], i)
<1> DEFINE pass == PassOver(log)
           G == {i \in 0..Len(log) : PassOk(log, pass[i], i)}
<1>1. Len(log) \in Nat /\ DOMAIN log = 1..Len(log) /\ 1 \in DOMAIN log
  BY WholeLog
<1>2. /\ pass[0] = [ms |-> << >>, told |-> BornKind(log), switch |-> 0]
      /\ \A i \in 1..Len(log) :
            pass[i] = IF i \in Live(log)
                      THEN StepAt(log, Live(log), ElidedIn(log, Live(log)),
                                  RemovedCalls(log, Live(log)), pass[i - 1], i)
                      ELSE pass[i - 1]
  BY <1>1, PassSteps
<1> HIDE DEF pass
<1>3. PassOk(log, pass[0], 0)
  <2>1. BornKind(log) \in Kinds
    <3>1. log[1] \in Entry /\ log[1].type = "session_created"
      BY <1>1, WholeLog DEF Whole
    <3> QED BY <3>1, EntryFields DEF BornKind
  <2>2. pass[0] \in [ms : Seq(Message), told : Kinds, switch : Nat] /\ pass[0].ms = << >> /\ pass[0].switch = 0
    BY <1>2, <2>1
  <2>3. Raw(log, pass[0].ms)
    BY <2>2 DEF Raw
  <2>4. \A a \in DOMAIN log : ~InRound(log, a, 0)
    BY <1>1 DEF InRound
  <2> QED BY <2>2, <2>3, <2>4 DEF PassOk
<1>4. ASSUME NEW n \in 0..(Len(log) - 1), n \in G
      PROVE  n + 1 \in G
  <2>1. n + 1 \in 1..Len(log) /\ (n + 1) - 1 = n /\ n + 1 \in 0..Len(log)
    BY <1>1
  <2>2. PassOk(log, pass[n], (n + 1) - 1)
    BY <1>4, <2>1
  <2>3. CASE n + 1 \in Live(log)
    BY <1>2, <2>1, <2>2, <2>3, PassStep
  <2>4. CASE n + 1 \notin Live(log)
    BY <1>2, <2>1, <2>2, <2>4, PassNotLive
  <2> QED BY <2>1, <2>3, <2>4
<1>5. 0..Len(log) \subseteq G
  <2>1. 0 \in G
    BY <1>1, <1>3
  <2> HIDE DEF G
  <2> QED BY <1>1, <1>4, <2>1, UpTo
<1> QED BY <1>5 DEF pass

-----------------------------------------------------------------------------
(* The repair of the calls no result was recorded for.                     *)

ResultsOnce(c) ==
    \A m, n \in DOMAIN c :
        c[m].kind = "tool_result" /\ c[n].kind = "tool_result" /\ c[m].id = c[n].id => m = n

\* What the round after message k answers.
RoundIds(ms, k) == IF k + 1 \in DOMAIN ms /\ IsRound(ms[k + 1]) THEN ResultIds(ms[k + 1]) ELSE {}

\* A message of results is one, and no other holds any.
LEMMA RoundIs ==
    ASSUME NEW log, NEW ms, Raw(log, ms), NEW k \in DOMAIN ms
    PROVE  /\ ms[k] \in Message /\ k \in Nat
           /\ IsRound(ms[k]) <=> RoundAfter(ms, k)
           /\ ~IsRound(ms[k]) => ResultIds(ms[k]) = {}
           /\ ms[k].role = "user" => CallIds(ms[k].content) = {}
           /\ ms[k].role = "assistant" => CallsOnce(ms[k].content)
           /\ ms[k].role \in {"user", "assistant"}
           /\ IsRound(ms[k]) => ResultsOnce(ms[k].content)
<1>1. /\ ms[k] \in Message /\ k \in Nat /\ RawAt(log, ms, k)
  BY DEF Raw
<1> DEFINE m == ms[k]
<1>2. /\ m.role \in {"user", "assistant"}
      /\ DOMAIN m.content = 1..Len(m.content) /\ Len(m.content) \in Nat \ {0}
  BY <1>1, MessageIs
<1>3. CASE m.role = "assistant" /\ \E a \in DOMAIN log : IsAssistant(log[a]) /\ Carries(log, a, m.content)
  <2>1. ResultIds(m) = {} /\ CallsOnce(m.content)
    BY <1>3 DEF Carries, ResultIds
  <2> QED BY <1>1, <1>3, <2>1 DEF IsRound, RoundAfter
<1>4. CASE m.role = "user" /\ Plain(m.content)
  <2>1. ResultIds(m) = {} /\ CallIds(m.content) = {}
    BY <1>4 DEF Plain, ResultIds, CallIds, IsCall
  <2>2. 1 \in DOMAIN m.content
    BY <1>2
  <2>3. ~RoundAfter(ms, k)
    BY <1>4, <2>2 DEF Plain, RoundAfter
  <2> QED BY <1>1, <1>4, <2>1, <2>3 DEF IsRound
<1>5. CASE RoundAfter(ms, k)
  <2>1. 1 \in DOMAIN m.content
    BY <1>2
  <2>2. CallIds(m.content) = {}
    BY <1>5 DEF RoundAfter, CallIds, IsCall
  <2>3. m.content[1].id \in ResultIds(m)
    BY <1>5, <2>1 DEF RoundAfter, ResultIds
  <2>4. m.role = "user"
    BY <1>5 DEF RoundAfter
  <2>5. ResultsOnce(m.content)
    BY <1>5 DEF RoundAfter, ResultsOnce
  <2> QED BY <1>1, <1>5, <2>2, <2>3, <2>4, <2>5 DEF IsRound
<1> QED BY <1>1, <1>3, <1>4, <1>5 DEF RawAt

\* What is missing is an answer to each call that has none, once.
LEMMA MissingIs ==
    ASSUME NEW log, NEW ms, Raw(log, ms), NEW k \in DOMAIN ms
    PROVE  /\ Missing(ms, k) \in Seq(WireBlock)
           /\ \A n \in DOMAIN Missing(ms, k) :
                 /\ Missing(ms, k)[n].kind = "tool_result"
                 /\ Missing(ms, k)[n].id \in CallIds(ms[k].content) \ RoundIds(ms, k)
           /\ ResultsOnce(Missing(ms, k))
           /\ \A id \in CallIds(ms[k].content) \ RoundIds(ms, k) :
                 \E n \in DOMAIN Missing(ms, k) : Missing(ms, k)[n].id = id
           /\ ms[k].role # "assistant" => Missing(ms, k) = << >>
<1> DEFINE c == ms[k].content
           R == RoundIds(ms, k)
           keep == {n \in DOMAIN c : IsCall(c[n]) /\ c[n].id \notin R}
           unanswered == IF ms[k].role # "assistant" THEN << >> ELSE Sift(c, keep)
           out == [n \in DOMAIN unanswered |-> ResultBlock(unanswered[n].id, "repair", 0)]
<1>1. Missing(ms, k) = out
  BY DEF Missing, RoundIds
<1>2. /\ ms[k] \in Message /\ k \in Nat
      /\ ms[k].role = "user" => CallIds(c) = {}
      /\ ms[k].role = "assistant" => CallsOnce(c)
      /\ ms[k].role \in {"user", "assistant"}
  BY RoundIs
<1>3. c \in Seq(WireBlock) /\ DOMAIN c = 1..Len(c) /\ \A n \in DOMAIN c : c[n] \in WireBlock
  <2>1. c \in Seq(WireBlock)
    BY <1>2, MessageIs
  <2> HIDE DEF c
  <2> QED BY <2>1
<1>4. CASE ms[k].role # "assistant"
  <2>1. unanswered = << >>
    BY <1>4
  <2>2. out = << >>
    <3> HIDE DEF unanswered
    <3>1. DOMAIN unanswered = {}
      BY <2>1
    <3> QED BY <3>1
  <2>3. CallIds(c) = {}
    BY <1>2, <1>4
  <2> HIDE DEF out
  <2> QED BY <1>1, <2>2, <2>3 DEF ResultsOnce
<1>5. CASE ms[k].role = "assistant"
  <2>1. unanswered = Sift(c, keep)
    BY <1>5
  <2>2. \A n \in keep : n \in DOMAIN c /\ IsCall(c[n]) /\ c[n].id \notin R
    OBVIOUS
  <2>3. \A n \in DOMAIN c : IsCall(c[n]) /\ c[n].id \notin R => n \in keep
    OBVIOUS
  <2>4. \A n \in DOMAIN c : IsCall(c[n]) => c[n].id \in CallIds(c)
    BY DEF CallIds
  <2>5. \A id \in CallIds(c) : \E n \in DOMAIN c : IsCall(c[n]) /\ c[n].id = id
    BY DEF CallIds
  <2> HIDE DEF keep, R, unanswered, c
  <2>6. HandlesKept(c, keep)
    BY <2>2 DEF HandlesKept, IsCall
  <2>7. /\ unanswered \in Seq(WireBlock)
        /\ \A n \in DOMAIN unanswered : \E x \in DOMAIN c : x \in keep /\ unanswered[n] = c[x]
        /\ \A x \in DOMAIN c : x \in keep => \E n \in DOMAIN unanswered : unanswered[n] = c[x]
        /\ CallsOnce(unanswered)
    <3>1. CallsOnce(c)
      BY <1>2, <1>5 DEF c
    <3> DEFINE t == Sift(c, keep)
    <3>2. c \in Seq(WireBlock)
      BY <1>3
    <3>3. /\ t \in Seq(WireBlock)
          /\ \A n \in DOMAIN t : \E x \in DOMAIN c : x \in keep /\ t[n] = c[x]
          /\ \A x \in DOMAIN c : x \in keep => \E n \in DOMAIN t : t[n] = c[x]
          /\ CallsOnce(c) => CallsOnce(t)
      BY <2>6, <3>2, SiftKeeps
    <3>4. unanswered = t
      BY <2>1
    <3> HIDE DEF t
    <3> QED BY <3>1, <3>3, <3>4
  <2>8. \A n \in DOMAIN unanswered : IsCall(unanswered[n]) /\ unanswered[n].id \in CallIds(c) \ R
    BY <2>2, <2>4, <2>7
  <2>9. \A b \in WireBlock : IsCall(b) => b.id \in Nat \X Nat
    BY DEF WireBlock, IsCall
  <2>10. \A n \in DOMAIN unanswered : unanswered[n] \in WireBlock
    BY <2>7
  <2>11. DOMAIN out = DOMAIN unanswered
    OBVIOUS
  <2>12. \A n \in DOMAIN out : /\ out[n] \in WireBlock
                               /\ out[n].kind = "tool_result" /\ out[n].id = unanswered[n].id
    BY <2>8, <2>9, <2>10, <2>11 DEF ResultBlock, WireBlock
  <2>13. out \in Seq(WireBlock)
    <3>1. DOMAIN unanswered = 1..Len(unanswered) /\ Len(unanswered) \in Nat
      BY <2>7
    <3>2. out = [n \in 1..Len(unanswered) |-> out[n]]
      BY <3>1
    <3> HIDE DEF out
    <3>3. \A n \in 1..Len(unanswered) : out[n] \in WireBlock
      BY <2>11, <2>12, <3>1
    <3> QED BY <3>1, <3>2, <3>3
  <2> HIDE DEF out
  <2>14. ResultsOnce(out)
    BY <2>7, <2>8, <2>11, <2>12 DEF ResultsOnce, CallsOnce
  <2>15. \A id \in CallIds(c) \ R : \E n \in DOMAIN out : out[n].id = id
    <3> SUFFICES ASSUME NEW id \in CallIds(c) \ R PROVE \E n \in DOMAIN out : out[n].id = id
      OBVIOUS
    <3>1. PICK x \in DOMAIN c : IsCall(c[x]) /\ c[x].id = id
      BY <2>5
    <3>2. PICK n \in DOMAIN unanswered : unanswered[n] = c[x]
      BY <2>3, <2>7, <3>1
    <3> QED BY <2>11, <2>12, <3>1, <3>2
  <2>16. \A n \in DOMAIN out : out[n].kind = "tool_result" /\ out[n].id \in CallIds(c) \ R
    BY <2>8, <2>11, <2>12
  <2> QED BY <1>1, <1>5, <2>13, <2>14, <2>15, <2>16 DEF c, R
<1> QED BY <1>4, <1>5

LEMMA MissingAnswers ==
    ASSUME NEW log, NEW ms, Raw(log, ms), NEW k \in DOMAIN ms,
           NEW id \in CallIds(ms[k].content) \ RoundIds(ms, k)
    PROVE  \E n \in DOMAIN Missing(ms, k) : Missing(ms, k)[n].id = id
BY MissingIs

\* A message with its repairs: a round then answers every call before it.
LEMMA WithRepairsIs ==
    ASSUME NEW log, NEW ms, Raw(log, ms), NEW k \in DOMAIN ms
    PROVE  /\ WithRepairs(ms, k) \in Message
           /\ ~IsRound(ms[k]) => WithRepairs(ms, k) = ms[k]
           /\ IsRound(ms[k]) =>
                 /\ k > 1 /\ k - 1 \in DOMAIN ms
                 /\ ms[k - 1].role = "assistant"
                 /\ WithRepairs(ms, k).role = "user"
                 /\ \A n \in DOMAIN WithRepairs(ms, k).content :
                       WithRepairs(ms, k).content[n].kind = "tool_result"
                 /\ ResultIds(WithRepairs(ms, k)) = CallIds(ms[k - 1].content)
                 /\ ResultsOnce(WithRepairs(ms, k).content)
<1>1. /\ ms[k] \in Message /\ k \in Nat
      /\ IsRound(ms[k]) <=> RoundAfter(ms, k)
      /\ IsRound(ms[k]) => ResultsOnce(ms[k].content)
  BY RoundIs
<1>2. CASE ~IsRound(ms[k])
  BY <1>1, <1>2 DEF WithRepairs
<1>3. CASE IsRound(ms[k])
  <2> DEFINE old == ms[k].content
             add == Missing(ms, k - 1)
             c == old \o add
             w == WithRepairs(ms, k)
  <2>1. /\ k > 1 /\ ms[k].role = "user" /\ ms[k - 1].role = "assistant"
        /\ \A n \in DOMAIN old : old[n].kind = "tool_result" /\ old[n].id \in CallIds(ms[k - 1].content)
    BY <1>1, <1>3 DEF RoundAfter
  <2>2. DOMAIN ms = 1..Len(ms) /\ Len(ms) \in Nat
    BY DEF Raw
  <2>3. k - 1 \in DOMAIN ms /\ (k - 1) + 1 = k
    BY <1>1, <2>1, <2>2
  <2>4. /\ add \in Seq(WireBlock)
        /\ \A n \in DOMAIN add :
              /\ add[n].kind = "tool_result"
              /\ add[n].id \in CallIds(ms[k - 1].content) \ RoundIds(ms, k - 1)
        /\ ResultsOnce(add)
        /\ \A id \in CallIds(ms[k - 1].content) \ RoundIds(ms, k - 1) :
              \E n \in DOMAIN add : add[n].id = id
    BY <2>3, MissingIs
  <2>5. RoundIds(ms, k - 1) = ResultIds(ms[k])
    BY <1>3, <2>3 DEF RoundIds
  <2>6. /\ old \in Seq(WireBlock) /\ old # << >> /\ Len(old) \in Nat \ {0} /\ DOMAIN old = 1..Len(old)
        /\ ms[k] = Msg("user", old)
    BY <1>1, <2>1, MessageIs
  <2>7. w = [ms[k] EXCEPT !.content = old \o add]
    BY <1>3, <2>1 DEF WithRepairs
  <2>8. w = Msg("user", c)
    BY <1>1, <2>1, <2>7, Refilled
  <2>9. ResultIds(ms[k]) = {old[n].id : n \in {x \in DOMAIN old : old[x].kind = "tool_result"}}
    BY DEF ResultIds
  <2> HIDE DEF old, add, w
  <2>10. /\ c \in Seq(WireBlock) /\ Len(c) = Len(old) + Len(add) /\ Len(add) \in Nat
         /\ DOMAIN c = 1..(Len(old) + Len(add)) /\ DOMAIN add = 1..Len(add)
         /\ \A n \in 1..Len(old) : c[n] = old[n]
         /\ \A n \in 1..Len(add) : c[Len(old) + n] = add[n]
    BY <2>4, <2>6
  <2>11. c \in Seq(WireBlock) \ {<< >>}
    <3> HIDE DEF c
    <3> QED BY <2>6, <2>10
  <2>12. w \in Message /\ w.role = "user" /\ w.content = c
    <3> HIDE DEF c
    <3> QED BY <2>8, <2>11, MsgIs
  <2> HIDE DEF c
  <2>13. \A n \in DOMAIN c : n \in DOMAIN old \/ \E x \in DOMAIN add : n = Len(old) + x
    <3> SUFFICES ASSUME NEW n \in DOMAIN c, n \notin DOMAIN old
                 PROVE  \E x \in DOMAIN add : n = Len(old) + x
      OBVIOUS
    <3>1. n - Len(old) \in DOMAIN add /\ n = Len(old) + (n - Len(old))
      BY <2>6, <2>10
    <3> QED BY <3>1
  <2>14. \A n \in DOMAIN c : c[n].kind = "tool_result" /\ c[n].id \in CallIds(ms[k - 1].content)
    BY <2>1, <2>4, <2>6, <2>10, <2>13 DEF old
  <2>15. ResultIds(w) = CallIds(ms[k - 1].content)
    <3>1. ResultIds(w) \subseteq CallIds(ms[k - 1].content)
      BY <2>12, <2>14 DEF ResultIds
    <3>2. ASSUME NEW id \in CallIds(ms[k - 1].content)
          PROVE  \E n \in DOMAIN c : c[n].id = id
      <4>1. CASE id \in ResultIds(ms[k])
        <5>1. PICK n \in DOMAIN old : old[n].id = id
          BY <2>9, <4>1
        <5>2. n \in DOMAIN c /\ c[n] = old[n]
          BY <2>6, <2>10
        <5> QED BY <5>1, <5>2
      <4>2. CASE id \notin ResultIds(ms[k])
        <5>1. PICK n \in DOMAIN add : add[n].id = id
          BY <2>4, <2>5, <3>2, <4>2
        <5>2. Len(old) + n \in DOMAIN c /\ c[Len(old) + n] = add[n]
          BY <2>6, <2>10
        <5> QED BY <5>1, <5>2
      <4> QED BY <4>1, <4>2
    <3>3. \A n \in DOMAIN c : c[n].id \in ResultIds(w)
      BY <2>12, <2>14 DEF ResultIds
    <3> QED BY <3>1, <3>2, <3>3
  <2>16. ResultsOnce(c)
    <3> SUFFICES ASSUME NEW x \in DOMAIN c, NEW y \in DOMAIN c, c[x].id = c[y].id
                 PROVE  x = y
      BY DEF ResultsOnce
    <3>1. \A n \in DOMAIN old : old[n].id \in ResultIds(ms[k]) /\ old[n].kind = "tool_result"
      BY <2>1, <2>9 DEF old
    <3>2. \A n \in DOMAIN add : add[n].id \notin ResultIds(ms[k]) /\ add[n].kind = "tool_result"
      BY <2>4, <2>5
    <3>3. ResultsOnce(old)
      BY <1>1, <1>3 DEF old
    <3>4. CASE x \in DOMAIN old /\ y \in DOMAIN old
      BY <2>6, <2>10, <3>1, <3>3, <3>4 DEF ResultsOnce
    <3>5. CASE x \in DOMAIN old /\ y \notin DOMAIN old
      <4>1. PICK v \in DOMAIN add : y = Len(old) + v
        BY <2>13, <3>5
      <4>2. c[x] = old[x] /\ c[y] = add[v]
        BY <2>6, <2>10, <3>5, <4>1
      <4> QED BY <3>1, <3>2, <3>5, <4>2
    <3>6. CASE x \notin DOMAIN old /\ y \in DOMAIN old
      <4>1. PICK v \in DOMAIN add : x = Len(old) + v
        BY <2>13, <3>6
      <4>2. c[y] = old[y] /\ c[x] = add[v]
        BY <2>6, <2>10, <3>6, <4>1
      <4> QED BY <3>1, <3>2, <3>6, <4>2
    <3>7. CASE x \notin DOMAIN old /\ y \notin DOMAIN old
      <4>1. PICK v \in DOMAIN add : x = Len(old) + v
        BY <2>13, <3>7
      <4>2. PICK u \in DOMAIN add : y = Len(old) + u
        BY <2>13, <3>7
      <4>3. c[x] = add[v] /\ c[y] = add[u]
        BY <2>10, <4>1, <4>2
      <4>4. v = u
        BY <2>4, <3>2, <4>3 DEF ResultsOnce
      <4> QED BY <4>1, <4>2, <4>4
    <3> QED BY <3>4, <3>5, <3>6, <3>7
  <2> QED BY <1>3, <2>1, <2>3, <2>12, <2>14, <2>15, <2>16 DEF w
<1> QED BY <1>2, <1>3

\* A list in which every message but the last has its calls answered.
Sound(ms, p) ==
    /\ ResultsOnce(ms[p].content)
    /\ ResultIds(ms[p]) # {} => p > 1 /\ ResultIds(ms[p]) \subseteq CallIds(ms[p - 1].content)
    /\ p < Len(ms) => CallIds(ms[p].content) \subseteq ResultIds(ms[p + 1])

\* A message of a reply's is one the pass gathered.
FromPass(raw, m) ==
    \/ m.role = "user" /\ Plain(m.content)
    \/ /\ m.role = "user"
       /\ \A n \in DOMAIN m.content : m.content[n].kind = "tool_result"
    \/ \E j \in DOMAIN raw : m = raw[j]

SoundList(raw, ms) ==
    /\ ms \in Seq(Message)
    /\ \A p \in DOMAIN ms : Sound(ms, p) /\ FromPass(raw, ms[p])

LEMMA SoundPush ==
    ASSUME NEW raw, NEW ms, SoundList(raw, ms), NEW m \in Message, FromPass(raw, m),
           ResultsOnce(m.content),
           ms # << >> => CallIds(ms[Len(ms)].content) \subseteq ResultIds(m),
           ResultIds(m) # {} =>
               ms # << >> /\ ResultIds(m) \subseteq CallIds(ms[Len(ms)].content)
    PROVE  /\ SoundList(raw, Append(ms, m))
           /\ Append(ms, m) # << >>
           /\ Append(ms, m)[Len(Append(ms, m))] = m
<1> DEFINE out == Append(ms, m)
           L == Len(ms)
<1>1. /\ ms \in Seq(Message) /\ L \in Nat /\ DOMAIN ms = 1..L
      /\ out \in Seq(Message) /\ Len(out) = L + 1 /\ DOMAIN out = 1..(L + 1)
      /\ out[L + 1] = m /\ \A p \in 1..L : out[p] = ms[p]
      /\ ms # << >> <=> L # 0
  BY DEF SoundList
<1> HIDE DEF out, L
<1>2. ASSUME NEW p \in 1..L PROVE Sound(out, p) /\ FromPass(raw, out[p])
  <2>1. Sound(ms, p) /\ FromPass(raw, ms[p]) /\ out[p] = ms[p] /\ p \in Nat
    BY <1>1 DEF SoundList
  <2>2. p > 1 => p - 1 \in 1..L
    BY <1>1
  <2>3. p < Len(out)
    BY <1>1
  <2>4. CallIds(out[p].content) \subseteq ResultIds(out[p + 1])
    <3>1. CASE p = L
      BY <1>1, <2>1, <3>1 DEF L
    <3>2. CASE p < L
      <4>1. p + 1 \in 1..L
        BY <1>1, <3>2
      <4> QED BY <1>1, <2>1, <3>2, <4>1 DEF Sound, L
    <3> QED BY <1>1, <3>1, <3>2
  <2>5. ResultIds(out[p]) # {} => p > 1 /\ ResultIds(out[p]) \subseteq CallIds(out[p - 1].content)
    BY <1>1, <2>1, <2>2 DEF Sound
  <2> QED BY <2>1, <2>4, <2>5 DEF Sound
<1>3. Sound(out, L + 1) /\ FromPass(raw, out[L + 1])
  <2>1. ResultIds(m) # {} => L + 1 > 1 /\ ResultIds(m) \subseteq CallIds(out[(L + 1) - 1].content)
    <3>1. SUFFICES ASSUME ResultIds(m) # {}
                   PROVE  L + 1 > 1 /\ ResultIds(m) \subseteq CallIds(out[(L + 1) - 1].content)
      OBVIOUS
    <3>2. L # 0 /\ ResultIds(m) \subseteq CallIds(ms[L].content)
      BY <1>1, <3>1 DEF L
    <3>3. L \in 1..L /\ (L + 1) - 1 = L
      BY <1>1, <3>2
    <3> QED BY <1>1, <3>2, <3>3
  <2>2. ~(L + 1 < Len(out))
    BY <1>1
  <2> QED BY <1>1, <2>1, <2>2 DEF Sound
<1>4. \A p \in DOMAIN out : p \in 1..L \/ p = L + 1
  BY <1>1
<1>5. SoundList(raw, out)
  BY <1>1, <1>2, <1>3, <1>4 DEF SoundList
<1>6. out # << >> /\ out[Len(out)] = m
  BY <1>1
<1> QED BY <1>5, <1>6 DEF out

\* What the repair makes of message k.
Repaired(ms, k) ==
    IF NoRound(ms, k)
    THEN << WithRepairs(ms, k), Msg("user", Missing(ms, k)) >>
    ELSE << WithRepairs(ms, k) >>

\* The repaired list up to message k ends in it, or in the answers it lacked.
EndsIn(ms, k, out) ==
    /\ out # << >>
    /\ IF NoRound(ms, k) THEN CallIds(out[Len(out)].content) = {}
       ELSE out[Len(out)] = WithRepairs(ms, k)

\* A call of a message that has a round after it is answered there.
LEMMA AnsweredAfter ==
    ASSUME NEW log, NEW ms, Raw(log, ms), NEW k \in DOMAIN ms, ~NoRound(ms, k),
           CallIds(WithRepairs(ms, k).content) # {}
    PROVE  /\ k + 1 \in DOMAIN ms /\ WithRepairs(ms, k) = ms[k]
           /\ IsRound(ms[k + 1])
<1>1. /\ ~IsRound(ms[k]) => WithRepairs(ms, k) = ms[k]
      /\ IsRound(ms[k]) => \A n \in DOMAIN WithRepairs(ms, k).content :
                              WithRepairs(ms, k).content[n].kind = "tool_result"
  BY WithRepairsIs
<1>2. ~IsRound(ms[k])
  BY <1>1 DEF CallIds, IsCall
<1>3. WithRepairs(ms, k) = ms[k]
  BY <1>1, <1>2
<1>4. PICK id : id \in CallIds(ms[k].content)
  BY <1>3
<1>5. SUFFICES ASSUME ~(k + 1 \in DOMAIN ms /\ IsRound(ms[k + 1])) PROVE FALSE
  BY <1>3
<1>6. RoundIds(ms, k) = {}
  BY <1>5 DEF RoundIds
<1>7. PICK n \in DOMAIN Missing(ms, k) : Missing(ms, k)[n].id = id
  <2>1. id \in CallIds(ms[k].content) \ RoundIds(ms, k)
    BY <1>4, <1>6
  <2> QED BY <2>1, MissingAnswers
<1>8. Missing(ms, k) # << >>
  BY <1>7
<1> QED BY <1>5, <1>8 DEF NoRound

LEMMA RepairStep ==
    ASSUME NEW log, NEW ms, Raw(log, ms), NEW k \in 1..Len(ms),
           NEW out, SoundList(ms, out),
           IF k = 1 THEN out = << >> ELSE EndsIn(ms, k - 1, out)
    PROVE  SoundList(ms, out \o Repaired(ms, k)) /\ EndsIn(ms, k, out \o Repaired(ms, k))
<1> DEFINE w == WithRepairs(ms, k)
           add == Missing(ms, k)
           L == Len(out)
<1>1. DOMAIN ms = 1..Len(ms) /\ Len(ms) \in Nat /\ k \in DOMAIN ms /\ k \in Nat
  BY DEF Raw
<1>2. /\ w \in Message
      /\ ~IsRound(ms[k]) => w = ms[k]
      /\ IsRound(ms[k]) =>
            /\ k > 1 /\ k - 1 \in DOMAIN ms
            /\ ms[k - 1].role = "assistant"
            /\ w.role = "user"
            /\ \A n \in DOMAIN w.content : w.content[n].kind = "tool_result"
            /\ ResultIds(w) = CallIds(ms[k - 1].content)
            /\ ResultsOnce(w.content)
  BY <1>1, WithRepairsIs
<1>3. /\ ms[k] \in Message
      /\ ~IsRound(ms[k]) => ResultIds(ms[k]) = {}
      /\ ms[k].role = "user" => CallIds(ms[k].content) = {}
      /\ ms[k].role \in {"user", "assistant"}
  BY <1>1, RoundIs
<1>4. out \in Seq(Message) /\ L \in Nat
  BY DEF SoundList
<1> HIDE DEF w, add, L
<1>5. FromPass(ms, w)
  BY <1>1, <1>2 DEF FromPass
<1>6. ResultsOnce(w.content)
  <2>1. ASSUME ResultIds(w) = {} PROVE ResultsOnce(w.content)
    BY <2>1 DEF ResultIds, ResultsOnce
  <2> QED BY <1>2, <1>3, <2>1
<1>7. ASSUME IsRound(ms[k])
      PROVE  out # << >> /\ ResultIds(w) \subseteq CallIds(out[Len(out)].content)
  <2>1. k > 1 /\ k - 1 \in DOMAIN ms /\ (k - 1) + 1 = k /\ ms[k - 1].role = "assistant"
    BY <1>1, <1>2, <1>7
  <2>2. ~NoRound(ms, k - 1)
    BY <1>1, <1>7, <2>1 DEF NoRound
  <2>3. out # << >> /\ out[Len(out)] = WithRepairs(ms, k - 1)
    BY <2>1, <2>2 DEF EndsIn
  <2>4. ~IsRound(ms[k - 1])
    BY <2>1 DEF IsRound
  <2>5. WithRepairs(ms, k - 1) = ms[k - 1]
    BY <2>1, <2>4, WithRepairsIs
  <2> QED BY <1>2, <1>7, <2>3, <2>5
<1>8. ASSUME out # << >> PROVE CallIds(out[Len(out)].content) \subseteq ResultIds(w)
  <2>1. k # 1 /\ k - 1 \in DOMAIN ms /\ (k - 1) + 1 = k /\ EndsIn(ms, k - 1, out)
    BY <1>1, <1>8
  <2>2. CASE CallIds(out[Len(out)].content) = {}
    BY <2>2
  <2>3. CASE CallIds(out[Len(out)].content) # {}
    <3>1. ~NoRound(ms, k - 1) /\ out[Len(out)] = WithRepairs(ms, k - 1)
      BY <2>1, <2>3 DEF EndsIn
    <3>2. WithRepairs(ms, k - 1) = ms[k - 1] /\ IsRound(ms[(k - 1) + 1])
      BY <2>1, <2>3, <3>1, AnsweredAfter
    <3>3. ResultIds(w) = CallIds(ms[k - 1].content)
      BY <1>2, <2>1, <3>2
    <3> QED BY <3>1, <3>2, <3>3
  <2> QED BY <2>2, <2>3
<1>9. ResultIds(w) # {} => out # << >> /\ ResultIds(w) \subseteq CallIds(out[Len(out)].content)
  BY <1>2, <1>3, <1>7
<1> DEFINE one == Append(out, w)
<1>10. SoundList(ms, one) /\ one # << >> /\ one[Len(one)] = w
  BY <1>2, <1>5, <1>6, <1>8, <1>9, SoundPush
<1>11. one \in Seq(Message)
  BY <1>10 DEF SoundList
<1>12. CASE ~NoRound(ms, k)
  <2>1. Repaired(ms, k) = << w >>
    BY <1>12 DEF Repaired, w
  <2>2. out \o << w >> = one
    BY <1>2, <1>4
  <2> HIDE DEF one
  <2> QED BY <1>10, <1>12, <2>1, <2>2 DEF EndsIn, w
<1>13. CASE NoRound(ms, k)
  <2> DEFINE m == Msg("user", add)
             two == Append(one, m)
  <2>1. Repaired(ms, k) = << w, m >>
    BY <1>13 DEF Repaired, w, add
  <2>2. /\ add \in Seq(WireBlock)
        /\ \A n \in DOMAIN add : /\ add[n].kind = "tool_result"
                                 /\ add[n].id \in CallIds(ms[k].content) \ RoundIds(ms, k)
        /\ ResultsOnce(add)
        /\ \A id \in CallIds(ms[k].content) \ RoundIds(ms, k) : \E n \in DOMAIN add : add[n].id = id
        /\ ms[k].role # "assistant" => add = << >>
    BY <1>1, MissingIs DEF add
  <2>3. add # << >> /\ RoundIds(ms, k) = {}
    BY <1>13 DEF NoRound, RoundIds, add
  <2>4. m \in Message /\ m.role = "user" /\ m.content = add
    <3>1. add \in Seq(WireBlock) \ {<< >>}
      BY <2>2, <2>3
    <3> QED BY <3>1, MsgIs
  <2>5. ~IsRound(ms[k])
    BY <2>2, <2>3 DEF IsRound
  <2>6. w = ms[k]
    BY <1>2, <2>5
  <2> HIDE DEF m
  <2>7. ResultIds(m) = CallIds(ms[k].content)
    BY <2>2, <2>3, <2>4 DEF ResultIds
  <2>8. FromPass(ms, m) /\ ResultsOnce(m.content) /\ CallIds(m.content) = {}
    BY <2>2, <2>4 DEF FromPass, CallIds, IsCall
  <2> HIDE DEF one
  <2>9. SoundList(ms, two) /\ two # << >> /\ two[Len(two)] = m
    BY <1>10, <2>4, <2>6, <2>7, <2>8, SoundPush
  <2>10. out \o << w, m >> = two
    BY <1>2, <1>4, <2>4 DEF one
  <2> HIDE DEF two
  <2> QED BY <1>13, <2>1, <2>8, <2>9, <2>10 DEF EndsIn
<1> QED BY <1>12, <1>13

\* The repaired list is sound, and ends in the last message or its answers.
LEMMA RepairIsSound ==
    ASSUME NEW log, NEW ms, Raw(log, ms)
    PROVE  /\ SoundList(ms, AnswerOrphanedCalls(ms))
           /\ ms = << >> => AnswerOrphanedCalls(ms) = << >>
           /\ ms # << >> => EndsIn(ms, Len(ms), AnswerOrphanedCalls(ms))
<1> DEFINE ss == [k \in DOMAIN ms |-> Repaired(ms, k)]
<1>1. AnswerOrphanedCalls(ms) = FlattenSeq(ss)
  BY DEF AnswerOrphanedCalls, Repaired
<1>2. ms \in Seq(Message) /\ DOMAIN ms = 1..Len(ms) /\ Len(ms) \in Nat
  BY DEF Raw
<1>3. ASSUME NEW k \in 1..Len(ms) PROVE Repaired(ms, k) \in Seq(Message)
  <2>1. WithRepairs(ms, k) \in Message
    BY <1>2, WithRepairsIs
  <2>2. ASSUME NoRound(ms, k)
        PROVE  Msg("user", Missing(ms, k)) \in Message
    <3>1. Missing(ms, k) \in Seq(WireBlock) \ {<< >>}
      BY <1>2, <2>2, MissingIs DEF NoRound
    <3> QED BY <3>1, MsgIs
  <2> QED BY <2>1, <2>2 DEF Repaired
<1>4. ss \in Seq(Seq(Message)) /\ Len(ss) = Len(ms) /\ \A k \in 1..Len(ms) : ss[k] = Repaired(ms, k)
  BY <1>2, <1>3
<1> HIDE DEF ss
<1>5. PICK f : /\ DOMAIN f = 0..Len(ss)
               /\ f[0] = << >>
               /\ \A n \in 1..Len(ss) : f[n] = f[n - 1] \o ss[n]
               /\ FlattenSeq(ss) = f[Len(ss)]
  BY <1>4, FlattenSteps
<1> DEFINE G == {n \in 0..Len(ms) : /\ SoundList(ms, f[n])
                                    /\ IF n = 0 THEN f[n] = << >> ELSE EndsIn(ms, n, f[n])}
<1>6. 0 \in G
  <2>1. SoundList(ms, << >>)
    BY DEF SoundList
  <2> QED BY <1>2, <1>5, <2>1
<1>7. ASSUME NEW n \in 0..(Len(ms) - 1), n \in G
      PROVE  n + 1 \in G
  <2>1. n + 1 \in 1..Len(ms) /\ (n + 1) - 1 = n /\ (n + 1 = 1 <=> n = 0) /\ n + 1 # 0 /\ n + 1 \in 0..Len(ms)
    BY <1>2
  <2>2. SoundList(ms, f[n]) /\ IF n + 1 = 1 THEN f[n] = << >> ELSE EndsIn(ms, (n + 1) - 1, f[n])
    BY <1>7, <2>1
  <2>3. f[n + 1] = f[n] \o Repaired(ms, n + 1)
    BY <1>4, <1>5, <2>1
  <2>4. SoundList(ms, f[n + 1]) /\ EndsIn(ms, n + 1, f[n + 1])
    BY <2>1, <2>2, <2>3, RepairStep
  <2> QED BY <2>1, <2>4
<1>8. Len(ms) \in G
  <2> HIDE DEF G
  <2>1. 0..Len(ms) \subseteq G
    BY <1>2, <1>6, <1>7, UpTo
  <2> QED BY <1>2, <2>1
<1>9. FlattenSeq(ss) = f[Len(ms)]
  BY <1>4, <1>5
<1>10. ms = << >> <=> Len(ms) = 0
  BY <1>2
<1> QED BY <1>1, <1>8, <1>9, <1>10

\* A sound list with nothing asked in its last message is one a provider
\* accepts.
LEMMA RepairIsValid ==
    ASSUME NEW log, NEW ms, Raw(log, ms)
    PROVE  WireValid(AnswerOrphanedCalls(ms))
<1> DEFINE out == AnswerOrphanedCalls(ms)
<1>1. /\ SoundList(ms, out)
      /\ ms = << >> => out = << >>
      /\ ms # << >> => EndsIn(ms, Len(ms), out)
  BY RepairIsSound
<1> HIDE DEF out
<1>2. out \in Seq(Message) /\ DOMAIN out = 1..Len(out) /\ Len(out) \in Nat
  BY <1>1 DEF SoundList
<1>3. ASSUME out # << >>
      PROVE  CallIds(out[Len(out)].content) = {}
  <2>1. ms # << >> /\ EndsIn(ms, Len(ms), out)
    BY <1>1, <1>3
  <2>2. Len(ms) \in DOMAIN ms /\ Len(ms) + 1 \notin DOMAIN ms
    BY <2>1 DEF Raw
  <2>3. CASE NoRound(ms, Len(ms))
    BY <2>1, <2>3 DEF EndsIn
  <2>4. CASE ~NoRound(ms, Len(ms))
    <3>1. out[Len(out)] = WithRepairs(ms, Len(ms))
      BY <2>1, <2>4 DEF EndsIn
    <3> QED BY <2>2, <2>4, <3>1, AnsweredAfter
  <2> QED BY <2>3, <2>4
<1>4. ASSUME NEW k \in DOMAIN out
      PROVE  LET content == out[k].content
                 asks    == CallIds(content)
                 results == ResultIds(out[k])
             IN  /\ content # << >>
                 /\ \A n \in DOMAIN content : content[n].kind = "text" => content[n].say # ""
                 /\ asks # {} =>
                       k + 1 \in DOMAIN out /\ asks \subseteq ResultIds(out[k + 1])
                 /\ results # {} => k > 1 /\ results \subseteq CallIds(out[k - 1].content)
                 /\ \A m, n \in DOMAIN content :
                       /\ content[m].kind = "tool_result"
                       /\ content[n].kind = "tool_result"
                       /\ content[m].id = content[n].id
                       => m = n
  <2> DEFINE content == out[k].content
  <2>1. out[k] \in Message /\ Sound(out, k) /\ k \in Nat
    BY <1>1, <1>2 DEF SoundList
  <2>2. content \in Seq(WireBlock) /\ content # << >>
    BY <2>1, MessageIs
  <2>3. \A n \in DOMAIN content : content[n].kind = "text" => content[n].say # ""
    <3>1. \A b \in WireBlock : b.kind = "text" => b.say \in Words \cup {"said", "own"}
      BY DEF WireBlock
    <3>2. \A b \in WireBlock : b.kind = "text" => b.say # ""
      BY <3>1, LogAssumption
    <3>3. \A n \in DOMAIN content : content[n] \in WireBlock
      <4> HIDE DEF content
      <4> QED BY <2>2
    <3> QED BY <3>2, <3>3
  <2>4. CallIds(content) # {} => k + 1 \in DOMAIN out /\ CallIds(content) \subseteq ResultIds(out[k + 1])
    <3>1. SUFFICES ASSUME CallIds(content) # {}
                   PROVE  k + 1 \in DOMAIN out /\ CallIds(content) \subseteq ResultIds(out[k + 1])
      OBVIOUS
    <3>2. k # Len(out)
      <4>1. out # << >>
        BY <1>2
      <4> QED BY <1>3, <3>1, <4>1
    <3>3. k < Len(out) /\ k + 1 \in DOMAIN out
      BY <1>2, <3>2
    <3> QED BY <2>1, <3>3 DEF Sound
  <2>5. ResultsOnce(content) /\ (ResultIds(out[k]) # {} => k > 1 /\ ResultIds(out[k]) \subseteq CallIds(out[k - 1].content))
    BY <2>1 DEF Sound
  <2> QED BY <2>2, <2>3, <2>4, <2>5 DEF ResultsOnce
<1> QED BY <1>4 DEF WireValid, out

-----------------------------------------------------------------------------
(* What a log that gains a last event keeps.                               *)

LEMMA WholeLogInv == LogInv => Whole(events)
<1> SUFFICES ASSUME LogInv PROVE Whole(events)
  OBVIOUS
<1>1. events \in Seq(Entry)
  BY DEF LogInv, TypeOK, Entry
<1> QED BY <1>1 DEF LogInv, TypeOK, EventsFit, Whole

\* Two logs that agree so far have the same rewinds, users and kinds so far.
LEMMA PointsHere ==
    ASSUME NEW log, NEW other, NEW i \in Nat \ {0},
           \A k \in 1..i : other[k] = log[k], PointsBack(log, i)
    PROVE  PointsBack(other, i)
<1>1. other[i] = log[i] /\ \A k \in 1..(i - 1) : other[k] = log[k]
  OBVIOUS
<1>2. other[i].type = "rewind" => other[i].to \in 1..(i - 1) /\ IsUser(other[other[i].to])
  BY <1>1 DEF PointsBack, IsUser
<1>3. other[i].type = "unrewind" => other[i].of \in 1..(i - 1) /\ other[other[i].of].type = "rewind"
  BY <1>1 DEF PointsBack
<1>4. TargetsOf(other[i]) \subseteq {t \in 1..(i - 1) : IsElidable(other, t)}
  BY <1>1 DEF PointsBack, IsElidable
<1> QED BY <1>2, <1>3, <1>4 DEF PointsBack

\* A log that takes one more event where it fits is whole.
LEMMA WholeAppend ==
    ASSUME NEW log, Whole(log), NEW e \in Entry, NEW n, n = Len(log),
           PointsBack(Append(log, e), n + 1), Fits(Append(log, e), n + 1)
    PROVE  Whole(Append(log, e))
<1> DEFINE next == Append(log, e)
<1>1. n \in Nat \ {0} /\ DOMAIN log = 1..n /\ log \in Seq(Entry)
  BY WholeLog DEF Whole
<1>3. /\ next \in Seq(Entry) /\ DOMAIN next = 1..(n + 1)
      /\ \A k \in 1..n : next[k] = log[k]
      /\ 1 \in 1..n /\ next # << >>
  <2>2. next \in Seq(Entry) /\ Len(next) = n + 1
    BY <1>1
  <2>3. \A k \in 1..n : next[k] = log[k]
    BY <1>1
  <2>4. n \in Nat /\ 1 \in 1..n
    BY <1>1
  <2> HIDE DEF next
  <2>5. DOMAIN next = 1..(n + 1)
    BY <2>2
  <2>6. next # << >>
    BY <2>2, <2>4
  <2> QED BY <2>2, <2>3, <2>4, <2>5, <2>6
<1>5. PointsBack(next, n + 1) /\ Fits(next, n + 1)
  OBVIOUS
<1> HIDE DEF next
<1>4. ASSUME NEW i \in 1..n PROVE PointsBack(next, i) /\ Fits(next, i)
  <2>1. PointsBack(log, i) /\ Fits(log, i)
    BY <1>1 DEF Whole
  <2>2. i \in Nat \ {0} /\ \A k \in 1..i : next[k] = log[k]
    BY <1>1, <1>3
  <2> QED BY <2>1, <2>2, PointsHere, FitsHere
<1>6. \A i \in 1..(n + 1) : i \in 1..n \/ i = n + 1
  BY <1>1
<1>7. next[1].type = "session_created"
  BY <1>3 DEF Whole
<1>8. Whole(next)
  BY <1>3, <1>4, <1>5, <1>6, <1>7 DEF Whole
<1> QED BY <1>8 DEF next

\* A message of his may always be added.
LEMMA WholeSaid ==
    ASSUME NEW log, Whole(log), NEW f \in Attached \cup {0}
    PROVE  Whole(Append(log, UserMsg("said", f)))
<1> DEFINE u == UserMsg("said", f)
           next == Append(log, u)
           n == Len(log)
<1>1. u \in Entry /\ u.type = "user_message" /\ u.said = "said"
  BY EventTypes DEF Entry, UserMsg
<1>2. next[n + 1] = u
  BY WholeLog DEF Whole
<1> HIDE DEF u, next, n
<1>3. PointsBack(next, n + 1) /\ Fits(next, n + 1)
  BY <1>1, <1>2 DEF PointsBack, Fits, TargetsOf, IsUser, IsAssistant
<1>4. Whole(Append(log, u))
  BY <1>1, <1>3, WholeAppend DEF next, n
<1> QED BY <1>4 DEF u

\* What is live stays live when an event that lifts and takes nothing is
\* added, and so is that event.
LEMMA LiveAppend ==
    ASSUME NEW S, NEW log \in Seq(S), NEW e \in S, e.type \notin {"rewind", "unrewind"}
    PROVE  Live(Append(log, e)) = Live(log) \cup {Len(log) + 1}
<1> DEFINE next == Append(log, e)
           n == Len(log)
<1>1. n \in Nat /\ DOMAIN log = 1..n
  OBVIOUS
<1>2. /\ DOMAIN next = 1..(n + 1) /\ next[n + 1] = e
      /\ \A k \in 1..n : next[k] = log[k]
  OBVIOUS
<1> HIDE DEF next, n
<1>3. \A k \in 1..(n + 1) : k \in 1..n \/ k = n + 1
  BY <1>1
<1>4. \A k \in 1..n : k \in 1..(n + 1)
  BY <1>1
<1>5. Lifted(next) = Lifted(log)
  <2>1. Lifted(next) \subseteq Lifted(log)
    BY <1>1, <1>2, <1>3 DEF Lifted
  <2>2. Lifted(log) \subseteq Lifted(next)
    BY <1>1, <1>2, <1>4 DEF Lifted
  <2> QED BY <2>1, <2>2
<1>6. Standing(next) = Standing(log)
  BY <1>1, <1>2, <1>3, <1>4, <1>5 DEF Standing
<1>7. \A r \in Standing(log) : r \in 1..n
  BY <1>1 DEF Standing
<1>8. \A r \in Standing(log) : ~(n + 1 < r)
  BY <1>1, <1>7
<1>9. ASSUME NEW i \in 1..n
      PROVE  i \in Live(next) <=> i \in Live(log)
  BY <1>1, <1>2, <1>4, <1>6, <1>7 DEF Live
<1>10. n + 1 \in Live(next)
  BY <1>1, <1>2, <1>6, <1>8 DEF Live
<1>11. Live(next) \subseteq 1..(n + 1) /\ Live(log) \subseteq 1..n
  BY <1>1, <1>2 DEF Live
<1> QED BY <1>3, <1>9, <1>10, <1>11 DEF next, n

-----------------------------------------------------------------------------
(* The kind the pass tells of is the one a shell asks for.                 *)

LastUser(log, i)   == LastOf({j \in Live(log) : IsUser(log[j]) /\ j <= i})
LastSwitch(log, i) == LastOf({j \in Live(log) : log[j].type = "kind" /\ j <= i})
KindAt(log, k)     == IF k = 0 THEN BornKind(log) ELSE log[k].kind

\* told is the kind at his last message, switch the one no message carried.
ToldOk(log, st, i) ==
    /\ st.told = KindAt(log, LastOf({j \in Live(log) : log[j].type = "kind" /\ j < LastUser(log, i)}))
    /\ st.switch = IF LastSwitch(log, i) > LastUser(log, i) THEN LastSwitch(log, i) ELSE 0

\* Where the last switch and his last message stand.
LEMMA LastsAre ==
    ASSUME NEW log, Whole(log), NEW i \in 0..Len(log)
    PROVE  /\ LastUser(log, i) \in 0..i /\ LastSwitch(log, i) \in 0..i
           /\ LastSwitch(log, i) <= LastUser(log, i) =>
                 LastOf({j \in Live(log) : log[j].type = "kind" /\ j < LastUser(log, i)})
                     = LastSwitch(log, i)
<1> DEFINE U == {j \in Live(log) : IsUser(log[j]) /\ j <= i}
           S == {j \in Live(log) : log[j].type = "kind" /\ j <= i}
           u == LastUser(log, i)
           s == LastSwitch(log, i)
           K == {j \in Live(log) : log[j].type = "kind" /\ j < u}
<1>1. Len(log) \in Nat /\ DOMAIN log = 1..Len(log) /\ Live(log) \subseteq 1..Len(log) /\ i \in Nat
  BY WholeLog
<1>2. U \in SUBSET (1..i) /\ S \in SUBSET (1..i)
  BY <1>1
<1>3. u = LastOf(U) /\ s = LastOf(S)
  BY DEF LastUser, LastSwitch
<1>4. \A j \in U : IsUser(log[j])
  OBVIOUS
<1>5. \A j \in S : log[j].type = "kind" /\ j \in Live(log)
  OBVIOUS
<1>6. \A j \in Live(log) : log[j].type = "kind" /\ j <= i => j \in S
  OBVIOUS
<1> HIDE DEF U, S, u, s
<1>7. u \in 0..i /\ s \in 0..i
  BY <1>1, <1>2, <1>3, LastOfIs
<1>8. /\ U # {} => u \in U
      /\ U = {} => u = 0
      /\ \A j \in S : j <= s
  BY <1>1, <1>2, <1>3, LastOfIs
<1>9. ASSUME s <= u
      PROVE  K = S
  <2>1. \A j \in S : j \in Nat /\ j # u
    <3>1. u = 0 \/ IsUser(log[u])
      BY <1>4, <1>8
    <3> QED BY <1>2, <1>5, <3>1 DEF IsUser
  <2>2. \A j \in S : j < u
    BY <1>2, <1>7, <1>8, <1>9, <2>1
  <2>3. \A j \in K : j <= i
    BY <1>1, <1>7
  <2> QED BY <1>5, <1>6, <2>2, <2>3
<1>10. s <= u => LastOf(K) = s
  <2> HIDE DEF K
  <2> QED BY <1>3, <1>9
<1> QED BY <1>7, <1>10 DEF u, s

\* Only his messages and switches of kind bear on what is told.
LEMMA ToldStays ==
    ASSUME NEW log, NEW live, NEW elided, NEW removed, NEW i,
           NEW st \in [ms : Seq(Message), told : Kinds, switch : Nat],
           ~IsUser(log[i]), log[i].type # "kind"
    PROVE  /\ StepAt(log, live, elided, removed, st, i).told = st.told
           /\ StepAt(log, live, elided, removed, st, i).switch = st.switch
<1> DEFINE next == StepAt(log, live, elided, removed, st, i)
<1>1. /\ IsAssistant(log[i]) /\ ~log[i].stand_in =>
            next = [st EXCEPT !.ms =
                       Append(@, Msg("assistant", AssistantContent(log, live, elided, i)))]
      /\ log[i].type = "tool_result" => next = AnswerStep(log, elided, removed, st, i)
      /\ log[i].type = "compaction" =>
            next = [st EXCEPT !.ms =
                       << Msg("user", << [kind |-> "summary", src |-> i] >>) >>]
      /\ log[i].type \notin {"kind", "user_message", "assistant_message",
                             "tool_result", "compaction"} => next = st
      /\ IsAssistant(log[i]) /\ log[i].stand_in => next = st
  BY StepIs
<1> HIDE DEF next
<1>2. \A x : [st EXCEPT !.ms = x].told = st.told /\ [st EXCEPT !.ms = x].switch = st.switch
  OBVIOUS
<1>3. ASSUME log[i].type = "tool_result"
      PROVE  next.told = st.told /\ next.switch = st.switch
  <2>1. next = st \/ \E x : next = [st EXCEPT !.ms = x]
    <3>1. next = AnswerStep(log, elided, removed, st, i)
      BY <1>1, <1>3
    <3> QED BY <3>1 DEF AnswerStep
  <2> QED BY <1>2, <2>1
<1>4. \/ IsAssistant(log[i]) /\ ~log[i].stand_in
      \/ IsAssistant(log[i]) /\ log[i].stand_in
      \/ log[i].type = "tool_result"
      \/ log[i].type = "compaction"
      \/ log[i].type \notin {"kind", "user_message", "assistant_message", "tool_result", "compaction"}
  BY DEF IsUser, IsAssistant
<1> QED BY <1>1, <1>2, <1>3, <1>4 DEF next

LEMMA StepSwitch ==
    ASSUME NEW log, NEW live, NEW elided, NEW removed, NEW st, NEW i, log[i].type = "kind"
    PROVE  StepAt(log, live, elided, removed, st, i) = [st EXCEPT !.switch = i]
BY DEF StepAt, IsUser, IsAssistant

LEMMA StepKind ==
    ASSUME NEW log, NEW live, NEW elided, NEW removed, NEW i, log[i].type = "kind",
           NEW st \in [ms : Seq(Message), told : Kinds, switch : Nat]
    PROVE  /\ StepAt(log, live, elided, removed, st, i).told = st.told
           /\ StepAt(log, live, elided, removed, st, i).switch = i
<1>1. StepAt(log, live, elided, removed, st, i) = [st EXCEPT !.switch = i]
  BY StepSwitch
<1>2. [st EXCEPT !.switch = i].told = st.told /\ [st EXCEPT !.switch = i].switch = i
  OBVIOUS
<1> QED BY <1>1, <1>2

LEMMA StepUser ==
    ASSUME NEW log, NEW live, NEW elided, NEW removed, NEW st, NEW i, IsUser(log[i])
    PROVE  StepAt(log, live, elided, removed, st, i) = UserStep(log, live, elided, st, i)
BY DEF StepAt, IsUser, IsAssistant

LEMMA ToldStep ==
    ASSUME NEW log, Whole(log), NEW i \in 1..Len(log), i \in Live(log),
           NEW st \in [ms : Seq(Message), told : Kinds, switch : Nat], ToldOk(log, st, i - 1)
    PROVE  ToldOk(log, StepAt(log, Live(log), ElidedIn(log, Live(log)),
                              RemovedCalls(log, Live(log)), st, i), i)
<1> DEFINE elided == ElidedIn(log, Live(log))
           removed == RemovedCalls(log, Live(log))
           next == StepAt(log, Live(log), elided, removed, st, i)
           u == LastUser(log, i - 1)
           s == LastSwitch(log, i - 1)
           US(x) == {j \in Live(log) : IsUser(log[j]) /\ j <= x}
           SS(x) == {j \in Live(log) : log[j].type = "kind" /\ j <= x}
           KS(x) == {j \in Live(log) : log[j].type = "kind" /\ j < x}
<1>1. /\ Len(log) \in Nat /\ DOMAIN log = 1..Len(log) /\ Live(log) \subseteq 1..Len(log)
      /\ i \in Nat /\ i - 1 \in 0..Len(log) /\ i \in 0..Len(log)
  BY WholeLog
<1>2. /\ u \in 0..(i - 1) /\ s \in 0..(i - 1)
      /\ s <= u => LastOf(KS(u)) = s
  BY <1>1, LastsAre
<1>3. \A j \in Live(log) : j <= i <=> j <= i - 1 \/ j = i
  BY <1>1
<1>4. st.told = KindAt(log, LastOf(KS(u))) /\ st.switch = IF s > u THEN s ELSE 0
  BY DEF ToldOk
<1>5. CASE log[i].type = "kind"
  <2>1. next.told = st.told /\ next.switch = i
    BY <1>5, StepKind
  <2>2. US(i) = US(i - 1)
    BY <1>3, <1>5 DEF IsUser
  <2>3. LastUser(log, i) = u
    BY <2>2 DEF LastUser
  <2>4. LastSwitch(log, i) = i
    <3>1. SS(i) \in SUBSET (1..i) /\ i \in SS(i)
      BY <1>1, <1>5
    <3>2. LastOf(SS(i)) \in SS(i) /\ \A j \in SS(i) : j <= LastOf(SS(i))
      <4> HIDE DEF SS
      <4> QED BY <1>1, <3>1, LastOfIs
    <3>3. LastOf(SS(i)) = i
      BY <1>1, <3>1, <3>2
    <3> QED BY <3>3 DEF LastSwitch
  <2>5. i > u
    BY <1>1, <1>2
  <2> HIDE DEF next, u
  <2> QED BY <1>4, <2>3, <2>4, <2>5, <2>1 DEF ToldOk, next, u
<1>6. CASE IsUser(log[i])
  <2> DEFINE tell == st.switch # 0 /\ log[st.switch].kind # st.told
  <2>1. next = UserStep(log, Live(log), elided, st, i)
    BY <1>6, StepUser
  <2>2. next.told = (IF tell THEN log[st.switch].kind ELSE st.told) /\ next.switch = 0
    BY <2>1 DEF UserStep
  <2>3. LastUser(log, i) = i
    <3>1. US(i) \in SUBSET (1..i) /\ i \in US(i)
      BY <1>1, <1>6
    <3>2. LastOf(US(i)) \in US(i) /\ \A j \in US(i) : j <= LastOf(US(i))
      <4> HIDE DEF US
      <4> QED BY <1>1, <3>1, LastOfIs
    <3>3. LastOf(US(i)) = i
      BY <1>1, <3>1, <3>2
    <3> QED BY <3>3 DEF LastUser
  <2>4. SS(i) = SS(i - 1)
    BY <1>3, <1>6 DEF IsUser
  <2>5. LastSwitch(log, i) = s
    BY <2>4 DEF LastSwitch
  <2>6. KS(i) = SS(i - 1)
    BY <1>1
  <2>7. LastOf(KS(i)) = s
    BY <2>6 DEF LastSwitch
  <2>8. ~(s > i)
    BY <1>1, <1>2
  <2>9. next.told = KindAt(log, s)
    <3> HIDE DEF next, u, s
    <3>1. CASE s > u
      <4>1. st.switch = s /\ s # 0
        BY <1>2, <1>4, <3>1
      <4> QED BY <2>2, <4>1 DEF KindAt
    <3>2. CASE s <= u
      <4>1. ~(s > u) /\ st.switch = 0
        BY <1>1, <1>2, <1>4, <3>2
      <4>2. next.told = st.told
        BY <2>2, <4>1
      <4> QED BY <1>2, <1>4, <3>2, <4>2
    <3> QED BY <1>1, <1>2, <3>1, <3>2
  <2> HIDE DEF next
  <2>10. LastOf({j \in Live(log) : log[j].type = "kind" /\ j < LastUser(log, i)}) = s
    BY <2>3, <2>7
  <2>11. next.switch = IF LastSwitch(log, i) > LastUser(log, i) THEN LastSwitch(log, i) ELSE 0
    BY <2>2, <2>3, <2>5, <2>8
  <2> HIDE DEF s
  <2> QED BY <2>9, <2>10, <2>11 DEF ToldOk, next
<1>7. CASE ~IsUser(log[i]) /\ log[i].type # "kind"
  <2>1. next.told = st.told /\ next.switch = st.switch
    BY <1>7, ToldStays
  <2>2. US(i) = US(i - 1) /\ SS(i) = SS(i - 1)
    BY <1>3, <1>7
  <2>3. LastUser(log, i) = u /\ LastSwitch(log, i) = s
    BY <2>2 DEF LastUser, LastSwitch
  <2> HIDE DEF next, u, s
  <2> QED BY <1>4, <2>1, <2>3 DEF ToldOk, next
<1> QED BY <1>5, <1>6, <1>7

LEMMA ToldNotLive ==
    ASSUME NEW log, Whole(log), NEW i \in 1..Len(log), i \notin Live(log),
           NEW st, ToldOk(log, st, i - 1)
    PROVE  ToldOk(log, st, i)
<1>1. Live(log) \subseteq 1..Len(log) /\ Len(log) \in Nat
  BY WholeLog
<1>2. \A j \in Live(log) : j <= i <=> j <= i - 1
  BY <1>1
<1>3. LastUser(log, i) = LastUser(log, i - 1) /\ LastSwitch(log, i) = LastSwitch(log, i - 1)
  BY <1>2 DEF LastUser, LastSwitch
<1> QED BY <1>3 DEF ToldOk

LEMMA ToldAlong ==
    ASSUME NEW log, Whole(log)
    PROVE  \A i \in 0..Len(log) : ToldOk(log, PassOver(log)[i], i)
<1> DEFINE pass == PassOver(log)
           G == {i \in 0..Len(log) : ToldOk(log, pass[i], i)}
<1>1. Len(log) \in Nat /\ DOMAIN log = 1..Len(log) /\ Live(log) \subseteq 1..Len(log)
  BY WholeLog
<1>2. /\ pass[0] = [ms |-> << >>, told |-> BornKind(log), switch |-> 0]
      /\ \A i \in 1..Len(log) :
            pass[i] = IF i \in Live(log)
                      THEN StepAt(log, Live(log), ElidedIn(log, Live(log)),
                                  RemovedCalls(log, Live(log)), pass[i - 1], i)
                      ELSE pass[i - 1]
  BY <1>1, PassSteps
<1>3. \A i \in 0..Len(log) : pass[i] \in [ms : Seq(Message), told : Kinds, switch : Nat]
  BY PassIsOk DEF PassOk
<1> HIDE DEF pass
<1>4. ToldOk(log, pass[0], 0)
  <2>0. 0 \in 0..Len(log)
    BY <1>1
  <2>1. LastUser(log, 0) = 0 /\ LastSwitch(log, 0) = 0
    <3>1. LastUser(log, 0) \in 0..0 /\ LastSwitch(log, 0) \in 0..0
      BY <2>0, LastsAre
    <3> QED BY <3>1
  <2>2. LastOf({j \in Live(log) : log[j].type = "kind" /\ j < LastUser(log, 0)}) = 0
    <3>1. LastSwitch(log, 0) <= LastUser(log, 0)
      BY <2>1
    <3> QED BY <2>0, <2>1, <3>1, LastsAre
  <2> QED BY <1>2, <2>1, <2>2 DEF ToldOk, KindAt
<1>5. ASSUME NEW n \in 0..(Len(log) - 1), n \in G
      PROVE  n + 1 \in G
  <2>1. n + 1 \in 1..Len(log) /\ (n + 1) - 1 = n /\ n + 1 \in 0..Len(log) /\ n \in 0..Len(log)
    BY <1>1
  <2>2. ToldOk(log, pass[n], (n + 1) - 1) /\ pass[n] \in [ms : Seq(Message), told : Kinds, switch : Nat]
    BY <1>3, <1>5, <2>1
  <2>3. CASE n + 1 \in Live(log)
    BY <1>2, <2>1, <2>2, <2>3, ToldStep
  <2>4. CASE n + 1 \notin Live(log)
    <3>1. pass[n + 1] = pass[n]
      BY <1>2, <2>1, <2>4
    <3>2. ToldOk(log, pass[n], n + 1)
      BY <2>1, <2>2, <2>4, ToldNotLive
    <3> QED BY <2>1, <3>1, <3>2
  <2> QED BY <2>3, <2>4
<1>6. 0..Len(log) \subseteq G
  <2>1. 0 \in G
    BY <1>1, <1>4
  <2> HIDE DEF G
  <2> QED BY <1>1, <1>5, <2>1, UpTo
<1> QED BY <1>6 DEF pass

-----------------------------------------------------------------------------
(* The next request.                                                       *)

LEMMA ProjectIs ==
    ASSUME NEW log, Whole(log)
    PROVE  /\ Raw(log, ProjectRaw(log))
           /\ SoundList(ProjectRaw(log), Project(log))
           /\ WireValid(Project(log))
<1>1. Len(log) \in 0..Len(log)
  BY WholeLog
<1>2. Raw(log, ProjectRaw(log))
  BY <1>1, PassIsOk DEF PassOk, ProjectRaw
<1>3. SoundList(ProjectRaw(log), AnswerOrphanedCalls(ProjectRaw(log)))
  BY <1>2, RepairIsSound
<1>4. WireValid(AnswerOrphanedCalls(ProjectRaw(log)))
  BY <1>2, RepairIsValid
<1> QED BY <1>2, <1>3, <1>4 DEF Project

\* A message with a handle in it is a reply's, and the handle leads its call.
LEMMA HandlesAre ==
    ASSUME NEW log, Whole(log), NEW k \in DOMAIN Project(log),
           NEW n \in DOMAIN Project(log)[k].content,
           Project(log)[k].content[n].kind = "reasoning_ref"
    PROVE  LET c == Project(log)[k].content
               bs == log[c[n].src].blocks
           IN  Leads(bs) => n < Len(c) /\ IsCall(c[n + 1]) /\ c[n + 1].id \in Led(bs)
<1> DEFINE raw == ProjectRaw(log)
           m == Project(log)[k]
           c == m.content
<1>1. Raw(log, raw) /\ FromPass(raw, m)
  BY ProjectIs DEF SoundList
<1> HIDE DEF raw, m
<1>2. PICK j \in DOMAIN raw : m = raw[j]
  BY <1>1 DEF FromPass, Plain, m
<1>3. RawAt(log, raw, j)
  BY <1>1 DEF Raw
<1>4. PICK a \in DOMAIN log : IsAssistant(log[a]) /\ Carries(log, a, c)
  <2>1. ~Plain(c) /\ ~RoundAfter(raw, j)
    BY <1>2 DEF Plain, RoundAfter, m
  <2> QED BY <1>2, <1>3, <2>1 DEF RawAt
<1>5. c[n].src = a /\ (Leads(log[a].blocks) => LeadsIn(c, Led(log[a].blocks)))
  BY <1>4 DEF Carries, m
<1>6. Leads(log[a].blocks) => n < Len(c) /\ IsCall(c[n + 1]) /\ c[n + 1].id \in Led(log[a].blocks)
  BY <1>5 DEF LeadsIn, m
<1> QED BY <1>5, <1>6 DEF m

LEMMA HandlesLeadTheirCalls ==
    ASSUME Whole(events)
    PROVE  HandleLeadsItsCall
<1> DEFINE ms == Project(events)
<1> SUFFICES ASSUME NEW k \in DOMAIN ms, NEW n \in DOMAIN ms[k].content,
                    ms[k].content[n].kind = "reasoning_ref",
                    Led(events[ms[k].content[n].src].blocks) # {},
                    Cardinality(Refs(events[ms[k].content[n].src].blocks)) = 1
             PROVE  /\ n < Len(ms[k].content) /\ IsCall(ms[k].content[n + 1])
                    /\ ms[k].content[n + 1].id \in Led(events[ms[k].content[n].src].blocks)
  BY DEF HandleLeadsItsCall, HandlesLead, Led, Refs
<1> QED BY HandlesAre DEF Leads

\* His next message ends the request as it is, with the note in front that
\* the pass puts there.
LEMMA SaidIsLast ==
    ASSUME NEW log, Whole(log), NEW n, n = Len(log), IsUser(log[n]), n \in Live(log),
           NEW st, st = PassOver(log)[n - 1]
    PROVE  LET tell == st.switch # 0 /\ log[st.switch].kind # st.told
           IN  ToldIn(Project(log)) = IF tell THEN log[st.switch].kind ELSE "none"
<1> DEFINE elided == ElidedIn(log, Live(log))
           removed == RemovedCalls(log, Live(log))
           tell == st.switch # 0 /\ log[st.switch].kind # st.told
           note == IF tell THEN << [kind |-> "note", say |-> log[st.switch].kind,
                                    src |-> st.switch] >> ELSE << >>
           said == UserContent(log, Live(log), elided, n)
           raw == ProjectRaw(log)
           m == Msg("user", note \o said)
           out == Project(log)
<1>1. n \in Nat \ {0} /\ n \in 1..Len(log) /\ n - 1 \in 0..Len(log) /\ DOMAIN log = 1..n
      /\ Len(log) \in Nat
  BY WholeLog
<1>2. PassOk(log, st, n - 1)
  BY <1>1, PassIsOk
<1>3. /\ said \in Seq(WireBlock) \ {<< >>} /\ Plain(said)
      /\ \A k \in DOMAIN said : said[k].kind # "note"
  <2> HIDE DEF elided
  <2> QED BY <1>1, UserIs
<1>4. PassOver(log)[n] = UserStep(log, Live(log), elided, st, n)
  <2>1. PassOver(log)[n] = StepAt(log, Live(log), elided, removed, st, n)
    BY <1>1, PassSteps
  <2> HIDE DEF elided, removed
  <2> QED BY <2>1, StepUser
<1>5. raw = Append(st.ms, m)
  BY <1>4 DEF UserStep, ProjectRaw
<1>6. st.ms \in Seq(Message) /\ Raw(log, raw)
  BY <1>2, ProjectIs DEF PassOk
<1> HIDE DEF said
<1>7. /\ (note \o said) \in Seq([kind : {"note"}, say : {log[st.switch].kind}, src : {st.switch}] \cup WireBlock)
      /\ Plain(note \o said)
      /\ (note \o said)[1] = IF tell THEN note[1] ELSE said[1]
      /\ 1 \in DOMAIN said
  <2>1. CASE tell
    <3>1. note = << note[1] >> /\ note[1] = [kind |-> "note", say |-> log[st.switch].kind,
                                             src |-> st.switch]
      BY <2>1
    <3> DEFINE b == note[1]
    <3>2. b \in [kind : {"note"}, say : {log[st.switch].kind}, src : {st.switch}] /\ b.kind = "note"
      BY <3>1
    <3> HIDE DEF b
    <3>3. /\ (<< b >> \o said) \in Seq([kind : {"note"}, say : {log[st.switch].kind}, src : {st.switch}] \cup WireBlock)
          /\ (<< b >> \o said)[1] = b /\ 1 \in DOMAIN said
          /\ \A k \in DOMAIN (<< b >> \o said) : (<< b >> \o said)[k] = b \/ \E j \in DOMAIN said : (<< b >> \o said)[k] = said[j]
      BY <1>3, <3>2
    <3>4. Plain(<< b >> \o said)
      BY <1>3, <3>2, <3>3 DEF Plain
    <3>5. note \o said = << b >> \o said
      BY <3>1 DEF b
    <3> HIDE DEF note
    <3> QED BY <2>1, <3>3, <3>4, <3>5 DEF b
  <2>2. CASE ~tell
    <3>1. note = << >>
      BY <2>2
    <3>2. << >> \o said = said /\ 1 \in DOMAIN said
      BY <1>3
    <3>3. said \in Seq([kind : {"note"}, say : {log[st.switch].kind}, src : {st.switch}] \cup WireBlock)
      BY <1>3
    <3> HIDE DEF note
    <3> QED BY <1>3, <2>2, <3>1, <3>2, <3>3
  <2> QED BY <2>1, <2>2
<1>8. m.role = "user" /\ m.content = note \o said
  <2> DEFINE c == note \o said
  <2> HIDE DEF c
  <2>1. Msg("user", c).role = "user" /\ Msg("user", c).content = c
    BY MsgIs
  <2> QED BY <2>1 DEF c
<1> HIDE DEF note, m, raw, tell
<1>9. raw # << >> /\ Len(raw) \in DOMAIN raw /\ raw[Len(raw)] = m
  <2>1. Append(st.ms, m)[Len(st.ms) + 1] = m /\ Len(Append(st.ms, m)) = Len(st.ms) + 1
        /\ Len(st.ms) \in Nat
    BY <1>6
  <2> QED BY <1>5, <1>6, <2>1
<1>10. ~IsRound(m)
  <2>1. ResultIds(m) = {}
    BY <1>7, <1>8 DEF ResultIds, Plain
  <2> QED BY <2>1 DEF IsRound
<1>11. ~NoRound(raw, Len(raw)) /\ WithRepairs(raw, Len(raw)) = m
  <2>1. Missing(raw, Len(raw)) = << >>
    BY <1>6, <1>8, <1>9, MissingIs
  <2> QED BY <1>9, <1>10, <2>1 DEF NoRound, WithRepairs
<1>12. out[Len(out)] = m
  <2>1. EndsIn(raw, Len(raw), AnswerOrphanedCalls(raw))
    BY <1>6, <1>9, RepairIsSound
  <2> QED BY <1>11, <2>1 DEF EndsIn, Project, raw
<1>13. ToldIn(out) = IF (note \o said)[1].kind = "note" THEN (note \o said)[1].say ELSE "none"
  BY <1>8, <1>12 DEF ToldIn
<1>14. tell => note[1].kind = "note" /\ note[1].say = log[st.switch].kind
  BY DEF note, tell
<1>15. said[1].kind # "note"
  BY <1>3, <1>7
<1>16. ToldIn(out) = IF tell THEN log[st.switch].kind ELSE "none"
  BY <1>7, <1>13, <1>14, <1>15
<1> QED BY <1>16 DEF tell

LEMMA NoteIs ==
    ASSUME Whole(events)
    PROVE  NoteIsTheProjections
<1> DEFINE e == UserMsg("said", 0)
           log == Append(events, e)
           n == Len(events) + 1
           st == PassOver(log)[n - 1]
           us == {i \in Live(events) : IsUser(events[i])}
           ks == {i \in Live(events) : events[i].type = "kind"}
           u == LastOf(us)
           s == LastOf(ks)
           k == LastOf({i \in Live(events) : events[i].type = "kind" /\ i < u})
<1>1. /\ Len(events) \in Nat \ {0} /\ DOMAIN events = 1..Len(events)
      /\ Live(events) \subseteq 1..Len(events) /\ events \in Seq(Entry)
  BY WholeLog DEF Whole
<1>2. Whole(log)
  BY WholeSaid
<1>3. e.type = "user_message" /\ e \in Entry
  BY DEF UserMsg, Entry
<1>4. Live(log) = Live(events) \cup {n}
  <2> HIDE DEF e
  <2> QED BY <1>1, <1>3, LiveAppend
<1>5. Len(log) = n /\ log[n] = e /\ \A i \in 1..Len(events) : log[i] = events[i]
  <2> HIDE DEF e
  <2> QED BY <1>1
<1>6. IsUser(log[n]) /\ n \in Live(log) /\ n - 1 = Len(events) /\ n - 1 \in 0..Len(log)
  BY <1>1, <1>3, <1>4, <1>5 DEF IsUser
<1> HIDE DEF e, log
<1>7. ToldIn(Project(log)) = IF st.switch # 0 /\ log[st.switch].kind # st.told
                             THEN log[st.switch].kind ELSE "none"
  BY <1>2, <1>5, <1>6, SaidIsLast
<1>8. ToldOk(log, st, n - 1)
  BY <1>2, <1>6, ToldAlong
<1> HIDE DEF st
<1>9. {j \in Live(log) : IsUser(log[j]) /\ j <= n - 1} = us
  BY <1>1, <1>4, <1>5
<1>10. {j \in Live(log) : log[j].type = "kind" /\ j <= n - 1} = ks
  BY <1>1, <1>4, <1>5
<1>11. LastUser(log, n - 1) = u /\ LastSwitch(log, n - 1) = s
  BY <1>9, <1>10 DEF LastUser, LastSwitch
<1>12. u \in 0..Len(events) /\ s \in 0..Len(events)
  <2>1. us \in SUBSET (1..Len(events)) /\ ks \in SUBSET (1..Len(events))
    BY <1>1
  <2> HIDE DEF us, ks
  <2> QED BY <1>1, <2>1, LastOfIs
<1> HIDE DEF u
<1>13. {j \in Live(log) : log[j].type = "kind" /\ j < u} = {i \in Live(events) : events[i].type = "kind" /\ i < u}
  BY <1>1, <1>4, <1>5, <1>12
<1>14. k \in 0..Len(events)
  <2>1. {i \in Live(events) : events[i].type = "kind" /\ i < u} \in SUBSET (1..Len(events))
    BY <1>1
  <2> QED BY <1>1, <2>1, LastOfIs
<1>15. s <= u => k = s
  <2>1. s <= u => LastOf({j \in Live(log) : log[j].type = "kind" /\ j < u}) = s
    BY <1>2, <1>6, <1>11, LastsAre
  <2> QED BY <1>13, <2>1
<1>16. Kind(events) = KindAt(events, s)
  BY DEF Kind, KindAt
<1>17. KindSwitchNote(events) = IF KindAt(events, k) # Kind(events) THEN Kind(events) ELSE "none"
  BY DEF KindSwitchNote, KindAt, u
<1> HIDE DEF k, s
<1>18. st.told = KindAt(log, k) /\ st.switch = IF s > u THEN s ELSE 0
  BY <1>8, <1>11, <1>13 DEF ToldOk, k
<1>19. \A x \in 0..Len(events) : KindAt(log, x) = KindAt(events, x)
  BY <1>1, <1>5 DEF KindAt, BornKind
<1>20. CASE s > u
  <2>1. st.switch = s /\ s # 0
    BY <1>12, <1>18, <1>20
  <2>2. log[s].kind = Kind(events) /\ st.told = KindAt(events, k)
    BY <1>12, <1>14, <1>16, <1>18, <1>19, <2>1 DEF KindAt
  <2> QED BY <1>7, <1>17, <2>1, <2>2 DEF NoteIsTheProjections, log, e
<1>21. CASE ~(s > u)
  <2>1. s <= u /\ st.switch = 0
    BY <1>12, <1>18, <1>21
  <2>2. KindAt(events, k) = Kind(events)
    BY <1>15, <1>16, <2>1
  <2> QED BY <1>7, <1>17, <2>1, <2>2 DEF NoteIsTheProjections, log, e
<1> QED BY <1>20, <1>21

\* Whatever was rewound, restored, removed, reworded or cut short, the next
\* request is one a provider accepts, its handles lead their calls and its
\* note tells of the kind a shell would ask for (session.rs, project_sourced).
THEOREM RequestsAreRight == Spec => []NextRequestIsRight
<1>1. LogInv => NextRequestIsRight
  BY WholeLogInv, ProjectIs, HandlesLeadTheirCalls, NoteIs
       DEF NextRequestIsRight, ReplayIsValid
<1> QED BY <1>1, LogIsWhole, PTL

-----------------------------------------------------------------------------
(* Two logs of which one only adds markers that come to nothing send the   *)
(* same.                                                                   *)

Agree(A, B) ==
    /\ Len(A) \in Nat /\ Len(B) <= Len(A) /\ DOMAIN A = 1..Len(A)
    /\ \A i \in 1..Len(B) : A[i] = B[i]
    /\ \A i \in 1..Len(B) : i \in Live(A) <=> i \in Live(B)
    /\ \A i \in Live(A) : i \notin 1..Len(B) => A[i].type \in {"elide", "unelide"}
    /\ \A i \in 1..Len(B), b \in Nat :
          RemovedAt(A, Live(A), i, b) <=> RemovedAt(B, Live(B), i, b)

LEMMA AgreeEdits ==
    ASSUME NEW A, NEW B, Whole(B), Agree(A, B), NEW i, NEW b
    PROVE  /\ EditAt(A, Live(A), i, b) = EditAt(B, Live(B), i, b)
           /\ FilesEditAt(A, Live(A), i) = FilesEditAt(B, Live(B), i)
           /\ EditAt(B, Live(B), i, b) \in 0..Len(B)
           /\ FilesEditAt(B, Live(B), i) \in 0..Len(B)
<1>1. Len(B) \in Nat /\ Live(B) \subseteq 1..Len(B)
  BY WholeLog
<1>2. \A j : j \in Live(A) /\ A[j].type = "edit" <=> j \in Live(B) /\ B[j].type = "edit"
  BY <1>1 DEF Agree
<1>3. \A j \in Live(B) : A[j] = B[j]
  BY <1>1 DEF Agree
<1>4. {j \in Live(A) : A[j].type = "edit" /\ A[j].target = i /\ A[j].block = b}
          = {j \in Live(B) : B[j].type = "edit" /\ B[j].target = i /\ B[j].block = b}
  BY <1>2, <1>3
<1>5. {j \in Live(A) : A[j].type = "edit" /\ A[j].target = i /\ A[j].files # KeepFiles}
          = {j \in Live(B) : B[j].type = "edit" /\ B[j].target = i /\ B[j].files # KeepFiles}
  BY <1>2, <1>3
<1>6. {j \in Live(B) : B[j].type = "edit" /\ B[j].target = i /\ B[j].block = b} \in SUBSET (1..Len(B))
  BY <1>1
<1>7. {j \in Live(B) : B[j].type = "edit" /\ B[j].target = i /\ B[j].files # KeepFiles}
          \in SUBSET (1..Len(B))
  BY <1>1
<1>8. EditAt(B, Live(B), i, b) \in 0..Len(B)
  BY <1>1, <1>6, LastOfIs DEF EditAt
<1>9. FilesEditAt(B, Live(B), i) \in 0..Len(B)
  BY <1>1, <1>7, LastOfIs DEF FilesEditAt
<1> QED BY <1>4, <1>5, <1>8, <1>9 DEF EditAt, FilesEditAt

LEMMA AgreeGone ==
    ASSUME NEW A, NEW B, Whole(B), Agree(A, B), NEW i \in 1..Len(B)
    PROVE  /\ GoneIn(A, Live(A), i) = GoneIn(B, Live(B), i)
           /\ i \in ElidedIn(A, Live(A)) <=> i \in ElidedIn(B, Live(B))
<1>1. i \in DOMAIN A /\ i \in DOMAIN B /\ A[i] = B[i]
  BY WholeLog DEF Agree
<1>2. \A b \in Nat : RemovedAt(A, Live(A), i, b) <=> RemovedAt(B, Live(B), i, b)
  BY DEF Agree
<1>3. IsAssistant(B[i]) => \A b \in DOMAIN B[i].blocks : b \in Nat
  BY <1>1, WholeLog
<1> QED BY <1>1, <1>2, <1>3 DEF GoneIn, ElidedIn

LEMMA AgreeRemoved ==
    ASSUME NEW A, NEW B, Whole(B), Agree(A, B)
    PROVE  RemovedCalls(A, Live(A)) = RemovedCalls(B, Live(B))
<1> DEFINE Out(log, live, i) ==
              {log[i].blocks[b].id : b \in {n \in GoneIn(log, live, i) : IsCall(log[i].blocks[n])}}
<1>1. Live(B) \subseteq 1..Len(B)
  BY WholeLog
<1>2. \A i \in 1..Len(B) : A[i] = B[i] /\ GoneIn(A, Live(A), i) = GoneIn(B, Live(B), i)
  BY AgreeGone DEF Agree
<1>3. \A i \in 1..Len(B) : Out(A, Live(A), i) = Out(B, Live(B), i)
  BY <1>2
<1>4. \A i \in Live(A) : i \notin 1..Len(B) => Out(A, Live(A), i) = {}
  BY DEF Agree, GoneIn, IsAssistant
<1>5. \A i \in 1..Len(B) : i \in Live(A) <=> i \in Live(B)
  BY DEF Agree
<1> HIDE DEF Out
<1>6. UNION {Out(A, Live(A), i) : i \in Live(A)} = UNION {Out(B, Live(B), i) : i \in Live(B)}
  BY <1>1, <1>3, <1>4, <1>5
<1> QED BY <1>6 DEF RemovedCalls, Out

\* A reply without what was taken out of it, s its blocks as they read now.
Pruned(bs, gone, s, i) ==
    LET kept == {n \in DOMAIN bs : n \notin gone /\ ~LeadsRemovedCall(bs, gone, n)}
        out  == Sift(s, kept)
        full == IF gone # {} /\ ~\E k \in DOMAIN out : IsText(out[k]) \/ IsCall(out[k])
                THEN Append(out, Marker(i)) ELSE out
        spoken == Sift(full, {k \in DOMAIN full : full[k].kind # "narrative"})
    IN  IF spoken = << >> /\ full # << >>
        THEN << [kind |-> "omitted", src |-> i] >> ELSE spoken

LEMMA PrunedIs ==
    ASSUME NEW log, NEW live, NEW i
    PROVE  EditAssistant(log, live, i)
               = Pruned(log[i].blocks, GoneIn(log, live, i),
                        [n \in DOMAIN log[i].blocks |-> EditedBlock(log, live, i, n)], i)
BY DEF EditAssistant, Pruned

LEMMA AgreeReply ==
    ASSUME NEW A, NEW B, Whole(B), Agree(A, B), NEW i \in 1..Len(B), IsAssistant(B[i])
    PROVE  AssistantContent(A, Live(A), ElidedIn(A, Live(A)), i)
               = AssistantContent(B, Live(B), ElidedIn(B, Live(B)), i)
<1>1. A[i] = B[i] /\ GoneIn(A, Live(A), i) = GoneIn(B, Live(B), i)
      /\ (i \in ElidedIn(A, Live(A)) <=> i \in ElidedIn(B, Live(B)))
  BY AgreeGone DEF Agree
<1>2. ASSUME NEW n
      PROVE  EditedBlock(A, Live(A), i, n) = EditedBlock(B, Live(B), i, n)
  <2>1. EditAt(A, Live(A), i, n) = EditAt(B, Live(B), i, n) /\ EditAt(B, Live(B), i, n) \in 0..Len(B)
    BY AgreeEdits
  <2>2. EditAt(B, Live(B), i, n) # 0 => A[EditAt(B, Live(B), i, n)] = B[EditAt(B, Live(B), i, n)]
    BY <2>1, WholeLog DEF Agree
  <2> QED BY <1>1, <2>1, <2>2 DEF EditedBlock
<1>3. [n \in DOMAIN A[i].blocks |-> EditedBlock(A, Live(A), i, n)]
          = [n \in DOMAIN B[i].blocks |-> EditedBlock(B, Live(B), i, n)]
  BY <1>1, <1>2
<1>4. EditAssistant(A, Live(A), i) = EditAssistant(B, Live(B), i)
  <2> DEFINE sa == [n \in DOMAIN A[i].blocks |-> EditedBlock(A, Live(A), i, n)]
             sb == [n \in DOMAIN B[i].blocks |-> EditedBlock(B, Live(B), i, n)]
  <2>1. /\ EditAssistant(A, Live(A), i) = Pruned(A[i].blocks, GoneIn(A, Live(A), i), sa, i)
        /\ EditAssistant(B, Live(B), i) = Pruned(B[i].blocks, GoneIn(B, Live(B), i), sb, i)
    BY PrunedIs
  <2>2. sa = sb
    BY <1>3
  <2> HIDE DEF sa, sb
  <2> QED BY <1>1, <2>1, <2>2
<1>5. ElideAssistant(A, Live(A), i) = ElideAssistant(B, Live(B), i)
  BY <1>1 DEF ElideAssistant
<1> QED BY <1>1, <1>4, <1>5 DEF AssistantContent

LEMMA AgreeUser ==
    ASSUME NEW A, NEW B, Whole(B), Agree(A, B), NEW i \in 1..Len(B)
    PROVE  UserContent(A, Live(A), ElidedIn(A, Live(A)), i)
               = UserContent(B, Live(B), ElidedIn(B, Live(B)), i)
<1> DEFINE e == EditAt(B, Live(B), i, 0)
           f == FilesEditAt(B, Live(B), i)
<1>1. A[i] = B[i] /\ (i \in ElidedIn(A, Live(A)) <=> i \in ElidedIn(B, Live(B)))
  BY AgreeGone DEF Agree
<1>2. /\ EditAt(A, Live(A), i, 0) = e /\ FilesEditAt(A, Live(A), i) = f
      /\ e \in 0..Len(B) /\ f \in 0..Len(B)
  BY AgreeEdits
<1> HIDE DEF e, f
<1>3. (e # 0 => A[e] = B[e]) /\ (f # 0 => A[f] = B[f])
  BY <1>2, WholeLog DEF Agree
<1>4. EditAt(B, Live(B), i, 0) = e /\ FilesEditAt(B, Live(B), i) = f
  BY DEF e, f
<1> QED BY <1>1, <1>2, <1>3, <1>4 DEF UserContent

LEMMA AgreeStep ==
    ASSUME NEW A, NEW B, Whole(B), Agree(A, B), NEW i \in 1..Len(B), NEW st,
           st.switch # 0 => st.switch \in DOMAIN B
    PROVE  StepAt(A, Live(A), ElidedIn(A, Live(A)), RemovedCalls(A, Live(A)), st, i)
               = StepAt(B, Live(B), ElidedIn(B, Live(B)), RemovedCalls(B, Live(B)), st, i)
<1> DEFINE EA == ElidedIn(A, Live(A))
           EB == ElidedIn(B, Live(B))
           R  == RemovedCalls(B, Live(B))
<1>1. A[i] = B[i] /\ (i \in EA <=> i \in EB) /\ RemovedCalls(A, Live(A)) = R
  BY AgreeGone, AgreeRemoved DEF Agree
<1>2. st.switch # 0 => A[st.switch] = B[st.switch]
  BY WholeLog DEF Agree
<1>3. UserContent(A, Live(A), EA, i) = UserContent(B, Live(B), EB, i)
  BY AgreeUser
<1>4. IsAssistant(B[i]) => AssistantContent(A, Live(A), EA, i) = AssistantContent(B, Live(B), EB, i)
  BY AgreeReply
<1> HIDE DEF EA, EB, R
<1>5. UserStep(A, Live(A), EA, st, i) = UserStep(B, Live(B), EB, st, i)
  BY <1>2, <1>3 DEF UserStep
<1>6. AnswerStep(A, EA, R, st, i) = AnswerStep(B, EB, R, st, i)
  BY <1>1 DEF AnswerStep
<1>7. StepAt(A, Live(A), EA, R, st, i) = StepAt(B, Live(B), EB, R, st, i)
  BY <1>1, <1>4, <1>5, <1>6 DEF StepAt
<1> QED BY <1>1, <1>7 DEF EA, EB, R

LEMMA AgreePass ==
    ASSUME NEW A, NEW B, Whole(B), Agree(A, B)
    PROVE  \A i \in 0..Len(B) : PassOver(A)[i] = PassOver(B)[i]
<1> DEFINE pa == PassOver(A)
           pb == PassOver(B)
           G == {i \in 0..Len(B) : pa[i] = pb[i]}
<1>1. Len(B) \in Nat \ {0} /\ DOMAIN B = 1..Len(B) /\ Len(A) \in Nat /\ Len(B) <= Len(A)
  BY WholeLog DEF Agree
<1>2. /\ pa[0] = [ms |-> << >>, told |-> BornKind(A), switch |-> 0]
      /\ \A i \in 1..Len(A) :
            pa[i] = IF i \in Live(A)
                    THEN StepAt(A, Live(A), ElidedIn(A, Live(A)), RemovedCalls(A, Live(A)), pa[i - 1], i)
                    ELSE pa[i - 1]
  BY <1>1, PassSteps
<1>3. /\ pb[0] = [ms |-> << >>, told |-> BornKind(B), switch |-> 0]
      /\ \A i \in 1..Len(B) :
            pb[i] = IF i \in Live(B)
                    THEN StepAt(B, Live(B), ElidedIn(B, Live(B)), RemovedCalls(B, Live(B)), pb[i - 1], i)
                    ELSE pb[i - 1]
  BY <1>1, PassSteps
<1>4. \A i \in 0..Len(B) : pb[i].switch # 0 => pb[i].switch \in DOMAIN B
  BY PassIsOk DEF PassOk
<1> HIDE DEF pa, pb
<1>5. 0 \in G
  <2>1. A[1] = B[1]
    BY <1>1 DEF Agree
  <2> QED BY <1>1, <1>2, <1>3, <2>1 DEF BornKind
<1>6. ASSUME NEW n \in 0..(Len(B) - 1), n \in G
      PROVE  n + 1 \in G
  <2>1. n + 1 \in 1..Len(B) /\ (n + 1) - 1 = n /\ n + 1 \in 1..Len(A) /\ n \in 0..Len(B)
        /\ n + 1 \in 0..Len(B)
    BY <1>1
  <2>2. pa[n] = pb[n] /\ (n + 1 \in Live(A) <=> n + 1 \in Live(B))
    BY <1>6, <2>1 DEF Agree
  <2>3. StepAt(A, Live(A), ElidedIn(A, Live(A)), RemovedCalls(A, Live(A)), pb[n], n + 1)
            = StepAt(B, Live(B), ElidedIn(B, Live(B)), RemovedCalls(B, Live(B)), pb[n], n + 1)
    BY <1>4, <2>1, AgreeStep
  <2>4. pa[n + 1] = pb[n + 1]
    BY <1>2, <1>3, <2>1, <2>2, <2>3
  <2> QED BY <2>1, <2>4
<1>7. 0..Len(B) \subseteq G
  <2> HIDE DEF G
  <2> QED BY <1>1, <1>5, <1>6, UpTo
<1> QED BY <1>7 DEF pa, pb

LEMMA StepNone ==
    ASSUME NEW log, NEW live, NEW elided, NEW removed, NEW st, NEW i,
           log[i].type \in {"elide", "unelide"}
    PROVE  StepAt(log, live, elided, removed, st, i) = st
BY DEF StepAt, IsUser, IsAssistant

\* The markers past the end of the shorter log add no message.
LEMMA AgreeProject ==
    ASSUME NEW A, NEW B, Whole(B), Agree(A, B)
    PROVE  Project(A) = Project(B)
<1> DEFINE pa == PassOver(A)
           m == Len(B)
           G == {n \in 0..(Len(A) - m) : pa[m + n] = pa[m]}
<1>1. m \in Nat /\ Len(A) \in Nat /\ m <= Len(A) /\ Len(A) - m \in Nat
  BY WholeLog DEF Agree
<1>2. \A i \in 1..Len(A) :
          pa[i] = IF i \in Live(A)
                  THEN StepAt(A, Live(A), ElidedIn(A, Live(A)), RemovedCalls(A, Live(A)), pa[i - 1], i)
                  ELSE pa[i - 1]
  BY <1>1, PassSteps
<1>3. pa[m] = PassOver(B)[m]
  BY <1>1, AgreePass
<1> HIDE DEF pa, m
<1>4. ASSUME NEW n \in 0..((Len(A) - m) - 1), n \in G
      PROVE  n + 1 \in G
  <2>1. m + n + 1 \in 1..Len(A) /\ (m + n + 1) - 1 = m + n /\ m + n + 1 \notin 1..m
        /\ m + (n + 1) = m + n + 1 /\ n + 1 \in 0..(Len(A) - m)
    BY <1>1
  <2>2. m + n + 1 \in Live(A) => A[m + n + 1].type \in {"elide", "unelide"}
    BY <2>1 DEF Agree, m
  <2>3. m + n + 1 \in Live(A) =>
            StepAt(A, Live(A), ElidedIn(A, Live(A)), RemovedCalls(A, Live(A)), pa[m + n], m + n + 1)
                = pa[m + n]
    BY <2>2, StepNone
  <2>4. pa[m + n + 1] = pa[m + n]
    BY <1>2, <2>1, <2>3
  <2> QED BY <1>4, <2>1, <2>4
<1>5. 0..(Len(A) - m) \subseteq G
  <2>1. 0 \in G
    BY <1>1
  <2> HIDE DEF G
  <2> QED BY <1>1, <1>4, <2>1, UpTo
<1>6. pa[Len(A)] = pa[m]
  <2>2. Len(A) - m \in 0..(Len(A) - m) /\ m + (Len(A) - m) = Len(A)
    BY <1>1
  <2>1. Len(A) - m \in G
    <3> HIDE DEF G
    <3> QED BY <1>5, <2>2
  <2> QED BY <2>1, <2>2
<1>7. ProjectRaw(A) = ProjectRaw(B)
  BY <1>3, <1>6 DEF ProjectRaw, pa, m
<1> QED BY <1>7 DEF Project

-----------------------------------------------------------------------------
(* What is undone at once.                                                 *)

\* A rewind and the marker that lifts it leave live what was live before.
LEMMA LiftedAtOnce ==
    ASSUME NEW log, Whole(log), NEW r, r = Len(log), log[r].type = "rewind"
    PROVE  Whole(SubSeq(log, 1, r - 1))
           /\ Agree(Append(log, UnrewindOf(r)), SubSeq(log, 1, r - 1))
<1> DEFINE e == UnrewindOf(r)
           A == Append(log, e)
           B == SubSeq(log, 1, r - 1)
<1>1. r \in Nat \ {0} /\ DOMAIN log = 1..r /\ log \in Seq(Entry)
  BY WholeLog DEF Whole
<1>2. r # 1
  BY DEF Whole
<1>3. e.type = "unrewind" /\ e.of = r
  BY DEF UnrewindOf
<1> HIDE DEF e
<1>4. /\ Len(A) = r + 1 /\ DOMAIN A = 1..(r + 1) /\ A[r + 1] = e
      /\ \A i \in 1..r : A[i] = log[i]
  BY <1>1
<1>5. /\ B \in Seq(Entry) /\ Len(B) = r - 1 /\ DOMAIN B = 1..(r - 1)
      /\ \A i \in 1..(r - 1) : B[i] = log[i]
  BY <1>1
<1> HIDE DEF A, B
<1>6. Whole(B)
  <2>1. ASSUME NEW i \in 1..(r - 1) PROVE PointsBack(B, i) /\ Fits(B, i)
    <3>1. i \in Nat \ {0} /\ (\A k \in 1..i : B[k] = log[k]) /\ i \in DOMAIN log
      BY <1>1, <1>5
    <3> QED BY <3>1, PointsHere, FitsHere DEF Whole
  <2>2. B # << >> /\ B[1] = log[1]
    BY <1>1, <1>2, <1>5
  <2> QED BY <1>5, <2>1, <2>2 DEF Whole
<1>7. \A i \in 1..(r + 1) : i \in 1..(r - 1) \/ i = r \/ i = r + 1
  BY <1>1
<1>8. \A i \in 1..(r - 1) : i \in 1..(r + 1) /\ i \in 1..r
  BY <1>1
<1>9. r \in 1..r /\ r \in 1..(r + 1) /\ r + 1 \in 1..(r + 1) /\ r + 1 # r /\ r \notin 1..(r - 1)
  BY <1>1
<1>20. /\ \A i \in DOMAIN B : i \in DOMAIN A /\ A[i] = B[i]
       /\ \A i \in DOMAIN A : A[i].type # "unrewind" /\ A[i].type # "rewind" => i \in DOMAIN B
       /\ \A i \in DOMAIN A : i \in DOMAIN B \/ i = r \/ i = r + 1
  BY <1>3, <1>4, <1>5, <1>7, <1>8, <1>9
<1>10. Lifted(A) = Lifted(B) \cup {r}
  <2>1. Lifted(A) \subseteq Lifted(B) \cup {r}
    <3>1. \A i \in DOMAIN A : A[i].type = "unrewind" => A[i].of = r \/ i \in 1..(r - 1)
      BY <1>3, <1>4, <1>7
    <3>2. \A i \in 1..(r - 1) : i \in DOMAIN B /\ A[i] = B[i]
      BY <1>4, <1>5, <1>8
    <3> QED BY <3>1, <3>2 DEF Lifted
  <2>2. Lifted(B) \subseteq Lifted(A)
    BY <1>20 DEF Lifted
  <2>3. r \in Lifted(A)
    BY <1>3, <1>4, <1>9 DEF Lifted
  <2> QED BY <2>1, <2>2, <2>3
<1>11. r \notin Lifted(B)
  <2>1. \A i \in DOMAIN B : B[i].type = "unrewind" => B[i].of \in 1..(i - 1)
    BY <1>6 DEF Whole, PointsBack
  <2> QED BY <1>1, <1>5, <2>1 DEF Lifted
<1>12. Standing(A) = Standing(B)
  <2>1. Standing(A) \subseteq Standing(B)
    BY <1>3, <1>4, <1>5, <1>7, <1>8, <1>10 DEF Standing
  <2>2. Standing(B) \subseteq Standing(A)
    BY <1>4, <1>5, <1>8, <1>9, <1>10 DEF Standing
  <2> QED BY <2>1, <2>2
<1>21. \A x \in Standing(B) : A[x] = B[x]
  BY <1>20 DEF Standing
<1>13. Live(A) = Live(B)
  <2>1. Live(A) \subseteq Live(B)
    BY <1>12, <1>20, <1>21 DEF Live
  <2>2. Live(B) \subseteq Live(A)
    BY <1>12, <1>20, <1>21 DEF Live
  <2> QED BY <2>1, <2>2
<1>14. Live(B) \subseteq 1..(r - 1) /\ \A i \in Live(B) : A[i] = B[i]
  BY <1>4, <1>5, <1>8 DEF Live
<1>15. \A i, b : RemovedAt(A, Live(A), i, b) <=> RemovedAt(B, Live(B), i, b)
  BY <1>13, <1>14 DEF RemovedAt
<1>16. Agree(A, B)
  BY <1>1, <1>4, <1>5, <1>8, <1>13, <1>14, <1>15 DEF Agree
<1> QED BY <1>6, <1>16 DEF A, B, e

\* A rewind lifted at once puts back exactly the conversation it took
\* (session.rs, unrewind and the liveness it restores).
THEOREM LiftingUndoes == Spec => []UnrewindUndoesRewind
<1>1. LogInv => UnrewindUndoesRewind
  BY WholeLogInv, LiftedAtOnce, AgreeProject DEF UnrewindUndoesRewind
<1> QED BY <1>1, LogIsWhole, PTL

\* A removal and the restoring of it come to nothing.
LEMMA RestoredAtOnce ==
    ASSUME NEW log, Whole(log), NEW i \in DOMAIN log, NEW b \in Nat,
           ~RemovedAt(log, Live(log), i, b)
    PROVE  Agree(log \o << ElideOf({i}, b), UnelideOf({i}, b) >>, log)
<1> DEFINE e == ElideOf({i}, b)
           u == UnelideOf({i}, b)
           A == log \o << e, u >>
           n == Len(log)
<1>1. n \in Nat \ {0} /\ DOMAIN log = 1..n /\ log \in Seq(Entry) /\ i \in Nat
  BY WholeLog DEF Whole
<1>2. /\ e \in Entry /\ u \in Entry /\ e.type = "elide" /\ u.type = "unelide"
      /\ e.targets = {i} /\ u.targets = {i} /\ e.block = b /\ u.block = b
  BY <1>1 DEF ElideOf, UnelideOf, Entry, Event
<1> HIDE DEF e, u
<1>3. A = Append(Append(log, e), u) /\ Append(log, e) \in Seq(Entry) /\ Len(Append(log, e)) = n + 1
  BY <1>1, <1>2
<1>4. Live(Append(log, e)) = Live(log) \cup {n + 1}
  BY <1>1, <1>2, LiveAppend
<1>5. Live(Append(Append(log, e), u)) = Live(Append(log, e)) \cup {(n + 1) + 1}
  <2> DEFINE l == Append(log, e)
  <2>1. l \in Seq(Entry) /\ Len(l) = n + 1
    BY <1>3
  <2> HIDE DEF l
  <2>2. Live(Append(l, u)) = Live(l) \cup {(n + 1) + 1}
    BY <1>2, <2>1, LiveAppend
  <2> QED BY <2>2 DEF l
<1>6. /\ Len(A) = n + 2 /\ DOMAIN A = 1..(n + 2) /\ A[n + 1] = e /\ A[n + 2] = u
      /\ \A k \in 1..n : A[k] = log[k]
  BY <1>1, <1>2
<1>7. Live(A) = Live(log) \cup {n + 1, n + 2}
  <2>1. (n + 1) + 1 = n + 2
    BY <1>1
  <2>2. Live(A) = Live(Append(Append(log, e), u))
    BY <1>3
  <2> HIDE DEF A, n
  <2> QED BY <1>4, <1>5, <2>1, <2>2
<1> HIDE DEF A, n
<1>8. Live(log) \subseteq 1..n
  BY <1>1 DEF Live
<1>9. \A k \in 1..n : k # n + 1 /\ k # n + 2 /\ k < n + 1 /\ k < n + 2
  BY <1>1
<1>10. \A k \in Live(log) : A[k] = log[k] /\ k < n + 1 /\ k < n + 2
  BY <1>6, <1>8, <1>9
<1>11. n + 1 < n + 2 /\ n + 1 # n + 2
  BY <1>1
<1>12. ASSUME NEW x \in 1..n, NEW c \in Nat
       PROVE  RemovedAt(A, Live(A), x, c) <=> RemovedAt(log, Live(log), x, c)
  <2>1. CASE x = i /\ c = b
    <3>1. Names(A[n + 2], x, c) /\ A[n + 2].type # "elide"
      BY <1>2, <1>6, <2>1 DEF Names
    <3>2. \A m \in Live(A) : m = n + 2 \/ n + 2 > m
      BY <1>7, <1>10, <1>11
    <3>3. ~RemovedAt(A, Live(A), x, c)
      BY <1>7, <3>1, <3>2 DEF RemovedAt
    <3> QED BY <2>1, <3>3
  <2>2. CASE ~(x = i /\ c = b)
    <3>1. ~Names(A[n + 1], x, c) /\ ~Names(A[n + 2], x, c)
      BY <1>2, <1>6, <2>2 DEF Names
    <3>2. RemovedAt(A, Live(A), x, c) => RemovedAt(log, Live(log), x, c)
      BY <1>7, <1>10, <3>1 DEF RemovedAt
    <3>3. RemovedAt(log, Live(log), x, c) => RemovedAt(A, Live(A), x, c)
      BY <1>7, <1>10, <3>1 DEF RemovedAt
    <3> QED BY <3>2, <3>3
  <2> QED BY <2>1, <2>2
<1>13. \A k \in 1..n : k \in Live(A) <=> k \in Live(log)
  BY <1>7, <1>9
<1>14. \A k \in Live(A) : k \notin 1..n => A[k].type \in {"elide", "unelide"}
  BY <1>2, <1>6, <1>7, <1>8
<1>15. Agree(A, log)
  BY <1>1, <1>6, <1>12, <1>13, <1>14 DEF Agree, n
<1> QED BY <1>15 DEF A, e, u

\* Restoring what was just removed sends again what was sent before
\* (session.rs, unelide and unelide_block).
THEOREM RestoringUndoes == Spec => []RestoreIsExact
<1>1. ASSUME LogInv PROVE RestoreIsExact
  <2>1. Whole(events)
    BY <1>1, WholeLogInv
  <2>2. Live(events) \subseteq DOMAIN events
    BY <2>1, WholeLog
  <2>3. ASSUME NEW i \in Live(events), i \notin Elided(events)
        PROVE  Project(events \o << ElideOf({i}, 0), UnelideOf({i}, 0) >>) = Project(events)
    <3>1. ~RemovedAt(events, Live(events), i, 0) /\ i \in DOMAIN events
      BY <2>2, <2>3 DEF Elided, ElidedIn
    <3> QED BY <2>1, <3>1, RestoredAtOnce, AgreeProject
  <2>4. ASSUME NEW i \in Live(events), NEW b \in Blocks(i), b \notin GoneBlocks(events, i)
        PROVE  Project(events \o << ElideOf({i}, b), UnelideOf({i}, b) >>) = Project(events)
    <3>1. IsAssistant(events[i]) /\ b \in DOMAIN events[i].blocks
      BY DEF Blocks
    <3>2. ~RemovedAt(events, Live(events), i, b) /\ i \in DOMAIN events
      BY <2>2, <2>4, <3>1 DEF GoneBlocks, GoneIn
    <3>3. b \in Nat
      BY <2>1, <3>1, <3>2, WholeLog
    <3> QED BY <2>1, <3>2, <3>3, RestoredAtOnce, AgreeProject
  <2> QED BY <2>3, <2>4 DEF RestoreIsExact, RestoresTo
<1>2. LogInv => RestoreIsExact
  BY <1>1
<1> QED BY <1>2, LogIsWhole, PTL

-----------------------------------------------------------------------------
(* A Claude Code turn: what the recorder holds and what is on the log.     *)

\* The calls of agents' turns so far.
AgentCalls == {0} \X (1..calls)

RecorderOf(called) ==
    [at : {"none", "turn", "closing"}, blocks : Seq(Block), thinking : BOOLEAN,
     text : BOOLEAN, open : Seq({0} \X (1..called)), spoke : SUBSET (1..called)]

Prose == {[kind |-> "thinking"], [kind |-> "text"], [kind |-> "narrative"]}

\* What Append makes of a log.
LEMMA AppendIs ==
    ASSUME NEW log, Whole(log), NEW e \in Entry
    PROVE  /\ Append(log, e) \in Seq(Entry) /\ Len(Append(log, e)) = Len(log) + 1
           /\ DOMAIN Append(log, e) = 1..(Len(log) + 1)
           /\ Append(log, e)[Len(log) + 1] = e
           /\ \A k \in DOMAIN log : k \in DOMAIN Append(log, e) /\ Append(log, e)[k] = log[k]
           /\ \A k \in DOMAIN Append(log, e) : k \in DOMAIN log \/ k = Len(log) + 1
           /\ \A k \in 1..Len(log) : k \in DOMAIN log
           /\ Len(log) + 1 \in DOMAIN Append(log, e) /\ Len(log) + 1 \notin DOMAIN log
           /\ Len(log) \in Nat \ {0}
<1> DEFINE n == Len(log)
           next == Append(log, e)
<1>1. log \in Seq(Entry) /\ n \in Nat \ {0} /\ DOMAIN log = 1..n
  BY WholeLog DEF Whole
<1>2. next \in Seq(Entry) /\ Len(next) = n + 1 /\ next[n + 1] = e
  BY <1>1
<1>3. \A k \in 1..n : next[k] = log[k]
  BY <1>1
<1> HIDE DEF next, n
<1>4. DOMAIN next = 1..(n + 1)
  BY <1>2
<1>5. \A k \in DOMAIN log : k \in DOMAIN next
  BY <1>1, <1>4
<1>6. \A k \in DOMAIN next : k \in DOMAIN log \/ k = n + 1
  BY <1>1, <1>4
<1>7. n + 1 \in DOMAIN next /\ n + 1 \notin DOMAIN log
  BY <1>1, <1>4
<1> QED BY <1>1, <1>2, <1>3, <1>4, <1>5, <1>6, <1>7 DEF next, n

\* No reply of the log makes a call of bs.
NewCalls(log, bs) == \A k \in DOMAIN log : IsAssistant(log[k]) => CallIds(bs) \cap CallIds(log[k].blocks) = {}

Unanswered(log, id) == \A k \in DOMAIN log : log[k].type = "tool_result" => log[k].id # id
Asked(log, id) == \E a \in DOMAIN log : Asks(log, a, id, Len(log) + 1)

\* A reply of the recorder's.
LEMMA ReplyAppends ==
    ASSUME NEW log, Whole(log), NEW bs \in Seq(Block), bs # << >>, CallsOnce(bs), NewCalls(log, bs),
           \A n \in DOMAIN bs : IsCall(bs[n]) => bs[n].id[1] = 0
    PROVE  /\ Whole(Append(log, Assistant(bs)))
           /\ \A id \in CallIds(bs) : Asked(Append(log, Assistant(bs)), id)
           /\ Assistant(bs) \in Entry
<1> DEFINE e == Assistant(bs)
           n == Len(log)
           next == Append(log, e)
<1>1. e \in Entry /\ e.type = "assistant_message" /\ e.blocks = bs /\ e.stand_in = FALSE
  BY EventTypes DEF Entry, Assistant
<1> HIDE DEF e
<1>2. /\ next[n + 1] = e /\ Len(next) = n + 1 /\ n + 1 \in DOMAIN next
      /\ n \in Nat \ {0} /\ (n + 1) - 1 = n
      /\ \A k \in 1..n : k \in DOMAIN log /\ next[k] = log[k]
  BY <1>1, AppendIs
<1> HIDE DEF n, next
<1>3. PointsBack(next, n + 1)
  BY <1>1, <1>2 DEF PointsBack, TargetsOf
<1>4. ReplyFits(next, n + 1)
  <2>1. \A x, y \in DOMAIN bs : IsCall(bs[x]) /\ IsCall(bs[y]) /\ bs[x].id = bs[y].id => x = y
    BY DEF CallsOnce
  <2>2. \A x \in DOMAIN bs : IsCall(bs[x]) => bs[x].id \in CallIds(bs)
    BY DEF CallIds
  <2>3. \A x \in DOMAIN bs : IsCall(bs[x]) =>
            \A k \in 1..n : IsAssistant(next[k]) => bs[x].id \notin CallIds(next[k].blocks)
    BY <1>2, <2>2 DEF NewCalls
  <2> QED BY <1>1, <1>2, <2>1, <2>3 DEF ReplyFits
<1>5. Fits(next, n + 1)
  BY <1>1, <1>2, <1>4 DEF Fits, IsUser, IsAssistant
<1>6. Whole(next)
  BY <1>1, <1>3, <1>5, WholeAppend DEF next, n
<1>7. ASSUME NEW id \in CallIds(bs) PROVE Asked(next, id)
  <2>1. \A m \in ((n + 1) + 1)..((Len(next) + 1) - 1) : FALSE
    BY <1>2
  <2>2. Asks(next, n + 1, id, Len(next) + 1)
    BY <1>1, <1>2, <1>7, <2>1 DEF Asks, IsAssistant
  <2> QED BY <1>2, <2>2 DEF Asked
<1> QED BY <1>1, <1>6, <1>7 DEF next, e

\* A result of a call that is asked at the end of the log.
LEMMA ResultAppends ==
    ASSUME NEW log, Whole(log), NEW id \in Nat \X Nat, Asked(log, id), Unanswered(log, id)
    PROVE  /\ Whole(Append(log, Result(id)))
           /\ \A other : Asked(log, other) => Asked(Append(log, Result(id)), other)
           /\ Result(id) \in Entry
<1> DEFINE e == Result(id)
           n == Len(log)
           next == Append(log, e)
<1>1. e \in Entry /\ e.type = "tool_result" /\ e.id = id
  BY EventTypes DEF Entry, Result
<1> HIDE DEF e
<1>2. /\ next[n + 1] = e /\ Len(next) = n + 1 /\ n + 1 \in DOMAIN next
      /\ n \in Nat \ {0} /\ (n + 1) - 1 = n
      /\ \A k \in DOMAIN log : k \in 1..n
      /\ \A k \in 1..n : k \in DOMAIN log /\ k \in DOMAIN next /\ next[k] = log[k]
  BY <1>1, AppendIs, WholeLog
<1> HIDE DEF n, next
<1>3. PointsBack(next, n + 1)
  BY <1>1, <1>2 DEF PointsBack, TargetsOf
<1>8. ASSUME NEW other, NEW a \in DOMAIN log, Asks(log, a, other, n + 1)
      PROVE  Asks(next, a, other, n + 1) /\ Asks(next, a, other, Len(next) + 1)
  <2>1. a \in 1..n /\ next[a] = log[a]
    BY <1>2, <1>8
  <2>2. \A m \in (a + 1)..((n + 1) - 1) : next[m].type = "tool_result"
    BY <1>2, <1>8, <2>1 DEF Asks
  <2>3. \A m \in (a + 1)..((Len(next) + 1) - 1) : m \in (a + 1)..((n + 1) - 1) \/ m = n + 1
    BY <1>2, <2>1
  <2>4. \A m \in (a + 1)..((Len(next) + 1) - 1) : next[m].type = "tool_result"
    BY <1>1, <1>2, <2>2, <2>3
  <2> QED BY <1>8, <2>1, <2>2, <2>4 DEF Asks
<1>4. ResultFits(next, n + 1)
  <2>1. PICK a \in DOMAIN log : Asks(log, a, id, n + 1)
    BY DEF Asked, n
  <2>2. Asks(next, a, id, n + 1) /\ a \in 1..((n + 1) - 1)
    BY <1>2, <1>8, <2>1
  <2>3. \A k \in 1..((n + 1) - 1) : next[k].type = "tool_result" => next[k].id # id
    BY <1>2 DEF Unanswered
  <2> QED BY <1>1, <1>2, <2>2, <2>3 DEF ResultFits
<1>5. Fits(next, n + 1)
  BY <1>1, <1>2, <1>4 DEF Fits, IsUser, IsAssistant
<1>6. Whole(next)
  BY <1>1, <1>3, <1>5, WholeAppend DEF next, n
<1>7. ASSUME NEW other, Asked(log, other) PROVE Asked(next, other)
  <2>1. PICK a \in DOMAIN log : Asks(log, a, other, n + 1)
    BY <1>7 DEF Asked, n
  <2> QED BY <1>2, <1>8, <2>1 DEF Asked
<1> QED BY <1>1, <1>6, <1>7 DEF next, e

\* The reply a turn that gave none leaves.
LEMMA StandInAppends ==
    ASSUME NEW log, Whole(log)
    PROVE  Whole(Append(log, StandIn)) /\ StandIn \in Entry
<1> DEFINE e == StandIn
           n == Len(log)
           next == Append(log, e)
<1>1. e \in Entry /\ e.type = "assistant_message" /\ e.blocks = << [kind |-> "text"] >>
  BY EventTypes DEF Entry, StandIn
<1> HIDE DEF e
<1>2. /\ next[n + 1] = e /\ n \in Nat \ {0}
  BY <1>1, AppendIs
<1> HIDE DEF n, next
<1>3. PointsBack(next, n + 1)
  BY <1>1, <1>2 DEF PointsBack, TargetsOf
<1>4. ReplyFits(next, n + 1)
  <2>1. \A x \in DOMAIN e.blocks : ~IsCall(e.blocks[x])
    BY <1>1 DEF IsCall
  <2>2. CallIds(e.blocks) = {}
    BY <2>1 DEF CallIds
  <2> QED BY <1>1, <1>2, <2>1, <2>2 DEF ReplyFits
<1>5. Fits(next, n + 1)
  BY <1>1, <1>2, <1>4 DEF Fits, IsUser, IsAssistant
<1>6. Whole(next)
  BY <1>1, <1>3, <1>5, WholeAppend DEF next, n
<1> QED BY <1>1, <1>6 DEF next, e

\* No subagent speaks between the results of a round, and no message of his
\* is taken between a call and its result.
OnlySettled == \A s \in Settings : "steps" \notin s /\ "early" \notin s

\* Every call of an agent's turn on the log is one of those so far.
CallsKnown(log, called) ==
    \A i \in DOMAIN log : IsAssistant(log[i]) =>
        \A id \in CallIds(log[i].blocks) : id[1] = 0 => id \in {0} \X (1..called)

\* ... and has its result, or one is still to come.
Paired(log, waiting) ==
    \A i \in DOMAIN log : IsAssistant(log[i]) =>
        \A id \in CallIds(log[i].blocks) : id[1] = 0 =>
            id \in waiting \/ \E j \in DOMAIN log : log[j] = Result(id)

\* Whose turn it is, and what its recorder is.
RecOk ==
    /\ may \in Settings /\ calls \in Nat /\ deaths \in Nat
    /\ engine \in {"none", "agent", "provider"} /\ (engine = "none" <=> ~running)
    /\ rec \in RecorderOf(calls)
    /\ engine # "agent" => rec = NoRecorder
    /\ engine = "agent" => rec.at # "none" /\ open = {}
    /\ stale \subseteq AgentCalls
    /\ rec.at = "turn" => stale \cap ToSet(rec.open) = {}

\* The calls with no result yet.
RecOpen ==
    /\ \A m, n \in DOMAIN rec.open : rec.open[m] = rec.open[n] => m = n
    /\ \A n \in DOMAIN rec.open : Unanswered(events, rec.open[n])

\* What the recorder holds of the round, or that it holds none of it.
RecHolds(r, log) ==
    /\ r.at = "closing" => r.blocks = << >>
    /\ r.blocks # << >> => CallIds(r.blocks) = ToSet(r.open)
    /\ r.blocks = << >> =>
          /\ \A id \in ToSet(r.open) : Asked(log, id)
          /\ r.open # << >> \/ r.at = "closing" => ~r.text /\ ~r.thinking /\ r.spoke = {}

RecBlocks ==
    /\ \A n \in DOMAIN rec.blocks :
          /\ rec.blocks[n].kind \in {"text", "thinking", "narrative", "tool_use"}
          /\ IsCall(rec.blocks[n]) => rec.blocks[n].id \in AgentCalls
    /\ CallsOnce(rec.blocks)
    /\ NewCalls(events, rec.blocks)
    /\ RecHolds(rec, events)

RecInv ==
    /\ LogInv /\ RecOk /\ RecOpen /\ RecBlocks
    /\ CallsKnown(events, calls)
    /\ deaths = 0 => Paired(events, ToSet(rec.open))

\* A log whose events fit, in a turn or out of one, is one SessionLog allows.
LEMMA WholeIsLog ==
    ASSUME RecorderAssumption, NEW log, Whole(log)
    PROVE  /\ log \in Seq(Event)
           /\ log # << >> /\ log[1].type = "session_created"
           /\ \A i \in DOMAIN log : PointsBack(log, i) /\ Fits(log, i)
<1>1. UserMsg("said", 0) \in Event
  BY EventTypes DEF RecorderAssumption
<1>2. Entry = Event
  BY <1>1 DEF Entry
<1> QED BY <1>2 DEF Whole

LEMMA NoRecorderIs ==
    ASSUME NEW called
    PROVE  /\ NoRecorder \in RecorderOf(called)
           /\ NoRecorder.at = "none" /\ NoRecorder.blocks = << >> /\ NoRecorder.open = << >>
           /\ NoRecorder.text = FALSE /\ NoRecorder.thinking = FALSE /\ NoRecorder.spoke = {}
BY DEF NoRecorder, RecorderOf

\* What the recorder would write now.
Flushed(r) == FlushSubagents(FlushProse(r)).blocks

LEMMA FlushIs ==
    ASSUME NEW called \in Nat, NEW r \in RecorderOf(called)
    PROVE  /\ Flushed(r) \in Seq(Block)
           /\ Flushed(r) = FlushProse(r).blocks \o [n \in 1..Cardinality(r.spoke) |-> [kind |-> "narrative"]]
           /\ FlushProse(r).blocks = (r.blocks \o (IF r.thinking THEN One("thinking") ELSE << >>))
                                         \o (IF r.text THEN One("text") ELSE << >>)
           /\ FlushProse(r).blocks \in Seq(Block)
           /\ \A n \in DOMAIN r.blocks : n \in DOMAIN FlushProse(r).blocks /\ FlushProse(r).blocks[n] = r.blocks[n]
           /\ \A n \in DOMAIN FlushProse(r).blocks : n \in DOMAIN r.blocks \/ FlushProse(r).blocks[n] \in Prose
           /\ Cardinality(r.spoke) \in Nat /\ (r.spoke = {} <=> Cardinality(r.spoke) = 0)
           /\ \A n \in DOMAIN r.blocks : n \in DOMAIN Flushed(r) /\ Flushed(r)[n] = r.blocks[n]
           /\ \A n \in DOMAIN Flushed(r) : n \in DOMAIN r.blocks \/ Flushed(r)[n] \in Prose
<1> DEFINE bs == r.blocks
           th == IF r.thinking THEN One("thinking") ELSE << >>
           tx == IF r.text THEN One("text") ELSE << >>
           k == Cardinality(r.spoke)
           na == [n \in 1..k |-> [kind |-> "narrative"]]
<1>1. bs \in Seq(Block) /\ r.spoke \subseteq 1..called
  BY DEF RecorderOf
<1>2. FlushProse(r).blocks = (bs \o th) \o tx /\ FlushProse(r).spoke = r.spoke
  <2>1. r = [at |-> r.at, blocks |-> r.blocks, thinking |-> r.thinking, text |-> r.text,
             open |-> r.open, spoke |-> r.spoke]
    BY DEF RecorderOf
  <2> QED BY <2>1 DEF FlushProse
<1>4. k \in Nat /\ (r.spoke = {} <=> k = 0)
  <2>1. IsFiniteSet(1..called)
    BY FS_Interval
  <2>2. IsFiniteSet(r.spoke)
    BY <1>1, <2>1, FS_Subset
  <2> QED BY <2>2, FS_CardinalityType, FS_EmptySet
<1>5. Prose \subseteq Block
  BY DEF Prose, Block, BlockKinds
<1>6. th \in Seq(Prose) /\ tx \in Seq(Prose)
  <2>1. One("thinking") \in Seq(Prose) /\ One("text") \in Seq(Prose)
    BY DEF One, Prose
  <2> QED BY <2>1
<1>7. na \in Seq(Prose)
  <2>1. [kind |-> "narrative"] \in Prose
    BY DEF Prose
  <2> QED BY <1>4, <2>1
<1> HIDE DEF bs, th, tx, k, na
<1>8. \A n \in DOMAIN bs : n \in DOMAIN (bs \o th) /\ (bs \o th)[n] = bs[n]
  BY <1>1, <1>6
<1>9. bs \o th \in Seq(Block) /\ th \in Seq(Block) /\ tx \in Seq(Block) /\ na \in Seq(Block)
  BY <1>1, <1>5, <1>6, <1>7
<1>10. \A n \in DOMAIN (bs \o th) : n \in DOMAIN bs \/ (bs \o th)[n] \in Prose
  BY <1>1, <1>6
<1> DEFINE b1 == bs \o th
           b2 == b1 \o tx
           b3 == b2 \o na
<1>11. b1 \in Seq(Block)
  BY <1>9
<1> HIDE DEF b1
<1>12. /\ b2 \in Seq(Block)
       /\ \A n \in DOMAIN b1 : n \in DOMAIN b2 /\ b2[n] = b1[n]
       /\ \A n \in DOMAIN b2 : n \in DOMAIN b1 \/ b2[n] \in Prose
  BY <1>6, <1>9, <1>11
<1> HIDE DEF b2
<1>13. /\ b3 \in Seq(Block)
       /\ \A n \in DOMAIN b2 : n \in DOMAIN b3 /\ b3[n] = b2[n]
       /\ \A n \in DOMAIN b3 : n \in DOMAIN b2 \/ b3[n] \in Prose
  BY <1>7, <1>9, <1>12
<1> HIDE DEF b3
<1>14. Flushed(r) = b3 /\ FlushProse(r).blocks = b2
  <2> DEFINE p == FlushProse(r)
  <2>1. p = [r EXCEPT !.blocks = b2, !.thinking = FALSE, !.text = FALSE]
    BY DEF FlushProse, b1, b2, bs, th, tx
  <2> HIDE DEF p
  <2>2. p \in RecorderOf(called) /\ p.blocks = b2 /\ p.spoke = r.spoke
    <3>1. LET q == [r EXCEPT !.blocks = b2, !.thinking = FALSE, !.text = FALSE]
          IN  q \in RecorderOf(called) /\ q.blocks = b2 /\ q.spoke = r.spoke
      BY <1>12 DEF RecorderOf
    <3> QED BY <2>1, <3>1
  <2>3. FlushSubagents(p) = [p EXCEPT !.blocks = b3, !.spoke = {}]
    BY <2>2 DEF FlushSubagents, b3, na, k
  <2>4. FlushSubagents(p).blocks = b3
    BY <2>2, <2>3 DEF RecorderOf
  <2> QED BY <2>2, <2>4 DEF Flushed, p
<1>15. /\ \A n \in DOMAIN bs : n \in DOMAIN b3 /\ b3[n] = bs[n]
       /\ \A n \in DOMAIN b3 : n \in DOMAIN bs \/ b3[n] \in Prose
  BY <1>8, <1>10, <1>12, <1>13 DEF b1
<1>18. /\ \A n \in DOMAIN bs : n \in DOMAIN b2 /\ b2[n] = bs[n]
       /\ \A n \in DOMAIN b2 : n \in DOMAIN bs \/ b2[n] \in Prose
  BY <1>8, <1>10, <1>12 DEF b1
<1>16. b3 = b2 \o na
  BY DEF b3
<1>17. FlushProse(r).blocks = (bs \o th) \o tx
  BY <1>2
<1> QED BY <1>4, <1>12, <1>13, <1>14, <1>15, <1>16, <1>17, <1>18 DEF bs, th, tx, k, na

\* What is flushed makes the calls the recorder held.
LEMMA FlushCalls ==
    ASSUME NEW called \in Nat, NEW r \in RecorderOf(called)
    PROVE  /\ CallIds(Flushed(r)) = CallIds(r.blocks)
           /\ CallsOnce(r.blocks) => CallsOnce(Flushed(r))
           /\ \A n \in DOMAIN Flushed(r) : IsCall(Flushed(r)[n]) => n \in DOMAIN r.blocks /\ Flushed(r)[n] = r.blocks[n]
           /\ r.blocks = << >> /\ ~r.thinking /\ ~r.text /\ r.spoke = {} => Flushed(r) = << >>
           /\ r.blocks # << >> => Flushed(r) # << >>
<1> DEFINE f == Flushed(r)
<1>1. /\ f \in Seq(Block)
      /\ \A n \in DOMAIN r.blocks : n \in DOMAIN f /\ f[n] = r.blocks[n]
      /\ \A n \in DOMAIN f : n \in DOMAIN r.blocks \/ f[n] \in Prose
  BY FlushIs
<1>2. r.blocks \in Seq(Block) /\ r.thinking \in BOOLEAN /\ r.text \in BOOLEAN
  BY DEF RecorderOf
<1>3. f = ((r.blocks \o (IF r.thinking THEN One("thinking") ELSE << >>))
               \o (IF r.text THEN One("text") ELSE << >>))
              \o [n \in 1..Cardinality(r.spoke) |-> [kind |-> "narrative"]]
      /\ (r.spoke = {} => Cardinality(r.spoke) = 0)
  BY FlushIs
<1> HIDE DEF f
<1>4. \A b \in Prose : ~IsCall(b)
  BY DEF Prose, IsCall
<1>5. \A n \in DOMAIN f : IsCall(f[n]) => n \in DOMAIN r.blocks /\ f[n] = r.blocks[n]
  BY <1>1, <1>4
<1>6. CallIds(f) = CallIds(r.blocks)
  BY <1>1, <1>5 DEF CallIds
<1>7. CallsOnce(r.blocks) => CallsOnce(f)
  BY <1>5 DEF CallsOnce
<1>8. ASSUME r.blocks = << >>, ~r.thinking, ~r.text, r.spoke = {}
      PROVE  f = << >>
  <2>1. f = ((<< >> \o << >>) \o << >>) \o [n \in 1..0 |-> [kind |-> "narrative"]]
    BY <1>3, <1>8
  <2>2. [n \in 1..0 |-> [kind |-> "narrative"]] = << >>
    OBVIOUS
  <2> QED BY <2>1, <2>2
<1>9. r.blocks # << >> => f # << >>
  <2>1. ASSUME r.blocks # << >>
        PROVE  1 \in DOMAIN r.blocks
    BY <1>2, <2>1
  <2> QED BY <1>1, <2>1
<1> QED BY <1>5, <1>6, <1>7, <1>8, <1>9 DEF f

\* The log with what is flushed on it.
FlushedLog(log, r) == IF Flushed(r) = << >> THEN log ELSE Append(log, Assistant(Flushed(r)))

\* What a flush leaves on the log: it is whole, and asks for each result
\* still to come.
LEMMA FlushKeeps ==
    ASSUME RecInv
    PROVE  LET log == FlushedLog(events, rec) IN
           /\ Whole(log)
           /\ \A id \in ToSet(rec.open) : Asked(log, id) /\ Unanswered(log, id)
           /\ \A k \in DOMAIN log : log[k].type = "tool_result" => k \in DOMAIN events /\ log[k] = events[k]
           /\ CallsKnown(log, calls)
           /\ deaths = 0 => Paired(log, ToSet(rec.open))
<1> DEFINE bs == Flushed(rec)
           log == FlushedLog(events, rec)
<1>1. /\ LogInv /\ rec \in RecorderOf(calls) /\ calls \in Nat
      /\ RecBlocks /\ RecOpen /\ CallsKnown(events, calls)
      /\ deaths = 0 => Paired(events, ToSet(rec.open))
  BY DEF RecInv, RecOk
<1>2. Whole(events) /\ Len(events) \in Nat
  BY <1>1, WholeLogInv, WholeLog
<1>3. /\ bs \in Seq(Block)
      /\ CallIds(bs) = CallIds(rec.blocks) /\ CallsOnce(bs)
      /\ \A n \in DOMAIN bs : IsCall(bs[n]) => n \in DOMAIN rec.blocks /\ bs[n] = rec.blocks[n]
      /\ rec.blocks = << >> /\ ~rec.thinking /\ ~rec.text /\ rec.spoke = {} => bs = << >>
      /\ rec.blocks # << >> => bs # << >>
  BY <1>1, FlushIs, FlushCalls DEF RecBlocks
<1>4. \A n \in DOMAIN bs : IsCall(bs[n]) => bs[n].id \in {0} \X (1..calls) /\ bs[n].id[1] = 0
  <2>1. \A id \in {0} \X (1..calls) : id[1] = 0
    OBVIOUS
  <2> QED BY <1>1, <1>3, <2>1 DEF RecBlocks, AgentCalls
<1>5. NewCalls(events, bs)
  BY <1>1, <1>3 DEF NewCalls, RecBlocks
<1>6. \A id \in ToSet(rec.open) : Unanswered(events, id)
  BY <1>1 DEF RecOpen, ToSet
<1> HIDE DEF bs
<1>7. CASE bs = << >>
  <2>1. log = events
    BY <1>7 DEF FlushedLog, bs
  <2>2. rec.blocks = << >>
    BY <1>3, <1>7
  <2>3. \A id \in ToSet(rec.open) : Asked(events, id)
    BY <1>1, <2>2 DEF RecBlocks, RecHolds
  <2> QED BY <1>1, <1>2, <1>6, <2>1, <2>3
<1>8. CASE bs # << >>
  <2>1. log = Append(events, Assistant(bs))
    BY <1>8 DEF FlushedLog, bs
  <2>2. Whole(log) /\ Assistant(bs) \in Entry /\ \A id \in CallIds(bs) : Asked(log, id)
    BY <1>2, <1>3, <1>4, <1>5, <1>8, <2>1, ReplyAppends
  <2>3. /\ log[Len(events) + 1] = Assistant(bs)
        /\ \A k \in DOMAIN events : k \in DOMAIN log /\ log[k] = events[k]
        /\ \A k \in DOMAIN log : k \in DOMAIN events \/ k = Len(events) + 1
    BY <1>2, <2>1, <2>2, AppendIs
  <2> HIDE DEF log
  <2>4. Assistant(bs).type = "assistant_message" /\ Assistant(bs).blocks = bs
    BY DEF Assistant
  <2>5. \A k \in DOMAIN log : log[k].type = "tool_result" => k \in DOMAIN events /\ log[k] = events[k]
    BY <2>3, <2>4
  <2>6. \A id \in ToSet(rec.open) : Unanswered(log, id)
    BY <1>6, <2>5 DEF Unanswered
  <2>7. ToSet(rec.open) = CallIds(bs)
    <3>1. CASE rec.blocks # << >>
      BY <1>1, <1>3, <3>1 DEF RecBlocks, RecHolds
    <3>2. CASE rec.blocks = << >>
      <4>1. rec.open = << >>
        BY <1>1, <1>3, <1>8, <3>2 DEF RecBlocks, RecHolds
      <4>2. CallIds(rec.blocks) = {}
        BY <3>2 DEF CallIds
      <4>3. ToSet(rec.open) = {}
        BY <4>1 DEF ToSet
      <4> QED BY <1>3, <4>2, <4>3
    <3> QED BY <3>1, <3>2
  <2>8. \A id \in CallIds(bs) : id \in {0} \X (1..calls)
    BY <1>4 DEF CallIds
  <2>9. CallsKnown(log, calls)
    BY <1>1, <2>3, <2>4, <2>8 DEF CallsKnown, IsAssistant
  <2>10. ASSUME deaths = 0 PROVE Paired(log, ToSet(rec.open))
    <3>1. Paired(events, ToSet(rec.open))
      BY <1>1, <2>10
    <3> QED BY <2>3, <2>4, <2>7, <3>1 DEF Paired, IsAssistant
  <2> QED BY <2>2, <2>5, <2>6, <2>7, <2>9, <2>10 DEF log
<1> QED BY <1>7, <1>8

\* A log that fits outside any provider's round is SessionLog's.
LEMMA LogInvHere ==
    ASSUME RecorderAssumption, Whole(events)', running' \in BOOLEAN, open' = {}
    PROVE  LogInv'
<1>1. /\ events' \in Seq(Event)
      /\ events' # << >> /\ events'[1].type = "session_created"
      /\ \A i \in DOMAIN events' : PointsBack(events', i) /\ Fits(events', i)
  BY WholeIsLog
<1>2. TypeOK'
  BY <1>1 DEF TypeOK
<1>3. EventsFit'
  BY <1>1 DEF EventsFit
<1>4. OpenFits'
  BY NoneOpen DEF OpenFits
<1> QED BY <1>2, <1>3, <1>4 DEF LogInv

\* A round that is over, or has results still to come, after the step.
Over ==
    /\ Whole(events)' /\ rec' \in RecorderOf(calls)
    /\ rec'.at \in {"turn", "closing"} /\ rec'.blocks = << >>
    /\ ~rec'.text /\ ~rec'.thinking /\ rec'.spoke = {}
    /\ \A m, n \in DOMAIN rec'.open : rec'.open[m] = rec'.open[n] => m = n
    /\ \A id \in ToSet(rec'.open) : Asked(events', id) /\ Unanswered(events', id)
    /\ CallsKnown(events', calls)
    /\ deaths = 0 => Paired(events', ToSet(rec'.open))
    /\ stale' \subseteq AgentCalls
    /\ rec'.at = "turn" => stale' \cap ToSet(rec'.open) = {}
    /\ UNCHANGED << running, open, engine, may, calls, deaths >>

LEMMA OverKeeps ==
    ASSUME RecorderAssumption, RecInv, engine = "agent", Over
    PROVE  RecInv'
<1> USE DEF Over
<1>1. /\ LogInv /\ RecOk /\ open = {} /\ running \in BOOLEAN
  BY DEF RecInv, RecOk, LogInv, TypeOK
<1>2. LogInv'
  BY <1>1, LogInvHere
<1>3. RecOk'
  BY <1>1 DEF RecOk, AgentCalls
<1>4. RecOpen'
  BY DEF RecOpen, ToSet, Unanswered
<1>5. RecBlocks'
  <2>1. CallIds(rec'.blocks) = {} /\ CallsOnce(rec'.blocks) /\ DOMAIN rec'.blocks = {}
    BY DEF CallIds, CallsOnce
  <2>2. NewCalls(events', rec'.blocks)
    BY <2>1 DEF NewCalls
  <2>3. RecHolds(rec', events')
    BY DEF RecHolds
  <2> QED BY <2>1, <2>2, <2>3 DEF RecBlocks
<1> QED BY <1>2, <1>3, <1>4, <1>5 DEF RecInv

\* What comes in while the round's reply still grows.
LEMMA GrowsKeeps ==
    ASSUME RecInv, rec.at = "turn", ~MidResults,
           rec' \in RecorderOf(calls), rec'.at = rec.at, rec'.blocks = rec.blocks, rec'.open = rec.open,
           UNCHANGED << events, running, open, engine, may, calls, deaths, stale >>
    PROVE  RecInv'
<1>1. /\ LogInv /\ RecOk /\ RecOpen /\ RecBlocks
      /\ CallsKnown(events, calls) /\ (deaths = 0 => Paired(events, ToSet(rec.open)))
  BY DEF RecInv
<1>2. LogInv'
  BY <1>1 DEF LogInv, TypeOK, EventsFit, OpenFits
<1>3. RecOk'
  BY <1>1, NoRecorderIs DEF RecOk, AgentCalls
<1>4. RecOpen'
  BY <1>1 DEF RecOpen
<1>5. RecHolds(rec', events)
  <2>1. rec.blocks = << >> => rec.open = << >>
    BY DEF MidResults
  <2>2. ToSet(<< >>) = {}
    BY DEF ToSet
  <2> QED BY <1>1, <2>1, <2>2 DEF RecHolds, RecBlocks
<1>6. RecBlocks'
  BY <1>1, <1>5 DEF RecBlocks, AgentCalls
<1> QED BY <1>1, <1>2, <1>3, <1>4, <1>6 DEF RecInv

LEMMA DeltaStep ==
    ASSUME RecorderAssumption, OnlySettled, RecInv,
           TextDelta \/ ThinkingDelta \/ \E n \in 1..calls : PushSubagent(n)
    PROVE  RecInv'
<1>1. rec \in RecorderOf(calls) /\ may \in Settings
  BY DEF RecInv, RecOk
<1>2. rec.at = "turn" /\ ~MidResults
  BY <1>1 DEF TextDelta, ThinkingDelta, PushSubagent, Streams, OnlySettled
<1>3. UNCHANGED << events, running, open, engine, may, calls, deaths, stale >>
  BY DEF TextDelta, ThinkingDelta, PushSubagent, RecFrame
<1>4. /\ rec' \in RecorderOf(calls)
      /\ rec'.at = rec.at /\ rec'.blocks = rec.blocks /\ rec'.open = rec.open
  <2>1. CASE TextDelta
    <3>1. rec' = [rec EXCEPT !.text = TRUE]
      BY <2>1 DEF TextDelta
    <3> QED BY <1>1, <3>1 DEF RecorderOf
  <2>2. CASE ThinkingDelta
    <3>1. rec' = [rec EXCEPT !.thinking = TRUE]
      BY <2>2 DEF ThinkingDelta
    <3> QED BY <1>1, <3>1 DEF RecorderOf
  <2>3. CASE \E n \in 1..calls : PushSubagent(n)
    <3>1. PICK n \in 1..calls : PushSubagent(n)
      BY <2>3
    <3>2. rec' = [rec EXCEPT !.spoke = rec.spoke \cup {n}]
      BY <3>1 DEF PushSubagent
    <3> QED BY <1>1, <3>2 DEF RecorderOf
  <2> QED BY <2>1, <2>2, <2>3
<1> QED BY <1>2, <1>3, <1>4, GrowsKeeps

\* No result on the log is for a call not yet made.
LEMMA ResultKnown ==
    ASSUME NEW log, Whole(log), NEW called, CallsKnown(log, called),
           NEW k \in DOMAIN log, log[k].type = "tool_result", log[k].id[1] = 0
    PROVE  log[k].id \in {0} \X (1..called)
<1>1. ResultFits(log, k)
  BY DEF Whole, Fits
<1>2. PICK a \in 1..(k - 1) : Asks(log, a, log[k].id, k)
  BY <1>1 DEF ResultFits
<1>3. a \in DOMAIN log
  BY <1>2, WholeLog
<1> QED BY <1>2, <1>3 DEF Asks, CallsKnown

LEMMA PushIs ==
    ASSUME NEW S, NEW s \in Seq(S), NEW x \in S
    PROVE  /\ Append(s, x) # << >>
           /\ \A n \in DOMAIN s : n \in DOMAIN Append(s, x) /\ Append(s, x)[n] = s[n]
           /\ \A n \in DOMAIN Append(s, x) : n \in DOMAIN s \/ (n = Len(s) + 1 /\ Append(s, x)[n] = x)
           /\ \E n \in DOMAIN Append(s, x) : Append(s, x)[n] = x
<1>1. Append(s, x)[Len(s) + 1] = x /\ Len(s) + 1 \in DOMAIN Append(s, x)
  OBVIOUS
<1> QED BY <1>1

LEMMA CallStep ==
    ASSUME RecorderAssumption, RecInv, ToolCall
    PROVE  RecInv'
<1> DEFINE id == << 0, calls + 1 >>
           ps == FlushProse(rec).blocks
           b == [kind |-> "tool_use", id |-> id]
<1>1. /\ LogInv /\ RecOk /\ RecOpen /\ RecBlocks
      /\ CallsKnown(events, calls) /\ (deaths = 0 => Paired(events, ToSet(rec.open)))
      /\ rec \in RecorderOf(calls) /\ calls \in Nat /\ Whole(events)
  BY WholeLogInv DEF RecInv, RecOk
<1>2. /\ engine = "agent" /\ rec.at = "turn" /\ ~MidResults /\ calls' = calls + 1
      /\ rec' = [FlushProse(rec) EXCEPT !.open = Append(@, id), !.blocks = Append(@, b)]
      /\ UNCHANGED << events, running, open, engine, may, deaths, stale >>
  BY DEF ToolCall, Streams, RecFrame
<1>3. /\ ps \in Seq(Block)
      /\ \A n \in DOMAIN rec.blocks : n \in DOMAIN ps /\ ps[n] = rec.blocks[n]
      /\ \A n \in DOMAIN ps : n \in DOMAIN rec.blocks \/ ps[n] \in Prose
  BY <1>1, FlushIs
<1>4. id \in {0} \X (1..(calls + 1)) /\ id \notin {0} \X (1..calls) /\ id[1] = 0
  BY <1>1
<1>5. b \in Block /\ b.kind = "tool_use" /\ b.id = id
  BY <1>1 DEF Block
<1> HIDE DEF id, b
<1>6. /\ rec' \in RecorderOf(calls + 1)
      /\ rec'.blocks = Append(ps, b) /\ rec'.open = Append(rec.open, id) /\ rec'.at = "turn"
      /\ rec.open \in Seq({0} \X (1..calls)) /\ rec.open \in Seq({0} \X (1..(calls + 1)))
  <2>1. rec.open \in Seq({0} \X (1..calls)) /\ rec.spoke \subseteq 1..calls /\ rec.spoke \subseteq 1..(calls + 1)
    BY <1>1 DEF RecorderOf
  <2>2. rec.open \in Seq({0} \X (1..(calls + 1)))
    <3>1. {0} \X (1..calls) \subseteq {0} \X (1..(calls + 1))
      BY <1>1
    <3> QED BY <2>1, <3>1
  <2> DEFINE p == FlushProse(rec)
             bs == Append(ps, b)
             os == Append(rec.open, id)
  <2>3. p \in RecorderOf(calls) /\ p.blocks = ps /\ p.open = rec.open /\ p.at = rec.at /\ p.spoke = rec.spoke
    <3> HIDE DEF ps
    <3>1. p = [rec EXCEPT !.blocks = ps, !.thinking = FALSE, !.text = FALSE]
      BY DEF FlushProse, ps
    <3> HIDE DEF p
    <3>2. LET q == [rec EXCEPT !.blocks = ps, !.thinking = FALSE, !.text = FALSE]
          IN  q \in RecorderOf(calls) /\ q.blocks = ps /\ q.open = rec.open /\ q.at = rec.at /\ q.spoke = rec.spoke
      BY <1>1, <1>3 DEF RecorderOf
    <3> QED BY <3>1, <3>2
  <2>4. rec' = [p EXCEPT !.open = os, !.blocks = bs]
    BY <1>2, <2>3
  <2>5. bs \in Seq(Block) /\ os \in Seq({0} \X (1..(calls + 1)))
    BY <1>3, <1>4, <1>5, <2>2
  <2> HIDE DEF p, bs, os
  <2>6. rec' \in RecorderOf(calls + 1) /\ rec'.blocks = bs /\ rec'.open = os /\ rec'.at = p.at
    BY <2>1, <2>3, <2>4, <2>5 DEF RecorderOf
  <2> QED BY <1>2, <2>1, <2>2, <2>3, <2>6 DEF bs, os
<1> DEFINE bs == rec'.blocks
           os == rec'.open
<1>7. /\ bs # << >>
      /\ \A n \in DOMAIN rec.blocks : n \in DOMAIN bs /\ bs[n] = rec.blocks[n]
      /\ \A n \in DOMAIN bs : n \in DOMAIN rec.blocks \/ bs[n] \in Prose \/ (n = Len(ps) + 1 /\ bs[n] = b)
      /\ \E n \in DOMAIN bs : bs[n] = b
  <2> HIDE DEF ps
  <2>1. /\ Append(ps, b) # << >>
        /\ \A n \in DOMAIN ps : n \in DOMAIN Append(ps, b) /\ Append(ps, b)[n] = ps[n]
        /\ \A n \in DOMAIN Append(ps, b) : n \in DOMAIN ps \/ (n = Len(ps) + 1 /\ Append(ps, b)[n] = b)
        /\ \E n \in DOMAIN Append(ps, b) : Append(ps, b)[n] = b
    BY <1>3, <1>5, PushIs
  <2> QED BY <1>3, <1>6, <2>1
<1>27. /\ \A n \in DOMAIN rec.open : n \in DOMAIN os /\ os[n] = rec.open[n]
       /\ \A n \in DOMAIN os : n \in DOMAIN rec.open \/ (n = Len(rec.open) + 1 /\ os[n] = id)
       /\ \E n \in DOMAIN os : os[n] = id
  <2> DEFINE S == {0} \X (1..(calls + 1))
             s == rec.open
  <2>1. s \in Seq(S) /\ id \in S
    BY <1>4, <1>6
  <2>2. os = Append(s, id)
    BY <1>6
  <2> HIDE DEF S, s, os
  <2>3. /\ \A n \in DOMAIN s : n \in DOMAIN os /\ os[n] = s[n]
        /\ \A n \in DOMAIN os : n \in DOMAIN s \/ (n = Len(s) + 1 /\ os[n] = id)
        /\ \E n \in DOMAIN os : os[n] = id
    BY <2>1, <2>2, PushIs
  <2> QED BY <2>3 DEF s
<1>8. \A n \in DOMAIN os : (n \in DOMAIN rec.open /\ os[n] = rec.open[n]) \/ (n = Len(rec.open) + 1 /\ os[n] = id)
  BY <1>27
<1>9. ToSet(os) = ToSet(rec.open) \cup {id}
  <2> HIDE DEF os
  <2> QED BY <1>27 DEF ToSet
<1>10. ToSet(rec.open) \subseteq {0} \X (1..calls)
  BY <1>6 DEF ToSet
<1>11. ToSet(rec.open) = CallIds(rec.blocks)
  <2>1. CASE rec.blocks # << >>
    BY <1>1, <2>1 DEF RecBlocks, RecHolds
  <2>2. CASE rec.blocks = << >>
    <3>1. rec.open = << >>
      BY <1>2, <2>2 DEF MidResults
    <3> QED BY <2>2, <3>1 DEF CallIds, ToSet
  <2> QED BY <2>1, <2>2
<1> HIDE DEF bs, os
<1>12. \A x \in Prose : ~IsCall(x) /\ x.kind \in {"text", "thinking", "narrative", "tool_use"}
  BY DEF Prose, IsCall
<1>13. /\ \A n \in DOMAIN bs : IsCall(bs[n]) =>
              (n \in DOMAIN rec.blocks /\ bs[n] = rec.blocks[n]) \/ (n = Len(ps) + 1 /\ bs[n] = b)
       /\ IsCall(b)
  BY <1>5, <1>7, <1>12 DEF IsCall
<1>14. \A n \in DOMAIN rec.blocks : IsCall(rec.blocks[n]) => rec.blocks[n].id \in {0} \X (1..calls)
  BY <1>1 DEF RecBlocks, AgentCalls
<1>15. CallIds(bs) = CallIds(rec.blocks) \cup {id}
  BY <1>5, <1>7, <1>13 DEF CallIds
<1>16. CallsOnce(bs)
  BY <1>1, <1>4, <1>5, <1>13, <1>14 DEF CallsOnce, RecBlocks
<1>17. \A x \in {0} \X (1..calls) : x \in {0} \X (1..(calls + 1))
  BY <1>1
<1>18. \A n \in DOMAIN bs : /\ bs[n].kind \in {"text", "thinking", "narrative", "tool_use"}
                            /\ IsCall(bs[n]) => bs[n].id \in {0} \X (1..(calls + 1))
  BY <1>1, <1>4, <1>5, <1>7, <1>12, <1>13, <1>14, <1>17 DEF RecBlocks
<1>19. NewCalls(events, bs)
  <2>1. \A k \in DOMAIN events : IsAssistant(events[k]) => id \notin CallIds(events[k].blocks)
    BY <1>1, <1>4 DEF CallsKnown
  <2> QED BY <1>1, <1>15, <2>1 DEF NewCalls, RecBlocks
<1>20. Unanswered(events, id)
  BY <1>1, <1>4, ResultKnown DEF Unanswered
<1>21. RecOpen'
  <2>1. \A m, n \in DOMAIN os : os[m] = os[n] => m = n
    <3>1. \A n \in DOMAIN rec.open : rec.open[n] \in {0} \X (1..calls)
      BY <1>6
    <3>2. \A m, n \in DOMAIN rec.open : rec.open[m] = rec.open[n] => m = n
      BY <1>1 DEF RecOpen
    <3> QED BY <1>4, <1>8, <3>1, <3>2
  <2>2. \A n \in DOMAIN os : Unanswered(events, os[n])
    BY <1>1, <1>8, <1>20 DEF RecOpen
  <2> QED BY <1>2, <2>1, <2>2 DEF RecOpen, os
<1>22. RecBlocks'
  <2>1. RecHolds(rec', events)
    BY <1>6, <1>7, <1>9, <1>11, <1>15 DEF RecHolds, bs, os
  <2> QED BY <1>2, <1>16, <1>18, <1>19, <2>1 DEF RecBlocks, AgentCalls, bs
<1>23. RecOk'
  <2>1. stale \subseteq {0} \X (1..calls) /\ stale \cap ToSet(rec.open) = {}
    BY <1>1, <1>2 DEF RecOk, AgentCalls
  <2>2. stale \subseteq {0} \X (1..(calls + 1)) /\ stale \cap ToSet(os) = {}
    BY <1>4, <1>9, <1>17, <2>1
  <2> QED BY <1>1, <1>2, <1>6, <2>2 DEF RecOk, AgentCalls, os
<1>24. LogInv'
  BY <1>1, <1>2 DEF LogInv, TypeOK, EventsFit, OpenFits
<1>25. CallsKnown(events, calls + 1)
  BY <1>1, <1>17 DEF CallsKnown
<1>26. deaths = 0 => Paired(events, ToSet(os))
  BY <1>1, <1>9 DEF Paired
<1> QED BY <1>2, <1>21, <1>22, <1>23, <1>24, <1>25, <1>26 DEF RecInv, os

\* What a flush writes, and the recorder it leaves.
LEMMA FlushWrites ==
    ASSUME RecInv, NEW after, NEW at \in {"turn", "closing"},
           NEW still \in Seq({0} \X (1..calls)), FlushAssistant(after, at, still)
    PROVE  /\ after = << >> => events' = FlushedLog(events, rec)
           /\ \A e \in Entry : after = << e >> => events' = Append(FlushedLog(events, rec), e)
           /\ rec' \in RecorderOf(calls) /\ rec'.at = at /\ rec'.open = still
           /\ rec'.blocks = << >> /\ ~rec'.text /\ ~rec'.thinking /\ rec'.spoke = {}
<1> DEFINE bs == Flushed(rec)
           mine == IF bs = << >> THEN << >> ELSE << Assistant(bs) >>
<1>1. /\ Whole(events) /\ rec \in RecorderOf(calls) /\ calls \in Nat
      /\ Whole(FlushedLog(events, rec))
  BY WholeLogInv, FlushKeeps DEF RecInv, RecOk
<1>2. /\ events' = events \o mine \o after
      /\ rec' = [NoRecorder EXCEPT !.at = at, !.open = still]
  BY DEF FlushAssistant, Flushed
<1>3. events \in Seq(Entry) /\ FlushedLog(events, rec) \in Seq(Entry)
  BY <1>1 DEF Whole
<1>4. bs # << >> => Assistant(bs) \in Entry
  <2>1. bs \in Seq(Block)
    BY <1>1, FlushIs
  <2> QED BY <2>1, EventTypes DEF Entry
<1>5. events \o mine = FlushedLog(events, rec)
  <2>1. CASE bs = << >>
    <3>1. mine = << >>
      BY <2>1
    <3>2. events \o << >> = events
      BY <1>3
    <3> QED BY <2>1, <3>1, <3>2 DEF FlushedLog
  <2>2. CASE bs # << >>
    <3> DEFINE e == Assistant(bs)
    <3>1. mine = << e >> /\ e \in Entry
      BY <1>4, <2>2
    <3> HIDE DEF e
    <3>2. events \o << e >> = Append(events, e)
      BY <1>3, <3>1
    <3> HIDE DEF mine, bs
    <3>3. events \o mine = Append(events, e)
      BY <3>1, <3>2
    <3> QED BY <2>2, <3>3 DEF FlushedLog, e, bs
  <2> QED BY <2>1, <2>2
<1> DEFINE log == FlushedLog(events, rec)
<1>6. events' = log \o after /\ log \in Seq(Entry)
  <2> HIDE DEF mine
  <2> QED BY <1>2, <1>3, <1>5
<1> HIDE DEF log
<1>7. /\ after = << >> => events' = log
      /\ \A e \in Entry : after = << e >> => events' = Append(log, e)
  <2>1. log \o << >> = log
    BY <1>6
  <2>2. \A e \in Entry : log \o << e >> = Append(log, e)
    BY <1>6
  <2> QED BY <1>6, <2>1, <2>2
<1>8. /\ rec' \in RecorderOf(calls) /\ rec'.at = at /\ rec'.open = still
      /\ rec'.blocks = << >> /\ ~rec'.text /\ ~rec'.thinking /\ rec'.spoke = {}
  <2> DEFINE r == NoRecorder
  <2>1. /\ r \in RecorderOf(calls) /\ r.blocks = << >> /\ ~r.text /\ ~r.thinking /\ r.spoke = {}
    BY NoRecorderIs
  <2>2. rec' = [r EXCEPT !.at = at, !.open = still]
    BY <1>2
  <2> HIDE DEF r
  <2>3. rec' \in RecorderOf(calls) /\ rec'.at = at /\ rec'.open = still
    BY <2>1, <2>2 DEF RecorderOf
  <2>4. rec'.blocks = r.blocks /\ rec'.text = r.text /\ rec'.thinking = r.thinking /\ rec'.spoke = r.spoke
    BY <2>1, <2>2 DEF RecorderOf
  <2> QED BY <2>1, <2>3, <2>4
<1> QED BY <1>7, <1>8 DEF log

\* A sequence of calls each once, and what is left of it without one of them.
LEMMA WithoutOne ==
    ASSUME NEW S, NEW s \in Seq(S), NEW x,
           \A m, n \in DOMAIN s : s[m] = s[n] => m = n,
           NEW keep, \A n : n \in keep <=> n \in DOMAIN s /\ s[n] # x
    PROVE  /\ Sift(s, keep) \in Seq(S) /\ ToSet(Sift(s, keep)) = ToSet(s) \ {x}
           /\ \A m, n \in DOMAIN Sift(s, keep) : Sift(s, keep)[m] = Sift(s, keep)[n] => m = n
<1> DEFINE t == Sift(s, keep)
<1>0. \A n : n \in keep <=> n \in DOMAIN s /\ s[n] # x
  OBVIOUS
<1>1. /\ t \in Seq(S)
      /\ \E p \in [1..Len(t) -> keep \cap DOMAIN s] :
            /\ \A k \in 1..Len(t) : t[k] = s[p[k]]
            /\ \A j, k \in 1..Len(t) : j < k => p[j] < p[k]
            /\ \A n \in keep \cap DOMAIN s : \E k \in 1..Len(t) : p[k] = n
  <2>1. Sifted(S, s, keep, t)
    BY SiftSifted
  <2> HIDE DEF t
  <2> QED BY <2>1 DEF Sifted
<1> HIDE DEF t
<1>2. PICK p \in [1..Len(t) -> keep \cap DOMAIN s] :
            /\ \A k \in 1..Len(t) : t[k] = s[p[k]]
            /\ \A j, k \in 1..Len(t) : j < k => p[j] < p[k]
            /\ \A n \in keep \cap DOMAIN s : \E k \in 1..Len(t) : p[k] = n
  BY <1>1
<1>3. DOMAIN t = 1..Len(t) /\ Len(t) \in Nat /\ DOMAIN s = 1..Len(s) /\ Len(s) \in Nat
  BY <1>1
<1>4. \A k \in DOMAIN t : p[k] \in DOMAIN s /\ s[p[k]] # x /\ t[k] = s[p[k]]
  BY <1>0, <1>2, <1>3
<1>5. \A n \in DOMAIN s : s[n] # x => \E k \in DOMAIN t : t[k] = s[n]
  <2>1. \A n \in DOMAIN s : s[n] # x => n \in keep \cap DOMAIN s
    BY <1>0
  <2> QED BY <1>2, <1>3, <2>1
<1>6. ToSet(t) = ToSet(s) \ {x}
  BY <1>4, <1>5 DEF ToSet
<1>7. ASSUME NEW m \in DOMAIN t, NEW n \in DOMAIN t, t[m] = t[n]
      PROVE  m = n
  <2>1. p[m] = p[n] /\ p[m] \in Nat
    BY <1>3, <1>4, <1>7
  <2>2. ~(m < n) /\ ~(n < m)
    BY <1>2, <1>3, <2>1
  <2> QED BY <1>3, <2>2
<1> QED BY <1>1, <1>6, <1>7 DEF t

\* What an event appended to a log whose calls are known leaves known.
LEMMA KnownAppend ==
    ASSUME NEW log, Whole(log), NEW e \in Entry, ~IsAssistant(e), NEW called, CallsKnown(log, called)
    PROVE  /\ CallsKnown(Append(log, e), called)
           /\ \A waiting : Paired(log, waiting) => Paired(Append(log, e), waiting)
           /\ \A id : e.type # "tool_result" /\ Unanswered(log, id) => Unanswered(Append(log, e), id)
<1> DEFINE next == Append(log, e)
           n == Len(log)
<1>1. /\ next[n + 1] = e
      /\ \A k \in DOMAIN log : k \in DOMAIN next /\ next[k] = log[k]
      /\ \A k \in DOMAIN next : k \in DOMAIN log \/ k = n + 1
  BY AppendIs
<1> HIDE DEF next, n
<1>2. CallsKnown(next, called)
  BY <1>1 DEF CallsKnown
<1>3. ASSUME NEW waiting, Paired(log, waiting) PROVE Paired(next, waiting)
  BY <1>1, <1>3 DEF Paired
<1>4. \A id : e.type # "tool_result" /\ Unanswered(log, id) => Unanswered(next, id)
  BY <1>1 DEF Unanswered
<1> QED BY <1>2, <1>3, <1>4 DEF next

\* A result that comes in for one of the calls it waits for.
LEMMA AnswerIn ==
    ASSUME NEW log, Whole(log), NEW called \in Nat, CallsKnown(log, called),
           NEW s \in Seq({0} \X (1..called)), NEW id \in ToSet(s),
           \A m, n \in DOMAIN s : s[m] = s[n] => m = n,
           \A x \in ToSet(s) : Asked(log, x) /\ Unanswered(log, x),
           NEW t \in Seq({0} \X (1..called)), ToSet(t) = ToSet(s) \ {id}
    PROVE  LET next == Append(log, Result(id)) IN
           /\ Whole(next) /\ CallsKnown(next, called)
           /\ \A x \in ToSet(t) : Asked(next, x) /\ Unanswered(next, x)
           /\ Paired(log, ToSet(s)) => Paired(next, ToSet(t))
<1> DEFINE e == Result(id)
           next == Append(log, e)
           n == Len(log)
<1>1. id \in {0} \X (1..called) /\ id \in Nat \X Nat
  <2>1. id \in {0} \X (1..called)
    BY DEF ToSet
  <2> QED BY <2>1
<1>2. /\ Whole(next) /\ e \in Entry
      /\ \A x : Asked(log, x) => Asked(next, x)
  BY <1>1, ResultAppends
<1>3. e.type = "tool_result" /\ e.id = id /\ ~IsAssistant(e)
  BY DEF Result, IsAssistant
<1>4. /\ next[n + 1] = e /\ n + 1 \in DOMAIN next
      /\ \A k \in DOMAIN log : k \in DOMAIN next /\ next[k] = log[k]
      /\ \A k \in DOMAIN next : k \in DOMAIN log \/ k = n + 1
  BY <1>2, AppendIs
<1>5. CallsKnown(next, called)
  BY <1>2, <1>3, KnownAppend
<1> HIDE DEF next, n
<1>6. \A x \in ToSet(t) : Asked(next, x) /\ Unanswered(next, x)
  BY <1>2, <1>3, <1>4 DEF Unanswered
<1>7. ASSUME Paired(log, ToSet(s)) PROVE Paired(next, ToSet(t))
  <2>1. next[n + 1] = Result(id)
    BY <1>4
  <2> HIDE DEF e
  <2> QED BY <1>3, <1>4, <1>7, <2>1 DEF Paired
<1> QED BY <1>2, <1>5, <1>6, <1>7 DEF next

LEMMA ResultStep ==
    ASSUME RecorderAssumption, RecInv, NEW id, ToolResult(id)
    PROVE  RecInv'
<1> DEFINE log == FlushedLog(events, rec)
           t == Sift(rec.open, {n \in DOMAIN rec.open : rec.open[n] # id})
<1>1. /\ LogInv /\ RecOk /\ RecOpen /\ RecBlocks
      /\ CallsKnown(events, calls) /\ (deaths = 0 => Paired(events, ToSet(rec.open)))
      /\ rec \in RecorderOf(calls) /\ calls \in Nat /\ stale \subseteq AgentCalls
  BY DEF RecInv, RecOk
<1>2. /\ engine = "agent" /\ rec.at = "turn" /\ stale' = stale \ {id}
      /\ UNCHANGED << running, open, may, engine, turns, from, deaths, calls >>
  BY DEF ToolResult, Streams, RecFrame
<1>3. CASE ~Ours(id)
  <2>1. UNCHANGED << events, rec >>
    BY <1>3 DEF ToolResult
  <2>2. RecOk'
    BY <1>1, <1>2, <2>1 DEF RecOk, AgentCalls
  <2>3. RecBlocks' /\ RecOpen'
    BY <1>1, <1>2, <2>1 DEF RecBlocks, RecOpen, AgentCalls
  <2>4. LogInv'
    BY <1>1, <1>2, <2>1 DEF LogInv, TypeOK, EventsFit, OpenFits
  <2> QED BY <1>1, <1>2, <2>1, <2>2, <2>3, <2>4 DEF RecInv
<1>4. CASE Ours(id)
  <2>1. rec.open \in Seq({0} \X (1..calls)) /\ id \in ToSet(rec.open)
        /\ \A m, n \in DOMAIN rec.open : rec.open[m] = rec.open[n] => m = n
    BY <1>1, <1>4 DEF RecorderOf, RecOpen, Ours
  <2>2. /\ t \in Seq({0} \X (1..calls)) /\ ToSet(t) = ToSet(rec.open) \ {id}
        /\ \A m, n \in DOMAIN t : t[m] = t[n] => m = n
    <3> DEFINE S == {0} \X (1..calls)
               s == rec.open
               keep == {n \in DOMAIN s : s[n] # id}
               u == Sift(s, keep)
    <3>1. s \in Seq(S) /\ \A m, n \in DOMAIN s : s[m] = s[n] => m = n
      BY <2>1
    <3>4. \A n : n \in keep <=> n \in DOMAIN s /\ s[n] # id
      OBVIOUS
    <3> HIDE DEF S, s, keep
    <3>2. /\ u \in Seq(S) /\ ToSet(u) = ToSet(s) \ {id}
          /\ \A m, n \in DOMAIN u : u[m] = u[n] => m = n
      BY <3>1, <3>4, WithoutOne
    <3> QED BY <3>2 DEF S, s, keep
  <2>3. FlushAssistant(<< Result(id) >>, "turn", t)
    BY <1>4 DEF ToolResult
  <2> HIDE DEF t
  <2>4. /\ Whole(log) /\ CallsKnown(log, calls)
        /\ \A x \in ToSet(rec.open) : Asked(log, x) /\ Unanswered(log, x)
        /\ deaths = 0 => Paired(log, ToSet(rec.open))
    BY FlushKeeps
  <2> HIDE DEF log
  <2> DEFINE next == Append(log, Result(id))
  <2>5. /\ Whole(next) /\ CallsKnown(next, calls)
        /\ \A x \in ToSet(t) : Asked(next, x) /\ Unanswered(next, x)
        /\ Paired(log, ToSet(rec.open)) => Paired(next, ToSet(t))
    BY <1>1, <2>1, <2>2, <2>4, AnswerIn
  <2>6. Result(id) \in Entry
    <3>1. id \in {0} \X (1..calls)
      BY <2>1 DEF ToSet
    <3>2. id \in Nat \X Nat
      BY <3>1
    <3> QED BY <3>2, EventTypes DEF Entry
  <2>7. /\ events' = next
        /\ rec' \in RecorderOf(calls) /\ rec'.at = "turn" /\ rec'.open = t
        /\ rec'.blocks = << >> /\ ~rec'.text /\ ~rec'.thinking /\ rec'.spoke = {}
    BY <2>2, <2>3, <2>6, FlushWrites DEF log
  <2> HIDE DEF next
  <2>8. stale' \subseteq AgentCalls /\ stale' \cap ToSet(rec'.open) = {}
    BY <1>1, <1>2, <2>2, <2>7 DEF RecOk
  <2>50. Over
    BY <1>2, <2>2, <2>4, <2>5, <2>7, <2>8 DEF Over
  <2> QED BY <1>2, <2>50, OverKeeps
<1> QED BY <1>3, <1>4

LEMMA DeliveredStep ==
    ASSUME RecorderAssumption, OnlySettled, RecInv, MessageDelivered
    PROVE  RecInv'
<1>0. PICK n \in Attached : FlushAssistant(<< UserMsg("said", n) >>, "turn", rec.open)
  BY DEF MessageDelivered
<1> DEFINE log == FlushedLog(events, rec)
           e == UserMsg("said", n)
<1>1. /\ RecOk /\ rec \in RecorderOf(calls) /\ calls \in Nat /\ may \in Settings
  BY DEF RecInv, RecOk
<1>2. /\ engine = "agent" /\ rec.at = "turn" /\ stale' = stale
      /\ UNCHANGED << running, open, may, engine, turns, from, deaths, calls >>
      /\ FlushAssistant(<< e >>, "turn", rec.open) /\ rec.open = << >>
  BY <1>0, <1>1 DEF MessageDelivered, Streams, RecFrame, OnlySettled
<1>3. /\ Whole(log) /\ CallsKnown(log, calls)
      /\ deaths = 0 => Paired(log, ToSet(rec.open))
  BY FlushKeeps
<1>4. e \in Entry /\ e.type = "user_message" /\ ~IsAssistant(e)
  BY EventTypes DEF Entry, UserMsg, IsAssistant
<1>5. Whole(Append(log, e))
  <2> HIDE DEF log
  <2> QED BY <1>3, WholeSaid
<1> HIDE DEF e
<1>6. rec.open \in Seq({0} \X (1..calls)) /\ ToSet(<< >>) = {}
  BY <1>1 DEF RecorderOf, ToSet
<1>7. /\ events' = Append(log, e)
      /\ rec' \in RecorderOf(calls) /\ rec'.at = "turn" /\ rec'.open = rec.open
      /\ rec'.blocks = << >> /\ ~rec'.text /\ ~rec'.thinking /\ rec'.spoke = {}
  BY <1>2, <1>4, <1>6, FlushWrites
<1> HIDE DEF log
<1>8. /\ CallsKnown(Append(log, e), calls)
      /\ deaths = 0 => Paired(Append(log, e), ToSet(rec.open))
  BY <1>3, <1>4, KnownAppend
<1>9. stale' \subseteq AgentCalls
  BY <1>1, <1>2 DEF RecOk
<1>10. rec'.open = << >> /\ ToSet(rec'.open) = {} /\ DOMAIN rec'.open = {}
  BY <1>2, <1>6, <1>7
<1>50. Over
  BY <1>2, <1>5, <1>7, <1>8, <1>9, <1>10 DEF Over
<1> QED BY <1>2, <1>50, OverKeeps

LEMMA FinishStep ==
    ASSUME RecorderAssumption, RecInv, FinishTurn
    PROVE  RecInv'
<1> DEFINE log == FlushedLog(events, rec)
<1>1. /\ RecOk /\ RecOpen /\ rec \in RecorderOf(calls) /\ calls \in Nat
      /\ rec.open \in Seq({0} \X (1..calls))
  BY DEF RecInv, RecOk, RecorderOf
<1>2. /\ engine = "agent" /\ rec.at = "turn"
      /\ UNCHANGED << running, open, may, engine, deaths, calls >>
      /\ FlushAssistant(<< >>, "closing", rec.open)
      /\ stale' = stale \/ (rec.open # << >> /\ stale' = stale \cup {Last(rec.open)})
  BY DEF FinishTurn, EndFrame
<1>3. /\ Whole(log) /\ CallsKnown(log, calls)
      /\ \A x \in ToSet(rec.open) : Asked(log, x) /\ Unanswered(log, x)
      /\ deaths = 0 => Paired(log, ToSet(rec.open))
  BY FlushKeeps
<1>4. /\ events' = log
      /\ rec' \in RecorderOf(calls) /\ rec'.at = "closing" /\ rec'.open = rec.open
      /\ rec'.blocks = << >> /\ ~rec'.text /\ ~rec'.thinking /\ rec'.spoke = {}
  BY <1>1, <1>2, FlushWrites
<1> HIDE DEF log
<1>5. stale' \subseteq AgentCalls
  <2>1. stale \subseteq AgentCalls
    BY <1>1 DEF RecOk
  <2>2. rec.open # << >> => Last(rec.open) \in {0} \X (1..calls)
    <3> DEFINE S == {0} \X (1..calls)
    <3>1. rec.open \in Seq(S)
      BY <1>1
    <3> HIDE DEF S
    <3>2. rec.open # << >> => Last(rec.open) \in S
      BY <3>1 DEF Last
    <3> QED BY <3>2 DEF S
  <2> QED BY <1>2, <2>1, <2>2 DEF AgentCalls
<1>6. \A m, n \in DOMAIN rec'.open : rec'.open[m] = rec'.open[n] => m = n
  BY <1>1, <1>4 DEF RecOpen
<1>50. Over
  BY <1>2, <1>3, <1>4, <1>5, <1>6 DEF Over
<1> QED BY <1>2, <1>50, OverKeeps

LEMMA CloseStep ==
    ASSUME RecorderAssumption, RecInv, CloseCall
    PROVE  RecInv'
<1> DEFINE id == Head(rec.open)
           t == Tail(rec.open)
<1>1. /\ RecOk /\ RecOpen /\ rec \in RecorderOf(calls) /\ calls \in Nat
      /\ RecBlocks /\ Whole(events) /\ CallsKnown(events, calls)
      /\ deaths = 0 => Paired(events, ToSet(rec.open))
  BY WholeLogInv DEF RecInv, RecOk
<1>2. /\ rec.at = "closing" /\ rec.open # << >>
      /\ events' = Append(events, Result(id))
      /\ rec' = [rec EXCEPT !.open = t]
      /\ UNCHANGED << running, open, may, engine, deaths, calls, stale >>
  BY DEF CloseCall, EndFrame, Record
<1>3. engine = "agent"
  BY <1>1, <1>2, NoRecorderIs DEF RecOk
<1>4. /\ rec.blocks = << >> /\ ~rec.text /\ ~rec.thinking /\ rec.spoke = {}
      /\ \A x \in ToSet(rec.open) : Asked(events, x)
  BY <1>1, <1>2 DEF RecBlocks, RecHolds
<1>5. \A x \in ToSet(rec.open) : Unanswered(events, x)
  BY <1>1 DEF RecOpen, ToSet
<1> DEFINE S == {0} \X (1..calls)
           s == rec.open
<1>6. s \in Seq(S) /\ s # << >> /\ \A m, n \in DOMAIN s : s[m] = s[n] => m = n
  BY <1>1, <1>2 DEF RecorderOf, RecOpen
<1> HIDE DEF S, s
<1>7. /\ Tail(s) \in Seq(S) /\ Head(s) = s[1] /\ 1 \in DOMAIN s
      /\ \A n \in DOMAIN Tail(s) : n + 1 \in DOMAIN s /\ n + 1 # 1 /\ Tail(s)[n] = s[n + 1] /\ n \in Nat
      /\ \A n \in DOMAIN s : n = 1 \/ (n - 1 \in DOMAIN Tail(s) /\ (n - 1) + 1 = n)
  BY <1>6
<1>8. /\ Head(s) \in ToSet(s) /\ ToSet(Tail(s)) = ToSet(s) \ {Head(s)}
      /\ \A m, n \in DOMAIN Tail(s) : Tail(s)[m] = Tail(s)[n] => m = n
  <2>1. Head(s) \in ToSet(s)
    BY <1>7 DEF ToSet
  <2>2. ToSet(Tail(s)) \subseteq ToSet(s) \ {Head(s)}
    BY <1>6, <1>7 DEF ToSet
  <2>3. ToSet(s) \ {Head(s)} \subseteq ToSet(Tail(s))
    <3> SUFFICES ASSUME NEW n \in DOMAIN s, s[n] # s[1]
                 PROVE  \E k \in DOMAIN Tail(s) : Tail(s)[k] = s[n]
      BY <1>7 DEF ToSet
    <3> QED BY <1>7
  <2>4. ASSUME NEW m \in DOMAIN Tail(s), NEW n \in DOMAIN Tail(s), Tail(s)[m] = Tail(s)[n]
        PROVE  m = n
    <3>1. m + 1 = n + 1
      BY <1>6, <1>7, <2>4
    <3> QED BY <1>7, <3>1
  <2> QED BY <2>1, <2>2, <2>3, <2>4
<1>9. /\ t \in Seq(S) /\ id \in ToSet(rec.open) /\ ToSet(t) = ToSet(rec.open) \ {id}
      /\ \A m, n \in DOMAIN t : t[m] = t[n] => m = n
  BY <1>7, <1>8 DEF s
<1> HIDE DEF t, id
<1>10. /\ Whole(Append(events, Result(id))) /\ CallsKnown(Append(events, Result(id)), calls)
       /\ \A x \in ToSet(t) : Asked(Append(events, Result(id)), x) /\ Unanswered(Append(events, Result(id)), x)
       /\ Paired(events, ToSet(rec.open)) => Paired(Append(events, Result(id)), ToSet(t))
  BY <1>1, <1>4, <1>5, <1>6, <1>9, AnswerIn DEF S, s
<1>11. /\ rec' \in RecorderOf(calls) /\ rec'.at = "closing" /\ rec'.open = t
       /\ rec'.blocks = << >> /\ ~rec'.text /\ ~rec'.thinking /\ rec'.spoke = {}
  BY <1>1, <1>2, <1>4, <1>9 DEF RecorderOf, S
<1>12. stale' \subseteq AgentCalls
  BY <1>1, <1>2 DEF RecOk
<1>13. /\ deaths = 0 => Paired(events', ToSet(rec'.open))
       /\ Whole(events)' /\ CallsKnown(events', calls)
  BY <1>1, <1>2, <1>10, <1>11
<1>14. \A x \in ToSet(rec'.open) : Asked(events', x) /\ Unanswered(events', x)
  BY <1>2, <1>10, <1>11
<1>15. \A m, n \in DOMAIN rec'.open : rec'.open[m] = rec'.open[n] => m = n
  BY <1>9, <1>11
<1>50. Over
  BY <1>2, <1>11, <1>12, <1>13, <1>14, <1>15 DEF Over
<1> QED BY <1>2, <1>3, <1>50, OverKeeps

\* A log with one more event on it: no reply of an agent's turn that calls,
\* nor a switch of kind where none is allowed.
AddsOne(log, next) ==
    \E e : /\ next = Append(log, e)
           /\ IsAssistant(e) => \A id \in CallIds(e.blocks) : id[1] # 0
           /\ e.type = "kind" => "kind" \in Ops

LEMMA OneKeepsKnown ==
    ASSUME NEW log, Whole(log), NEW next \in Seq(Entry), AddsOne(log, next),
           NEW called, CallsKnown(log, called)
    PROVE  /\ CallsKnown(next, called)
           /\ \A waiting : Paired(log, waiting) => Paired(next, waiting)
<1>1. PICK e : /\ next = Append(log, e)
               /\ IsAssistant(e) => \A id \in CallIds(e.blocks) : id[1] # 0
  BY DEF AddsOne
<1>2. log \in Seq(Entry) /\ Len(log) \in Nat /\ DOMAIN log = 1..Len(log)
  BY WholeLog DEF Whole
<1>3. next = log \o << e >>
  BY <1>1, <1>2
<1>4. /\ Len(next) = Len(log) + 1 /\ next[Len(log) + 1] = e
      /\ \A k \in 1..Len(log) : next[k] = log[k]
  BY <1>2, <1>3
<1>5. DOMAIN next = 1..(Len(log) + 1)
  BY <1>4
<1> DEFINE n == Len(log)
<1>6. /\ next[n + 1] = e
      /\ \A k \in DOMAIN log : k \in DOMAIN next /\ next[k] = log[k]
      /\ \A k \in DOMAIN next : k \in DOMAIN log \/ k = n + 1
  BY <1>2, <1>4, <1>5
<1> HIDE DEF n
<1>7. CallsKnown(next, called)
  BY <1>1, <1>6 DEF CallsKnown
<1>8. ASSUME NEW waiting, Paired(log, waiting) PROVE Paired(next, waiting)
  BY <1>1, <1>6, <1>8 DEF Paired
<1> QED BY <1>7, <1>8

LEMMA StandInCalls == CallIds(StandIn.blocks) = {} /\ StandIn.type # "kind"
<1>1. StandIn.blocks = << [kind |-> "text"] >>
  BY DEF StandIn
<1>2. \A n \in DOMAIN StandIn.blocks : ~IsCall(StandIn.blocks[n])
  BY <1>1 DEF IsCall
<1>3. CallIds(StandIn.blocks) = {}
  BY <1>2 DEF CallIds
<1> QED BY <1>3 DEF StandIn

\* SessionLog's steps: a reply of a provider's calls by its own place.
LEMMA LogStepAdds ==
    ASSUME LogInv, Next
    PROVE  events' = events \/ AddsOne(events, events')
<1> USE DEF Record
<1>1. ASSUME NEW e, events' = Append(events, e), ~IsAssistant(e),
             e.type = "kind" => "kind" \in Ops
      PROVE  AddsOne(events, events')
  BY <1>1 DEF AddsOne
<1>2. ASSUME NEW shape \in Replies, RecordAssistant(shape)
      PROVE  AddsOne(events, events')
  <2> DEFINE bs == BlocksOf(shape, Len(events) + 1)
  <2>1. events' = Append(events, Assistant(bs))
    BY <1>2 DEF RecordAssistant
  <2>2. Len(events) \in Nat
    BY DEF LogInv, TypeOK
  <2>3. \A id \in CallIds(bs) : id[1] = Len(events) + 1
    <3> DEFINE i == Len(events) + 1
    <3>1. \A n \in DOMAIN shape : shape[n] # "tool_use" => ~IsCall([kind |-> shape[n]])
      BY DEF IsCall
    <3>2. ASSUME NEW n \in DOMAIN bs, IsCall(bs[n])
          PROVE  bs[n].id[1] = i
      <4>1. n \in DOMAIN shape /\ bs[n] = IF shape[n] = "tool_use" THEN [kind |-> "tool_use", id |-> << i, n >>]
                                          ELSE [kind |-> shape[n]]
        BY DEF BlocksOf
      <4>2. bs[n] = [kind |-> "tool_use", id |-> << i, n >>]
        BY <3>1, <3>2, <4>1
      <4> HIDE DEF i, bs
      <4> QED BY <4>2
    <3> HIDE DEF bs
    <3> QED BY <3>2 DEF CallIds
  <2>4. \A id \in CallIds(bs) : id[1] # 0
    BY <2>2, <2>3
  <2>5. Assistant(bs).blocks = bs /\ Assistant(bs).type # "kind"
    BY DEF Assistant
  <2> QED BY <2>1, <2>4, <2>5 DEF AddsOne
<1>3. ASSUME RecordStandIn PROVE AddsOne(events, events')
  <2>1. events' = Append(events, StandIn)
    BY <1>3 DEF RecordStandIn
  <2> QED BY <2>1, StandInCalls DEF AddsOne
<1>4. TurnNext => events' = events \/ AddsOne(events, events')
  <2>1. ASSUME NEW said, NEW n, RecordUser(said, n) PROVE AddsOne(events, events')
    BY <1>1, <2>1 DEF RecordUser, UserMsg, IsAssistant
  <2>2. ASSUME NEW id, RecordToolResult(id) PROVE AddsOne(events, events')
    BY <1>1, <2>2 DEF RecordToolResult, Result, IsAssistant
  <2>3. Stop => events' = events
    BY DEF Stop
  <2>4. ASSUME RecordCompaction PROVE AddsOne(events, events')
    BY <1>1, <2>4 DEF RecordCompaction, Compaction, IsAssistant
  <2> QED BY <1>2, <1>3, <2>1, <2>2, <2>3, <2>4 DEF TurnNext
<1>5. HisNext => AddsOne(events, events')
  <2>1. ASSUME NEW k, RecordKind(k) PROVE AddsOne(events, events')
    BY <1>1, <2>1 DEF RecordKind, AtRest, SwitchKind, IsAssistant
  <2>2. ASSUME NEW i, Rewind(i) PROVE AddsOne(events, events')
    BY <1>1, <2>2 DEF Rewind, RewindTo, IsAssistant
  <2>3. ASSUME NEW i, Unrewind(i) PROVE AddsOne(events, events')
    BY <1>1, <2>3 DEF Unrewind, UnrewindOf, IsAssistant
  <2>4. ASSUME NEW T, Elide(T) PROVE AddsOne(events, events')
    BY <1>1, <2>4 DEF Elide, ElideOf, IsAssistant
  <2>5. ASSUME NEW T, Unelide(T) PROVE AddsOne(events, events')
    BY <1>1, <2>5 DEF Unelide, UnelideOf, IsAssistant
  <2>6. ASSUME NEW i, NEW b, ElideBlock(i, b) PROVE AddsOne(events, events')
    BY <1>1, <2>6 DEF ElideBlock, ElideOf, IsAssistant
  <2>7. ASSUME NEW i, NEW b, UnelideBlock(i, b) PROVE AddsOne(events, events')
    BY <1>1, <2>7 DEF UnelideBlock, UnelideOf, IsAssistant
  <2>8. ASSUME NEW i, NEW text, NEW n, Edit(i, text, n) PROVE AddsOne(events, events')
    BY <1>1, <2>8 DEF Edit, EditOf, IsAssistant
  <2>9. ASSUME NEW i, NEW b, NEW text, EditBlock(i, b, text) PROVE AddsOne(events, events')
    BY <1>1, <2>9 DEF EditBlock, EditOf, IsAssistant
  <2> QED BY <2>1, <2>2, <2>3, <2>4, <2>5, <2>6, <2>7, <2>8, <2>9 DEF HisNext
<1> QED BY <1>4, <1>5 DEF Next

\* He works on the log between turns, and nothing of a turn moves.
LEMMA HisAtRest ==
    ASSUME HisNext
    PROVE  ~running /\ UNCHANGED << running, open >>
BY DEF HisNext, AtRest, RecordKind, Rewind, Unrewind, Elide, Unelide, ElideBlock,
       UnelideBlock, Edit, EditBlock

\* With no agent's turn running, the recorder holds nothing.
LEMMA IdleHolds ==
    ASSUME rec = NoRecorder
    PROVE  RecOpen /\ RecBlocks
<1>1. rec.at = "none" /\ rec.blocks = << >> /\ rec.open = << >>
  BY NoRecorderIs
<1>2. RecOpen
  BY <1>1 DEF RecOpen
<1>3. CallIds(rec.blocks) = {} /\ CallsOnce(rec.blocks) /\ DOMAIN rec.blocks = {}
  BY <1>1 DEF CallIds, CallsOnce
<1>4. NewCalls(events, rec.blocks)
  BY <1>3 DEF NewCalls
<1>5. RecHolds(rec, events)
  BY <1>1 DEF RecHolds, ToSet
<1> QED BY <1>2, <1>3, <1>4, <1>5 DEF RecBlocks

\* A step of SessionLog's with no agent's turn running.
LEMMA LogStepKeeps ==
    ASSUME RecInv, Next, rec = NoRecorder, engine' \in {"none", "provider"},
           engine' = "none" <=> ~running',
           UNCHANGED << may, rec, calls, deaths, stale >>
    PROVE  RecInv'
<1>1. /\ LogInv /\ RecOk /\ Whole(events) /\ CallsKnown(events, calls)
      /\ deaths = 0 => Paired(events, ToSet(rec.open))
  BY WholeLogInv DEF RecInv
<1>2. LogInv'
  BY <1>1, TypeStep, FitsStep DEF LogInv
<1>3. events' \in Seq(Entry)
  BY <1>2 DEF LogInv, TypeOK, Entry
<1>4. /\ CallsKnown(events', calls)
      /\ deaths = 0 => Paired(events', ToSet(rec.open))
  BY <1>1, <1>3, LogStepAdds, OneKeepsKnown
<1>5. RecOpen' /\ RecBlocks'
  <2>1. rec' = NoRecorder
    OBVIOUS
  <2>2. rec'.at = "none" /\ rec'.blocks = << >> /\ rec'.open = << >>
    BY <2>1, NoRecorderIs
  <2>3. RecOpen'
    BY <2>2 DEF RecOpen
  <2>4. CallIds(rec'.blocks) = {} /\ CallsOnce(rec'.blocks) /\ DOMAIN rec'.blocks = {}
    BY <2>2 DEF CallIds, CallsOnce
  <2>5. NewCalls(events', rec'.blocks)
    BY <2>4 DEF NewCalls
  <2>6. RecHolds(rec', events')
    BY <2>2 DEF RecHolds, ToSet
  <2> QED BY <2>3, <2>4, <2>5, <2>6 DEF RecBlocks
<1>6. RecOk'
  <2>1. rec.at = "none"
    BY NoRecorderIs
  <2> QED BY <1>1, <2>1 DEF RecOk, AgentCalls
<1> QED BY <1>2, <1>4, <1>5, <1>6 DEF RecInv

LEMMA ProviderStep ==
    ASSUME RecInv, ProviderTurn
    PROVE  RecInv'
<1>1. LogInv /\ RecOk
  BY DEF RecInv
<1>2. rec = NoRecorder /\ Next /\ UNCHANGED << may, rec, calls, deaths, stale >>
  BY <1>1 DEF ProviderTurn, RecOk, Next
<1>3. engine' \in {"none", "provider"} /\ (engine' = "none" <=> ~running')
  BY DEF ProviderTurn
<1> QED BY <1>2, <1>3, LogStepKeeps

LEMMA HisStep ==
    ASSUME RecInv, HisNext, UNCHANGED recVars
    PROVE  RecInv'
<1>1. RecOk /\ ~running /\ UNCHANGED running
  BY HisAtRest DEF RecInv
<1>2. engine = "none" /\ rec = NoRecorder
  BY <1>1 DEF RecOk
<1>3. engine' = "none" /\ ~running' /\ UNCHANGED << may, rec, calls, deaths, stale >>
  BY <1>1, <1>2 DEF recVars
<1> QED BY <1>2, <1>3, LogStepKeeps DEF Next

LEMMA StartStep ==
    ASSUME RecorderAssumption, RecInv, AgentStarts
    PROVE  RecInv'
<1>0. PICK n \in Attached : RecordUser("said", n)
  BY DEF AgentStarts
<1> DEFINE e == UserMsg("said", n)
<1>1. /\ LogInv /\ RecOk /\ Whole(events) /\ CallsKnown(events, calls)
      /\ deaths = 0 => Paired(events, ToSet(rec.open))
  BY WholeLogInv DEF RecInv
<1>2. /\ ~running /\ events' = Append(events, e) /\ running' = TRUE /\ engine' = "agent"
      /\ rec' = [NoRecorder EXCEPT !.at = "turn"]
      /\ UNCHANGED << open, may, calls, stale, deaths >>
  BY <1>0 DEF AgentStarts, RecordUser, Record
<1>3. rec = NoRecorder /\ open = {}
  BY <1>1, <1>2 DEF RecOk, LogInv, TypeOK
<1>4. rec.open = << >> /\ ToSet(rec.open) = {}
  <2>1. rec.open = << >>
    BY <1>3, NoRecorderIs
  <2>2. ToSet(<< >>) = {}
    BY DEF ToSet
  <2> QED BY <2>1, <2>2
<1>5. e \in Entry /\ ~IsAssistant(e)
  BY EventTypes DEF Entry, UserMsg, IsAssistant
<1>6. Whole(events')
  BY <1>1, <1>2, WholeSaid
<1> HIDE DEF e
<1>7. /\ CallsKnown(events', calls)
      /\ deaths = 0 => Paired(events', {})
  BY <1>1, <1>2, <1>4, <1>5, KnownAppend
<1>8. LogInv'
  BY <1>2, <1>3, <1>6, LogInvHere
<1>9. /\ rec' \in RecorderOf(calls) /\ rec'.at = "turn" /\ rec'.open = << >>
      /\ rec'.blocks = << >> /\ ~rec'.text /\ ~rec'.thinking /\ rec'.spoke = {}
  <2> DEFINE r == NoRecorder
  <2>1. /\ r \in RecorderOf(calls) /\ r.blocks = << >> /\ ~r.text /\ ~r.thinking /\ r.spoke = {}
        /\ r.open = << >>
    BY NoRecorderIs
  <2>2. rec' = [r EXCEPT !.at = "turn"]
    BY <1>2
  <2> HIDE DEF r
  <2> QED BY <2>1, <2>2 DEF RecorderOf
<1>10. ToSet(rec'.open) = {} /\ DOMAIN rec'.open = {} /\ DOMAIN rec'.blocks = {}
  BY <1>9 DEF ToSet
<1>11. RecOk'
  BY <1>1, <1>2, <1>3, <1>9, <1>10 DEF RecOk, AgentCalls
<1>12. RecOpen'
  BY <1>10 DEF RecOpen
<1>13. RecBlocks'
  <2>1. CallIds(rec'.blocks) = {} /\ CallsOnce(rec'.blocks)
    BY <1>10 DEF CallIds, CallsOnce
  <2>2. NewCalls(events', rec'.blocks)
    BY <2>1 DEF NewCalls
  <2>3. RecHolds(rec', events')
    BY <1>9, <1>10 DEF RecHolds
  <2> QED BY <1>10, <2>1, <2>2, <2>3 DEF RecBlocks
<1> QED BY <1>2, <1>7, <1>8, <1>10, <1>11, <1>12, <1>13 DEF RecInv

\* A turn that ends, or dies, leaves no recorder.
LEMMA GoneKeeps ==
    ASSUME RecorderAssumption, RecInv, engine = "agent",
           rec' = NoRecorder, engine' = "none", running' = FALSE,
           UNCHANGED << open, may, calls >>, deaths' \in Nat, stale' = stale,
           Whole(events)', CallsKnown(events', calls),
           deaths' = 0 => Paired(events', {})
    PROVE  RecInv'
<1>1. RecOk /\ open = {}
  BY DEF RecInv, RecOk
<1>2. LogInv'
  BY <1>1, LogInvHere
<1>3. rec'.at = "none" /\ rec'.blocks = << >> /\ rec'.open = << >> /\ rec' \in RecorderOf(calls)
  BY NoRecorderIs
<1>4. RecOk'
  BY <1>1, <1>3 DEF RecOk, AgentCalls
<1>5. RecOpen'
  BY <1>3 DEF RecOpen
<1>6. CallIds(rec'.blocks) = {} /\ CallsOnce(rec'.blocks) /\ DOMAIN rec'.blocks = {} /\ ToSet(rec'.open) = {}
  BY <1>3 DEF CallIds, CallsOnce, ToSet
<1>7. NewCalls(events', rec'.blocks)
  BY <1>6 DEF NewCalls
<1>8. RecHolds(rec', events')
  BY <1>3, <1>6 DEF RecHolds
<1> QED BY <1>2, <1>4, <1>5, <1>6, <1>7, <1>8 DEF RecInv, RecBlocks

LEMMA EndStep ==
    ASSUME RecorderAssumption, RecInv, AgentEnds
    PROVE  RecInv'
<1>1. /\ RecOk /\ Whole(events) /\ CallsKnown(events, calls)
      /\ deaths = 0 => Paired(events, ToSet(rec.open))
  BY WholeLogInv DEF RecInv
<1>2. /\ rec.at = "closing" /\ rec.open = << >>
      /\ events' = events \/ events' = Append(events, StandIn)
      /\ rec' = NoRecorder /\ engine' = "none" /\ running' = FALSE
      /\ UNCHANGED << open, may, calls, deaths, stale >>
  BY DEF AgentEnds, EndFrame, Record
<1>3. engine = "agent" /\ ToSet(rec.open) = {} /\ deaths' \in Nat
  <2>1. engine = "agent"
    BY <1>1, <1>2, NoRecorderIs DEF RecOk
  <2>2. ToSet(<< >>) = {}
    BY DEF ToSet
  <2> QED BY <1>1, <1>2, <2>1, <2>2 DEF RecOk
<1>4. Whole(events')
  BY <1>1, <1>2, StandInAppends
<1>5. events' # events => AddsOne(events, events')
  BY <1>2, StandInCalls DEF AddsOne
<1>6. events' \in Seq(Entry)
  BY <1>4 DEF Whole
<1>7. CallsKnown(events', calls) /\ (deaths = 0 => Paired(events', {}))
  BY <1>1, <1>3, <1>5, <1>6, OneKeepsKnown
<1> QED BY <1>2, <1>3, <1>4, <1>7, GoneKeeps

LEMMA DiesStep ==
    ASSUME RecorderAssumption, RecInv, Dies
    PROVE  RecInv'
<1>1. /\ RecOk /\ Whole(events) /\ CallsKnown(events, calls)
  BY WholeLogInv DEF RecInv
<1>2. /\ engine = "agent" /\ events' = events
      /\ rec' = NoRecorder /\ engine' = "none" /\ running' = FALSE
      /\ deaths' = deaths + 1
      /\ UNCHANGED << open, may, calls, stale >>
  BY DEF Dies, EndFrame
<1>3. deaths' \in Nat /\ deaths' # 0
  BY <1>1, <1>2 DEF RecOk
<1>4. Whole(events')
  BY <1>1, <1>2
<1>5. CallsKnown(events', calls)
  BY <1>1, <1>2
<1> QED BY <1>2, <1>3, <1>4, <1>5, GoneKeeps

LEMMA RecInvInit == RecInit => RecInv
<1> SUFFICES ASSUME RecInit PROVE RecInv
  OBVIOUS
<1>1. LogInv
  BY TypeInit, FitsInit DEF RecInit, LogInv
<1>2. /\ may \in Settings /\ engine = "none" /\ rec = NoRecorder
      /\ calls = 0 /\ stale = {} /\ deaths = 0 /\ running = FALSE
  BY DEF RecInit, Init
<1>3. RecOpen /\ RecBlocks
  BY <1>2, IdleHolds
<1>4. RecOk
  <2>1. rec \in RecorderOf(calls) /\ rec.at = "none"
    BY <1>2, NoRecorderIs
  <2> QED BY <1>2, <2>1 DEF RecOk
<1>5. \A i \in DOMAIN events : ~IsAssistant(events[i])
  <2>1. PICK k \in Kinds : events = << Created(k) >>
    BY DEF RecInit, Init
  <2>2. DOMAIN events = {1} /\ events[1].type = "session_created"
    BY <2>1 DEF Created
  <2> QED BY <2>2 DEF IsAssistant
<1> QED BY <1>1, <1>3, <1>4, <1>5 DEF RecInv, CallsKnown, Paired

LEMMA RecInvStep ==
    ASSUME RecorderAssumption, OnlySettled, RecInv, [RecNext]_allVars
    PROVE  RecInv'
<1>1. CASE AgentStarts
  BY <1>1, StartStep
<1>2. CASE Stream
  <2>1. TextDelta \/ ThinkingDelta \/ (\E n \in 1..calls : PushSubagent(n)) => RecInv'
    BY DeltaStep
  <2> QED BY <1>2, <2>1, CallStep, DeliveredStep, ResultStep DEF Stream
<1>3. CASE FinishTurn
  BY <1>3, FinishStep
<1>4. CASE CloseCall
  BY <1>4, CloseStep
<1>5. CASE AgentEnds
  BY <1>5, EndStep
<1>6. CASE Dies
  BY <1>6, DiesStep
<1>7. CASE ProviderTurn
  BY <1>7, ProviderStep
<1>8. CASE HisNext /\ UNCHANGED recVars
  BY <1>8, HisStep
<1>9. CASE UNCHANGED allVars
  <2>1. UNCHANGED << events, running, open, may, engine, rec, calls, stale, deaths >>
    BY <1>9 DEF allVars, vars, recVars
  <2>2. RecOk' /\ RecOpen' /\ RecBlocks'
    BY <2>1 DEF RecInv, RecOk, RecOpen, RecBlocks, AgentCalls
  <2>3. LogInv'
    BY <2>1 DEF RecInv, LogInv, TypeOK, EventsFit, OpenFits
  <2> QED BY <2>1, <2>2, <2>3 DEF RecInv
<1> QED BY <1>1, <1>2, <1>3, <1>4, <1>5, <1>6, <1>7, <1>8, <1>9 DEF RecNext

-----------------------------------------------------------------------------
(* What a turn's stream gave, and what is written of it.                   *)

\* Flattening goes on from where it was.
LEMMA FlattenAppend ==
    ASSUME NEW S, NEW ss \in Seq(Seq(S)), NEW x \in Seq(S)
    PROVE  /\ FlattenSeq(ss) \in Seq(S)
           /\ FlattenSeq(Append(ss, x)) = FlattenSeq(ss) \o x
           /\ ss = << >> => FlattenSeq(ss) = << >>
<1> DEFINE tt == Append(ss, x)
           n == Len(ss)
<1>1. PICK f : /\ DOMAIN f = 0..Len(ss)
               /\ f[0] = << >>
               /\ \A k \in 1..Len(ss) : f[k] = f[k - 1] \o ss[k]
               /\ FlattenSeq(ss) = f[Len(ss)]
  BY FlattenSteps
<1>2. /\ tt \in Seq(Seq(S)) /\ Len(tt) = n + 1 /\ tt[n + 1] = x /\ n \in Nat
      /\ \A k \in 1..n : tt[k] = ss[k] /\ ss[k] \in Seq(S)
  OBVIOUS
<1> HIDE DEF tt
<1>3. PICK g : /\ DOMAIN g = 0..Len(tt)
               /\ g[0] = << >>
               /\ \A k \in 1..Len(tt) : g[k] = g[k - 1] \o tt[k]
               /\ FlattenSeq(tt) = g[Len(tt)]
  BY <1>2, FlattenSteps
<1> DEFINE G == {k \in 0..n : f[k] = g[k] /\ f[k] \in Seq(S)}
<1>4. 0 \in G
  <2>1. f[0] = g[0] /\ f[0] = << >>
    BY <1>1, <1>3, Zenon
  <2>2. << >> \in Seq(S) /\ 0 \in 0..n
    BY <1>2
  <2> QED BY <2>1, <2>2
<1>5. ASSUME NEW k \in 0..(n - 1), k \in G
      PROVE  k + 1 \in G
  <2>7. n \in Nat
    BY <1>2
  <2>1. /\ k + 1 \in 1..n /\ k + 1 \in 1..(n + 1) /\ (k + 1) - 1 = k /\ k + 1 \in 0..n
    <3> HIDE DEF G, n
    <3> QED BY <2>7
  <2>2. f[k + 1] = f[k] \o ss[k + 1] /\ g[k + 1] = g[k] \o tt[k + 1]
    BY <1>1, <1>2, <1>3, <2>1
  <2>3. ss[k + 1] = tt[k + 1] /\ ss[k + 1] \in Seq(S)
    BY <1>2, <2>1
  <2>4. f[k] = g[k] /\ f[k] \in Seq(S)
    BY <1>5
  <2>5. f[k] \o ss[k + 1] \in Seq(S)
    BY <2>3, <2>4
  <2>6. f[k + 1] = g[k + 1] /\ f[k + 1] \in Seq(S)
    BY <2>2, <2>3, <2>4, <2>5, Zenon
  <2> QED BY <2>1, <2>6
<1>6. n \in G
  <2> HIDE DEF G, n
  <2>1. n \in Nat
    BY <1>2
  <2>2. 0..n \subseteq G
    BY <2>1, <1>4, <1>5, UpTo
  <2> QED BY <2>1, <2>2
<1> HIDE DEF G, n
<1>7. f[n] = g[n] /\ f[n] \in Seq(S)
  BY <1>6 DEF G
<1>8. g[n + 1] = g[n] \o x
  <2>1. n + 1 \in 1..(n + 1) /\ (n + 1) - 1 = n
    BY <1>2
  <2> QED BY <1>2, <1>3, <2>1
<1>9. ss = << >> => n = 0
  BY DEF n
<1> QED BY <1>1, <1>2, <1>3, <1>7, <1>8, <1>9 DEF tt, n

\* What one item of a stream can be.
Item == {<< k >> : k \in BlockKinds \cup {"his"}} \cup ({"call", "result"} \X (Nat \X Nat))

LEMMA BlockItemIs ==
    ASSUME NEW b \in Block
    PROVE  /\ BlockItem(b) \in Seq(Item)
           /\ IsCall(b) => BlockItem(b) = << << "call", b.id >> >>
           /\ b.kind = "narrative" => BlockItem(b) = << >>
           /\ b.kind = "text" => BlockItem(b) = << << "text" >> >>
           /\ b.kind = "thinking" => BlockItem(b) = << << "thinking" >> >>
<1>1. CASE IsCall(b)
  <2>1. b.kind = "tool_use" /\ b.id \in Nat \X Nat
    BY <1>1, BlockFields DEF IsCall
  <2>2. << "call", b.id >> \in Item
    BY <2>1 DEF Item
  <2>3. BlockItem(b) = << << "call", b.id >> >>
    BY <1>1 DEF BlockItem
  <2> HIDE DEF Item
  <2>4. BlockItem(b) \in Seq(Item)
    BY <2>2, <2>3
  <2> QED BY <1>1, <2>1, <2>3, <2>4
<1>2. CASE ~IsCall(b)
  <2>1. b.kind \in BlockKinds
    BY DEF Block, BlockKinds
  <2>2. << b.kind >> \in Item
    BY <2>1 DEF Item
  <2>3. BlockItem(b) = IF b.kind = "narrative" THEN << >> ELSE << << b.kind >> >>
    BY <1>2 DEF BlockItem
  <2>4. BlockItem(b) \in Seq(Item)
    <3> HIDE DEF Item
    <3>1. << >> \in Seq(Item) /\ << << b.kind >> >> \in Seq(Item)
      BY <2>2
    <3> QED BY <2>3, <3>1
  <2> QED BY <1>2, <2>3, <2>4
<1> QED BY <1>1, <1>2

\* One more block gives its item.
LEMMA ItemsAppend ==
    ASSUME NEW bs \in Seq(Block), NEW b \in Block
    PROVE  /\ Items(bs) \in Seq(Item)
           /\ Items(Append(bs, b)) = Items(bs) \o BlockItem(b)
           /\ bs = << >> => Items(bs) = << >>
<1> DEFINE ss == [n \in DOMAIN bs |-> BlockItem(bs[n])]
           tt == [n \in DOMAIN Append(bs, b) |-> BlockItem(Append(bs, b)[n])]
           x == BlockItem(b)
<1>1. DOMAIN bs = 1..Len(bs) /\ Len(bs) \in Nat /\ \A n \in DOMAIN bs : bs[n] \in Block
  OBVIOUS
<1>2. \A n \in DOMAIN bs : BlockItem(bs[n]) \in Seq(Item)
  BY <1>1, BlockItemIs
<1>3. ss \in Seq(Seq(Item)) /\ x \in Seq(Item) /\ Len(ss) = Len(bs)
  <2> HIDE DEF Item
  <2>1. ss \in [1..Len(bs) -> Seq(Item)]
    BY <1>1, <1>2
  <2> QED BY <1>1, <2>1, BlockItemIs
<1>4. tt = Append(ss, x)
  <2> DEFINE m == Len(bs)
             a == Append(bs, b)
  <2>1. DOMAIN a = 1..(m + 1) /\ a[m + 1] = b /\ m \in Nat /\ DOMAIN bs = 1..m
    BY <1>1
  <2>2. \A n \in 1..m : a[n] = bs[n]
    BY <1>1
  <2> HIDE DEF a, x
  <2>3. DOMAIN tt = 1..(m + 1) /\ \A n \in 1..(m + 1) : tt[n] = BlockItem(a[n])
    BY <2>1 DEF a
  <2> DEFINE ap == Append(ss, x)
  <2>4. DOMAIN ap = 1..(m + 1) /\ ap[m + 1] = x /\ \A n \in 1..m : ap[n] = ss[n]
    <3> HIDE DEF ss, m
    <3>1. Len(ss) = m
      BY <1>3 DEF m
    <3> QED BY <1>3, <2>1, <3>1
  <2>5. \A n \in 1..m : ss[n] = BlockItem(bs[n])
    BY <2>1
  <2>6. \A n \in 1..(m + 1) : n \in 1..m \/ n = m + 1
    BY <2>1
  <2>7. \A n \in 1..(m + 1) : tt[n] = ap[n]
    BY <2>1, <2>2, <2>3, <2>4, <2>5, <2>6 DEF x
  <2>8. tt = [n \in 1..(m + 1) |-> tt[n]] /\ ap = [n \in 1..(m + 1) |-> ap[n]]
    <3>1. tt = [n \in DOMAIN tt |-> tt[n]]
      OBVIOUS
    <3>2. ap \in Seq(Seq(Item))
      <4> HIDE DEF ss, Item
      <4> QED BY <1>3
    <3>3. ap = [n \in DOMAIN ap |-> ap[n]]
      <4> HIDE DEF ap
      <4> QED BY <3>2
    <3> QED BY <2>3, <2>4, <3>1, <3>3
  <2> HIDE DEF tt, ap, m
  <2> QED BY <2>7, <2>8 DEF ap
<1>5. Items(bs) = FlattenSeq(ss) /\ Items(Append(bs, b)) = FlattenSeq(tt)
  BY DEF Items
<1>6. bs = << >> => ss = << >>
  BY <1>1
<1> HIDE DEF ss, tt, x
<1> QED BY <1>3, <1>4, <1>5, <1>6, FlattenAppend DEF x

\* Narratives are of no stream but the subagents' own.
LEMMA ItemsNarratives ==
    ASSUME NEW bs \in Seq(Block), NEW k \in Nat
    PROVE  Items(bs \o [n \in 1..k |-> [kind |-> "narrative"]]) = Items(bs)
<1> DEFINE b == [kind |-> "narrative"]
           na(m) == [n \in 1..m |-> b]
           G == {m \in Nat : Items(bs \o na(m)) = Items(bs)}
<1>1. b \in Block /\ b.kind = "narrative"
  BY DEF Block, BlockKinds
<1> HIDE DEF b
<1>2. ASSUME NEW m \in Nat
      PROVE  /\ na(m) \in Seq(Block) /\ na(m + 1) = Append(na(m), b)
             /\ bs \o na(m + 1) = Append(bs \o na(m), b) /\ bs \o na(m) \in Seq(Block)
  <2>1. na(m) \in Seq(Block) /\ Len(na(m)) = m
    BY <1>1
  <2>2. na(m + 1) = Append(na(m), b)
    BY <1>1
  <2>3. ASSUME NEW s \in Seq(Block)
        PROVE  bs \o Append(s, b) = Append(bs \o s, b) /\ bs \o s \in Seq(Block)
    BY <1>1
  <2> HIDE DEF na
  <2> QED BY <2>1, <2>2, <2>3
<1>3. 0 \in G
  <2>1. na(0) = << >>
    OBVIOUS
  <2>2. bs \o << >> = bs
    OBVIOUS
  <2> HIDE DEF na
  <2> QED BY <2>1, <2>2
<1>4. ASSUME NEW m \in Nat, m \in G
      PROVE  m + 1 \in G
  <2> HIDE DEF na
  <2>1. Items(bs \o na(m + 1)) = Items(bs \o na(m)) \o BlockItem(b)
    BY <1>1, <1>2, ItemsAppend
  <2>2. BlockItem(b) = << >> /\ Items(bs) \in Seq(Item)
    BY <1>1, BlockItemIs, ItemsAppend
  <2>3. Items(bs) \o << >> = Items(bs)
    <3> HIDE DEF Item
    <3> QED BY <2>2
  <2> QED BY <1>4, <2>1, <2>2, <2>3
<1> HIDE DEF G
<1>5. k \in G
  BY <1>3, <1>4, NatInd
<1> QED BY <1>5 DEF G, b

LEMMA Joined ==
    ASSUME NEW S, NEW a \in Seq(S), NEW b \in Seq(S), NEW c \in Seq(S)
    PROVE  /\ (a \o b) \o c = a \o (b \o c)
           /\ a \o b \in Seq(S) /\ a \o << >> = a /\ << >> \o a = a
           /\ SubSeq(a \o b, 1, Len(a)) = a /\ Len(a) <= Len(a \o b)
           /\ \A x \in S : Append(a, x) = a \o << x >> /\ << x >> \in Seq(S)
<1>1. (a \o b) \o c = a \o (b \o c)
  OBVIOUS
<1>2. a \o b \in Seq(S) /\ a \o << >> = a /\ << >> \o a = a
  OBVIOUS
<1>3. SubSeq(a \o b, 1, Len(a)) = a /\ Len(a) <= Len(a \o b)
  OBVIOUS
<1>4. \A x \in S : Append(a, x) = a \o << x >> /\ << x >> \in Seq(S)
  OBVIOUS
<1> QED BY <1>1, <1>2, <1>3, <1>4

LEMMA EventItemsAre ==
    ASSUME NEW e \in Entry
    PROVE  /\ EventItems(e) \in Seq(Item)
           /\ IsAssistant(e) => EventItems(e) = Items(e.blocks)
           /\ e.type = "tool_result" => EventItems(e) = << << "result", e.id >> >>
           /\ IsUser(e) => EventItems(e) = << << "his" >> >>
<1>1. CASE IsAssistant(e)
  <2>3. e.type # "tool_result" /\ ~IsUser(e)
    BY <1>1 DEF IsAssistant, IsUser
  <2>1. EventItems(e) = Items(e.blocks)
    BY <1>1, <2>3 DEF EventItems
  <2>2. e.blocks \in Seq(Block)
    BY <1>1, EntryFields
  <2>4. [kind |-> "text"] \in Block
    BY DEF Block, BlockKinds
  <2>5. Items(e.blocks) \in Seq(Item)
    BY <2>2, <2>4, ItemsAppend
  <2> QED BY <2>1, <2>3, <2>5
<1>2. CASE e.type = "tool_result"
  <2>3. ~IsAssistant(e) /\ ~IsUser(e)
    BY <1>2 DEF IsAssistant, IsUser
  <2>1. EventItems(e) = << << "result", e.id >> >>
    BY <1>2, <2>3 DEF EventItems
  <2>4. e.id \in Nat \X Nat
    BY <1>2, EntryFields
  <2>2. << "result", e.id >> \in Item
    BY <2>4 DEF Item
  <2> HIDE DEF Item
  <2> QED BY <1>2, <2>1, <2>2, <2>3
<1>3. CASE IsUser(e)
  <2>3. ~IsAssistant(e) /\ e.type # "tool_result"
    BY <1>3 DEF IsAssistant, IsUser
  <2>1. EventItems(e) = << << "his" >> >>
    BY <1>3, <2>3 DEF EventItems
  <2>2. << "his" >> \in Item
    BY DEF Item
  <2> HIDE DEF Item
  <2> QED BY <1>3, <2>1, <2>2 DEF IsAssistant, IsUser
<1>4. CASE ~IsAssistant(e) /\ e.type # "tool_result" /\ ~IsUser(e)
  <2>1. EventItems(e) = << >>
    BY <1>4 DEF EventItems
  <2> QED BY <1>4, <2>1
<1> QED BY <1>1, <1>2, <1>3, <1>4

\* What the log holds of a turn that answers the message at f.
WrittenFrom(log, f) == FlattenSeq([n \in 1..(Len(log) - f) |-> EventItems(log[f + n])])

LEMMA WrittenAppend ==
    ASSUME NEW log \in Seq(Entry), NEW f \in 0..Len(log), NEW e \in Entry
    PROVE  /\ WrittenFrom(log, f) \in Seq(Item)
           /\ WrittenFrom(Append(log, e), f) = WrittenFrom(log, f) \o EventItems(e)
           /\ f = Len(log) => WrittenFrom(log, f) = << >>
<1> DEFINE m == Len(log) - f
           next == Append(log, e)
           ss == [n \in 1..m |-> EventItems(log[f + n])]
           tt == [n \in 1..(Len(next) - f) |-> EventItems(next[f + n])]
           x == EventItems(e)
<1>1. m \in Nat /\ Len(next) - f = m + 1 /\ next[f + (m + 1)] = e
      /\ \A n \in 1..m : f + n \in 1..Len(log) /\ next[f + n] = log[f + n] /\ log[f + n] \in Entry
  OBVIOUS
<1>2. ss \in Seq(Seq(Item)) /\ x \in Seq(Item) /\ Len(ss) = m
  <2>1. \A n \in 1..m : EventItems(log[f + n]) \in Seq(Item)
    BY <1>1, EventItemsAre
  <2> HIDE DEF m, Item
  <2>2. ss \in [1..m -> Seq(Item)]
    BY <2>1
  <2> QED BY <1>1, <2>2, EventItemsAre
<1> HIDE DEF m, next
<1>3. tt = Append(ss, x)
  <2> DEFINE ap == Append(ss, x)
  <2>1. DOMAIN ap = 1..(m + 1) /\ ap[m + 1] = x /\ (\A n \in 1..m : ap[n] = ss[n]) /\ ap \in Seq(Seq(Item))
    <3> HIDE DEF ss, x, Item
    <3> QED BY <1>1, <1>2
  <2>2. ap = [n \in DOMAIN ap |-> ap[n]]
    <3> HIDE DEF ap
    <3> QED BY <2>1
  <2>3. tt = [n \in 1..(m + 1) |-> EventItems(next[f + n])]
    BY <1>1
  <2>4. \A n \in 1..(m + 1) : n \in 1..m \/ n = m + 1
    BY <1>1
  <2> HIDE DEF ap
  <2>5. \A n \in 1..(m + 1) : EventItems(next[f + n]) = ap[n]
    BY <1>1, <2>1, <2>4
  <2> HIDE DEF tt, ss, x
  <2> QED BY <2>1, <2>2, <2>3, <2>5 DEF ap
<1>4. WrittenFrom(log, f) = FlattenSeq(ss) /\ WrittenFrom(next, f) = FlattenSeq(tt)
  BY DEF WrittenFrom, m
<1>5. f = Len(log) => m = 0
  BY DEF m
<1>6. m = 0 => ss = << >>
  OBVIOUS
<1> HIDE DEF ss, tt, x
<1> QED BY <1>2, <1>3, <1>4, <1>5, <1>6, FlattenAppend DEF x, next

\* What the recorder holds of the stream.
Holding(r) == Items(FlushProse(r).blocks)

LEMMA HoldingIs ==
    ASSUME NEW called \in Nat, NEW r \in RecorderOf(called)
    PROVE  /\ Holding(r) \in Seq(Item) /\ Items(r.blocks) \in Seq(Item)
           /\ Items(Flushed(r)) = Holding(r)
           /\ r.thinking /\ r.text =>
                  Holding(r) = (Items(r.blocks) \o << << "thinking" >> >>) \o << << "text" >> >>
           /\ r.thinking /\ ~r.text => Holding(r) = Items(r.blocks) \o << << "thinking" >> >>
           /\ ~r.thinking /\ r.text => Holding(r) = Items(r.blocks) \o << << "text" >> >>
           /\ ~r.thinking /\ ~r.text => Holding(r) = Items(r.blocks)
           /\ r.blocks = << >> => Items(r.blocks) = << >>
<1> DEFINE bs == r.blocks
           th == [kind |-> "thinking"]
           tx == [kind |-> "text"]
<1>1. bs \in Seq(Block) /\ r.thinking \in BOOLEAN /\ r.text \in BOOLEAN
  BY DEF RecorderOf
<1>2. /\ FlushProse(r).blocks \in Seq(Block)
      /\ FlushProse(r).blocks = (bs \o (IF r.thinking THEN << th >> ELSE << >>)) \o (IF r.text THEN << tx >> ELSE << >>)
      /\ Flushed(r) = FlushProse(r).blocks \o [n \in 1..Cardinality(r.spoke) |-> [kind |-> "narrative"]]
      /\ Cardinality(r.spoke) \in Nat
  BY FlushIs DEF One
<1>3. Items(Flushed(r)) = Holding(r)
  BY <1>2, ItemsNarratives DEF Holding
<1>4. /\ th \in Block /\ BlockItem(th) = << << "thinking" >> >>
      /\ tx \in Block /\ BlockItem(tx) = << << "text" >> >>
  <2>1. th \in Block /\ tx \in Block /\ th.kind = "thinking" /\ tx.kind = "text"
    BY DEF Block, BlockKinds
  <2> HIDE DEF th, tx
  <2> QED BY <2>1, BlockItemIs
<1> HIDE DEF th, tx, bs
<1>5. \A s \in Seq(Block), b \in Block : s \o << b >> = Append(s, b) /\ Append(s, b) \in Seq(Block) /\ s \o << >> = s
  OBVIOUS
<1>13. bs \in Seq(Block)
  BY <1>1 DEF bs
<1>6. /\ Items(Append(bs, th)) = Items(bs) \o << << "thinking" >> >>
      /\ Items(Append(bs, tx)) = Items(bs) \o << << "text" >> >>
      /\ Append(bs, th) \in Seq(Block)
      /\ Items(bs) \in Seq(Item) /\ (bs = << >> => Items(bs) = << >>)
  <2>1. Items(bs) \in Seq(Item) /\ (bs = << >> => Items(bs) = << >>)
    BY <1>4, <1>13, ItemsAppend
  <2>2. Items(Append(bs, th)) = Items(bs) \o BlockItem(th)
    BY <1>4, <1>13, ItemsAppend
  <2>3. Items(Append(bs, tx)) = Items(bs) \o BlockItem(tx)
    BY <1>4, <1>13, ItemsAppend
  <2>4. Append(bs, th) \in Seq(Block)
    BY <1>4, <1>5, <1>13, Zenon
  <2> QED BY <1>4, <2>1, <2>2, <2>3, <2>4
<1>14. FlushProse(r).blocks = (bs \o (IF r.thinking THEN << th >> ELSE << >>)) \o (IF r.text THEN << tx >> ELSE << >>)
  BY <1>2 DEF bs, th, tx
<1>7. Items(Append(Append(bs, th), tx)) = (Items(bs) \o << << "thinking" >> >>) \o << << "text" >> >>
  BY <1>4, <1>6, ItemsAppend
<1>8. Holding(r) \in Seq(Item)
  BY <1>2, <1>4, ItemsAppend DEF Holding
<1>9. r.thinking /\ r.text => FlushProse(r).blocks = Append(Append(bs, th), tx)
  <2>1. bs \o << th >> = Append(bs, th) /\ Append(bs, th) \o << tx >> = Append(Append(bs, th), tx)
    BY <1>4, <1>5, <1>6, <1>13, Zenon
  <2> QED BY <1>14, <2>1
<1>10. r.thinking /\ ~r.text => FlushProse(r).blocks = Append(bs, th)
  BY <1>4, <1>5, <1>6, <1>13, <1>14
<1>11. ~r.thinking /\ r.text => FlushProse(r).blocks = Append(bs, tx)
  BY <1>4, <1>5, <1>6, <1>13, <1>14
<1>12. ~r.thinking /\ ~r.text => FlushProse(r).blocks = bs
  BY <1>4, <1>5, <1>6, <1>13, <1>14
<1> QED BY <1>3, <1>6, <1>7, <1>8, <1>9, <1>10, <1>11, <1>12 DEF Holding, bs

\* A flush writes what the recorder held.
LEMMA WrittenFlush ==
    ASSUME RecInv, NEW f \in 0..Len(events)
    PROVE  /\ WrittenFrom(FlushedLog(events, rec), f) = WrittenFrom(events, f) \o Holding(rec)
           /\ FlushedLog(events, rec) \in Seq(Entry) /\ f \in 0..Len(FlushedLog(events, rec))
           /\ WrittenFrom(events, f) \in Seq(Item) /\ Holding(rec) \in Seq(Item)
<1> DEFINE bs == Flushed(rec)
           log == FlushedLog(events, rec)
<1>1. /\ Whole(events) /\ rec \in RecorderOf(calls) /\ calls \in Nat
      /\ events \in Seq(Entry) /\ Len(events) \in Nat /\ Whole(log)
  <2>1. LogInv /\ RecOk
    BY DEF RecInv
  <2>2. Whole(events) /\ Whole(log)
    BY <2>1, WholeLogInv, FlushKeeps
  <2> QED BY <2>1, <2>2, WholeLog DEF RecOk, Whole
<1>2. Items(bs) = Holding(rec) /\ Holding(rec) \in Seq(Item)
  BY <1>1, HoldingIs
<1>3. bs \in Seq(Block)
  BY <1>1, FlushIs
<1>4. UserMsg("said", 0) \in Entry
  BY DEF Entry
<1>5. WrittenFrom(events, f) \in Seq(Item)
  BY <1>1, <1>4, WrittenAppend
<1> HIDE DEF bs
<1>6. CASE bs = << >>
  <2>1. log = events
    BY <1>6 DEF FlushedLog, bs
  <2>2. Items(bs) = << >>
    <3>1. [kind |-> "text"] \in Block
      BY DEF Block, BlockKinds
    <3> QED BY <1>3, <1>6, <3>1, ItemsAppend
  <2>3. WrittenFrom(events, f) \o << >> = WrittenFrom(events, f)
    <3> HIDE DEF Item
    <3> QED BY <1>5, Joined
  <2> QED BY <1>1, <1>2, <1>5, <2>1, <2>2, <2>3
<1>7. CASE bs # << >>
  <2> DEFINE e == Assistant(bs)
  <2>1. log = Append(events, e)
    BY <1>7 DEF FlushedLog, bs
  <2>2. e \in Entry /\ IsAssistant(e) /\ e.blocks = bs
    BY <1>3, EventTypes DEF Entry, Assistant, IsAssistant
  <2> HIDE DEF e
  <2>3. EventItems(e) = Holding(rec)
    BY <1>2, <2>2, EventItemsAre
  <2>4. WrittenFrom(log, f) = WrittenFrom(events, f) \o Holding(rec)
    BY <1>1, <2>1, <2>2, <2>3, WrittenAppend
  <2>5. log \in Seq(Entry) /\ f \in 0..Len(log)
    BY <1>1, <2>1, <2>2
  <2> QED BY <1>2, <1>5, <2>4, <2>5
<1> QED BY <1>6, <1>7

\* w is h and what came after it.
GoesOn(S, w, h) == \E rest \in Seq(S) : w = h \o rest

LEMMA GoesFurther ==
    ASSUME NEW S, NEW w \in Seq(S), NEW h \in Seq(S), NEW c \in Seq(S), GoesOn(S, w, h)
    PROVE  GoesOn(S, w \o c, h)
<1>1. PICK rest \in Seq(S) : w = h \o rest
  BY DEF GoesOn
<1>2. (h \o rest) \o c = h \o (rest \o c) /\ rest \o c \in Seq(S)
  OBVIOUS
<1> QED BY <1>1, <1>2 DEF GoesOn

LEMMA OneMoreItem ==
    ASSUME NEW S, NEW a \in Seq(S), NEW b \in Seq(S), NEW x \in S
    PROVE  Append(a \o b, x) = a \o (b \o << x >>) /\ Append(a \o b, x) \in Seq(S)
<1>1. << x >> \in Seq(S) /\ Append(a \o b, x) = (a \o b) \o << x >>
  OBVIOUS
<1> DEFINE c == << x >>
<1>2. c \in Seq(S) /\ Append(a \o b, x) = (a \o b) \o c
  BY <1>1
<1> HIDE DEF c
<1>3. (a \o b) \o c = a \o (b \o c) /\ (a \o b) \o c \in Seq(S)
  BY <1>2
<1> QED BY <1>2, <1>3 DEF c

\* Nor does a round end in words and the next one think.
Orderly == OnlySettled /\ \A s \in Settings : "again" \notin s

\* The running turn's stream is what the log and the recorder hold; the
\* results finish supplies come after it.
HeardInv ==
    engine = "agent" =>
        /\ from \in 1..Len(events)
        /\ heard \in Seq(Item)
        /\ rec.at = "turn" => heard = WrittenFrom(events, from) \o Holding(rec)
        /\ rec.at = "closing" => GoesOn(Item, WrittenFrom(events, from), heard)

\* What the invariants give a step of an agent's turn.
LEMMA AgentHas ==
    ASSUME RecInv, HeardInv, engine = "agent"
    PROVE  /\ events \in Seq(Entry) /\ Whole(events) /\ Len(events) \in Nat
           /\ from \in 1..Len(events) /\ from \in 0..Len(events)
           /\ rec \in RecorderOf(calls) /\ calls \in Nat /\ rec.at \in {"turn", "closing"}
           /\ may \in Settings
           /\ heard \in Seq(Item) /\ Holding(rec) \in Seq(Item)
           /\ WrittenFrom(events, from) \in Seq(Item)
<1>1. LogInv /\ RecOk
  BY DEF RecInv
<1>2. /\ Whole(events) /\ rec \in RecorderOf(calls) /\ calls \in Nat /\ rec.at # "none" /\ may \in Settings
  BY <1>1, WholeLogInv DEF RecOk
<1>3. events \in Seq(Entry) /\ Len(events) \in Nat
  BY <1>2, WholeLog DEF Whole
<1>4. from \in 1..Len(events) /\ heard \in Seq(Item)
  BY DEF HeardInv
<1>5. from \in 0..Len(events)
  BY <1>3, <1>4
<1>6. WrittenFrom(events, from) \in Seq(Item) /\ Holding(rec) \in Seq(Item)
  BY <1>5, WrittenFlush
<1>7. rec.at \in {"turn", "closing"}
  BY <1>2 DEF RecorderOf
<1> QED BY <1>2, <1>3, <1>4, <1>5, <1>6, <1>7

\* One more item heard, and held.
LEMMA HeldMore ==
    ASSUME RecInv, HeardInv, engine = "agent", rec.at = "turn",
           NEW x \in Item, heard' = Append(heard, x),
           rec'.at = "turn", Holding(rec') = Holding(rec) \o << x >>,
           UNCHANGED << events, from, engine >>
    PROVE  HeardInv'
<1> DEFINE w == WrittenFrom(events, from)
           h == Holding(rec)
<1>1. /\ w \in Seq(Item) /\ h \in Seq(Item) /\ heard \in Seq(Item) /\ from \in 1..Len(events)
  BY AgentHas
<1>2. heard = w \o h
  BY DEF HeardInv
<1> HIDE DEF w, h, Item
<1>3. Append(w \o h, x) = w \o (h \o << x >>) /\ Append(w \o h, x) \in Seq(Item)
  BY <1>1, OneMoreItem
<1>5. heard' = w \o (h \o << x >>)
  BY <1>2, <1>3
<1>6. heard' \in Seq(Item)
  BY <1>2, <1>3
<1>7. WrittenFrom(events', from') = w
  BY DEF w
<1>8. Holding(rec') = h \o << x >>
  BY DEF h
<1> QED BY <1>1, <1>5, <1>6, <1>7, <1>8 DEF HeardInv

LEMMA KnownItems ==
    /\ << "text" >> \in Item /\ << "thinking" >> \in Item /\ << "his" >> \in Item
    /\ \A id \in Nat \X Nat : << "call", id >> \in Item /\ << "result", id >> \in Item
BY DEF Item, BlockKinds

LEMMA TextHeard ==
    ASSUME RecInv, HeardInv, TextDelta
    PROVE  HeardInv'
<1>1. /\ engine = "agent" /\ rec.at = "turn" /\ ~rec.text /\ rec' = [rec EXCEPT !.text = TRUE]
      /\ heard' = Append(heard, << "text" >>) /\ UNCHANGED << events, from, engine >>
  BY DEF TextDelta, Streams, Hear, RecFrame
<1>2. rec \in RecorderOf(calls) /\ calls \in Nat
  BY <1>1, AgentHas
<1>3. /\ rec' \in RecorderOf(calls) /\ rec'.text /\ rec'.thinking = rec.thinking
      /\ rec'.blocks = rec.blocks /\ rec'.at = rec.at
  BY <1>1, <1>2 DEF RecorderOf
<1>4. Holding(rec') = Holding(rec) \o << << "text" >> >>
  <2>1. CASE rec.thinking
    BY <1>1, <1>2, <1>3, <2>1, HoldingIs
  <2>2. CASE ~rec.thinking
    BY <1>1, <1>2, <1>3, <2>2, HoldingIs
  <2> QED BY <2>1, <2>2
<1> QED BY <1>1, <1>3, <1>4, HeldMore, KnownItems

LEMMA ThinkingHeard ==
    ASSUME Orderly, RecInv, HeardInv, ThinkingDelta
    PROVE  HeardInv'
<1>1. /\ engine = "agent" /\ rec.at = "turn" /\ ~rec.thinking /\ rec' = [rec EXCEPT !.thinking = TRUE]
      /\ heard' = Append(heard, << "thinking" >>) /\ UNCHANGED << events, from, engine >>
      /\ ("again" \in may \/ ~rec.text)
  BY DEF ThinkingDelta, Streams, Hear, RecFrame
<1>2. rec \in RecorderOf(calls) /\ calls \in Nat /\ may \in Settings
  BY <1>1, AgentHas
<1>3. ~rec.text
  BY <1>1, <1>2 DEF Orderly
<1>4. /\ rec' \in RecorderOf(calls) /\ rec'.thinking /\ rec'.text = rec.text
      /\ rec'.blocks = rec.blocks /\ rec'.at = rec.at
  BY <1>1, <1>2 DEF RecorderOf
<1>5. Holding(rec') = Holding(rec) \o << << "thinking" >> >>
  BY <1>1, <1>2, <1>3, <1>4, HoldingIs
<1> QED BY <1>1, <1>4, <1>5, HeldMore, KnownItems

LEMMA SubagentHeard ==
    ASSUME RecInv, HeardInv, NEW n, PushSubagent(n), RecInv'
    PROVE  HeardInv'
<1>1. /\ engine = "agent" /\ rec' = [rec EXCEPT !.spoke = rec.spoke \cup {n}]
      /\ UNCHANGED << events, from, engine, heard, calls >>
  BY DEF PushSubagent, Streams, RecFrame
<1>2. rec \in RecorderOf(calls) /\ calls \in Nat
  BY <1>1, AgentHas
<1>3. rec' \in RecorderOf(calls)
  BY <1>1 DEF RecInv, RecOk
<1>4. /\ rec'.text = rec.text /\ rec'.thinking = rec.thinking
      /\ rec'.blocks = rec.blocks /\ rec'.at = rec.at
  BY <1>1, <1>2 DEF RecorderOf
<1>5. rec.text \in BOOLEAN /\ rec.thinking \in BOOLEAN
  BY <1>2 DEF RecorderOf
<1>6. Holding(rec') = Holding(rec)
  <2>1. CASE rec.thinking
    BY <1>2, <1>3, <1>4, <1>5, <2>1, HoldingIs
  <2>2. CASE ~rec.thinking
    BY <1>2, <1>3, <1>4, <1>5, <2>2, HoldingIs
  <2> QED BY <2>1, <2>2
<1> QED BY <1>1, <1>4, <1>6 DEF HeardInv

LEMMA CallHeard ==
    ASSUME RecInv, HeardInv, ToolCall, RecInv'
    PROVE  HeardInv'
<1> DEFINE id == << 0, calls + 1 >>
           b == [kind |-> "tool_use", id |-> id]
           ps == FlushProse(rec).blocks
<1>1. /\ engine = "agent" /\ rec.at = "turn" /\ calls' = calls + 1
      /\ rec' = [FlushProse(rec) EXCEPT !.open = Append(@, id), !.blocks = Append(@, b)]
      /\ heard' = Append(heard, << "call", id >>) /\ UNCHANGED << events, from, engine >>
  BY DEF ToolCall, Streams, Hear, RecFrame
<1>2. rec \in RecorderOf(calls) /\ calls \in Nat
  BY <1>1, AgentHas
<1>3. rec' \in RecorderOf(calls + 1) /\ calls + 1 \in Nat
  BY <1>1, <1>2 DEF RecInv, RecOk
<1>4. id \in Nat \X Nat
  BY <1>2
<1>5. b \in Block /\ IsCall(b) /\ b.id = id
  BY <1>4 DEF Block, IsCall
<1> HIDE DEF b, id
<1>6. ps \in Seq(Block)
  BY <1>2, FlushIs
<1>7. rec'.blocks = Append(ps, b) /\ ~rec'.text /\ ~rec'.thinking /\ rec'.at = rec.at
  <2> DEFINE p == FlushProse(rec)
             os == Append(p.open, id)
             bs == Append(ps, b)
  <2>1. p \in RecorderOf(calls) /\ ~p.text /\ ~p.thinking /\ p.at = rec.at
    <3> HIDE DEF ps
    <3>1. p = [rec EXCEPT !.blocks = ps, !.thinking = FALSE, !.text = FALSE]
      BY DEF FlushProse, ps
    <3> HIDE DEF p
    <3>2. LET q == [rec EXCEPT !.blocks = ps, !.thinking = FALSE, !.text = FALSE]
          IN  q \in RecorderOf(calls) /\ ~q.text /\ ~q.thinking /\ q.at = rec.at
      BY <1>2, <1>6 DEF RecorderOf
    <3> QED BY <3>1, <3>2
  <2>2. rec' = [p EXCEPT !.open = os, !.blocks = bs]
    BY <1>1
  <2> HIDE DEF p, os, bs
  <2>3. rec'.blocks = bs /\ rec'.text = p.text /\ rec'.thinking = p.thinking /\ rec'.at = p.at
    BY <2>1, <2>2 DEF RecorderOf
  <2> QED BY <2>1, <2>3 DEF bs
<1>8. Items(rec'.blocks) = Items(ps) \o BlockItem(b)
  BY <1>5, <1>6, <1>7, ItemsAppend
<1>9. BlockItem(b) = << << "call", id >> >>
  BY <1>5, BlockItemIs
<1>10. Holding(rec') = Items(rec'.blocks)
  BY <1>3, <1>7, HoldingIs
<1>11. Holding(rec') = Holding(rec) \o << << "call", id >> >>
  BY <1>8, <1>9, <1>10 DEF Holding
<1>12. << "call", id >> \in Item
  BY <1>4, KnownItems
<1> QED BY <1>1, <1>7, <1>11, <1>12, HeldMore

\* What was held is written, and one more event with it, whose item is the
\* last one heard.
LEMMA WrittenMore ==
    ASSUME RecInv, HeardInv, engine = "agent", rec.at = "turn", RecInv',
           NEW e \in Entry, NEW x \in Item, EventItems(e) = << x >>, heard' = Append(heard, x),
           NEW still \in Seq({0} \X (1..calls)), FlushAssistant(<< e >>, "turn", still),
           UNCHANGED << from, engine, calls >>
    PROVE  HeardInv'
<1> DEFINE w == WrittenFrom(events, from)
           h == Holding(rec)
           log == FlushedLog(events, rec)
<1>1. /\ w \in Seq(Item) /\ h \in Seq(Item) /\ heard \in Seq(Item)
      /\ from \in 1..Len(events) /\ from \in 0..Len(events) /\ calls \in Nat
  BY AgentHas
<1>2. heard = w \o h
  BY DEF HeardInv
<1>3. /\ events' = Append(log, e) /\ rec' \in RecorderOf(calls)
      /\ rec'.at = "turn" /\ rec'.blocks = << >> /\ ~rec'.text /\ ~rec'.thinking
  BY FlushWrites
<1>4. WrittenFrom(log, from) = w \o h /\ log \in Seq(Entry) /\ from \in 0..Len(log)
  BY <1>1, WrittenFlush
<1>5. WrittenFrom(events', from) = (w \o h) \o << x >>
  BY <1>3, <1>4, WrittenAppend
<1>6. Holding(rec') = << >>
  BY <1>1, <1>3, HoldingIs
<1>7. from \in 1..Len(events')
  <2>1. Len(Append(log, e)) = Len(log) + 1 /\ Len(log) \in Nat
    BY <1>4
  <2> QED BY <1>1, <1>3, <1>4, <2>1
<1> HIDE DEF w, h, log, Item
<1>8. Append(heard, x) = heard \o << x >> /\ << x >> \in Seq(Item)
  BY <1>1, Joined
<1>9. heard \o << x >> \in Seq(Item)
  BY <1>1, <1>8, Joined
<1>10. (heard \o << x >>) \o << >> = heard \o << x >>
  BY <1>9, Joined
<1>11. heard' = WrittenFrom(events', from') \o Holding(rec')
  BY <1>2, <1>5, <1>6, <1>8, <1>10
<1> QED BY <1>3, <1>7, <1>8, <1>9, <1>11 DEF HeardInv

LEMMA ResultHeard ==
    ASSUME RecInv, HeardInv, NEW id, ToolResult(id), RecInv'
    PROVE  HeardInv'
<1> DEFINE t == Sift(rec.open, {n \in DOMAIN rec.open : rec.open[n] # id})
<1>1. /\ engine = "agent" /\ rec.at = "turn" /\ UNCHANGED << from, engine, calls >>
  BY DEF ToolResult, Streams, RecFrame
<1>2. CASE ~Ours(id)
  <2>1. UNCHANGED << events, rec, heard >>
    BY <1>2 DEF ToolResult
  <2> QED BY <1>1, <2>1 DEF HeardInv
<1>3. CASE Ours(id)
  <2>1. /\ FlushAssistant(<< Result(id) >>, "turn", t) /\ heard' = Append(heard, << "result", id >>)
    BY <1>3 DEF ToolResult, Hear
  <2> HIDE DEF t
  <2>2. rec'.open = t
    BY <2>1 DEF FlushAssistant, NoRecorder
  <2>3. rec' \in RecorderOf(calls) /\ rec \in RecorderOf(calls)
    BY <1>1 DEF RecInv, RecOk
  <2>4. t \in Seq({0} \X (1..calls))
    BY <2>2, <2>3 DEF RecorderOf
  <2>5. id \in Nat \X Nat
    <3>1. id \in {0} \X (1..calls)
      BY <1>3, <2>3 DEF Ours, ToSet, RecorderOf
    <3>2. calls \in Nat
      BY DEF RecInv, RecOk
    <3> QED BY <3>1, <3>2
  <2>6. Result(id) \in Entry /\ Result(id).type = "tool_result" /\ Result(id).id = id
    BY <2>5, EventTypes DEF Entry, Result
  <2>7. EventItems(Result(id)) = << << "result", id >> >>
    BY <2>6, EventItemsAre
  <2> QED BY <1>1, <2>1, <2>4, <2>5, <2>6, <2>7, WrittenMore, KnownItems
<1> QED BY <1>2, <1>3

LEMMA DeliveredHeard ==
    ASSUME RecInv, HeardInv, MessageDelivered, RecInv'
    PROVE  HeardInv'
<1>0. PICK n \in Attached : FlushAssistant(<< UserMsg("said", n) >>, "turn", rec.open)
  BY DEF MessageDelivered
<1> DEFINE e == UserMsg("said", n)
<1>1. /\ engine = "agent" /\ rec.at = "turn" /\ UNCHANGED << from, engine, calls >>
      /\ FlushAssistant(<< e >>, "turn", rec.open) /\ heard' = Append(heard, << "his" >>)
  BY <1>0 DEF MessageDelivered, Streams, RecFrame, Hear
<1>2. e \in Entry /\ IsUser(e)
  BY EventTypes DEF Entry, UserMsg, IsUser
<1>3. EventItems(e) = << << "his" >> >>
  <2> HIDE DEF e
  <2> QED BY <1>2, EventItemsAre
<1> HIDE DEF e
<1>4. rec.open \in Seq({0} \X (1..calls))
  BY DEF RecInv, RecOk, RecorderOf
<1> QED BY <1>1, <1>2, <1>3, <1>4, WrittenMore, KnownItems

LEMMA FinishHeard ==
    ASSUME RecInv, HeardInv, FinishTurn, RecInv'
    PROVE  HeardInv'
<1> DEFINE w == WrittenFrom(events, from)
           h == Holding(rec)
           log == FlushedLog(events, rec)
<1>1. /\ engine = "agent" /\ rec.at = "turn" /\ UNCHANGED << from, engine, heard >>
      /\ FlushAssistant(<< >>, "closing", rec.open)
  BY DEF FinishTurn, EndFrame
<1>2. /\ w \in Seq(Item) /\ h \in Seq(Item) /\ heard \in Seq(Item)
      /\ from \in 1..Len(events) /\ from \in 0..Len(events)
  BY <1>1, AgentHas
<1>3. heard = w \o h
  BY <1>1 DEF HeardInv
<1>4. rec.open \in Seq({0} \X (1..calls))
  BY DEF RecInv, RecOk, RecorderOf
<1>5. events' = log /\ rec'.at = "closing"
  BY <1>1, <1>4, FlushWrites
<1>6. WrittenFrom(log, from) = w \o h /\ from \in 0..Len(log) /\ log \in Seq(Entry)
  BY <1>2, WrittenFlush
<1>7. from \in 1..Len(log)
  <2> HIDE DEF log
  <2>1. Len(log) \in Nat
    BY <1>6
  <2> QED BY <1>2, <1>6, <2>1
<1> HIDE DEF w, h, log, Item
<1>8. heard \o << >> = heard /\ << >> \in Seq(Item)
  BY <1>2, Joined
<1>9. GoesOn(Item, WrittenFrom(events', from'), heard')
  BY <1>1, <1>3, <1>5, <1>6, <1>8 DEF GoesOn
<1> QED BY <1>1, <1>2, <1>5, <1>7, <1>8, <1>9 DEF HeardInv

LEMMA CloseHeard ==
    ASSUME RecInv, HeardInv, CloseCall, RecInv'
    PROVE  HeardInv'
<1> DEFINE w == WrittenFrom(events, from)
           e == Result(Head(rec.open))
<1>1. /\ rec.at = "closing" /\ rec.open # << >> /\ events' = Append(events, e)
      /\ rec' = [rec EXCEPT !.open = Tail(@)]
      /\ UNCHANGED << from, engine, heard >>
  BY DEF CloseCall, EndFrame, Record
<1>2. engine = "agent"
  BY <1>1, NoRecorderIs DEF RecInv, RecOk
<1>3. /\ w \in Seq(Item) /\ heard \in Seq(Item) /\ rec \in RecorderOf(calls) /\ calls \in Nat
      /\ from \in 1..Len(events) /\ from \in 0..Len(events) /\ events \in Seq(Entry)
  BY <1>2, AgentHas
<1>4. e \in Entry
  <2> DEFINE S == {0} \X (1..calls)
  <2>1. rec.open \in Seq(S)
    BY <1>3 DEF RecorderOf
  <2> HIDE DEF S
  <2>2. Head(rec.open) \in S
    BY <1>1, <2>1
  <2>3. Head(rec.open) \in Nat \X Nat
    BY <1>3, <2>2 DEF S
  <2> QED BY <2>3, EventTypes DEF Entry
<1> HIDE DEF e
<1>5. rec'.at = "closing"
  BY <1>1, <1>3 DEF RecorderOf
<1>6. GoesOn(Item, w, heard)
  BY <1>1, <1>2 DEF HeardInv
<1>7. WrittenFrom(events', from) = w \o EventItems(e)
  BY <1>1, <1>3, <1>4, WrittenAppend
<1>8. EventItems(e) \in Seq(Item)
  BY <1>4, EventItemsAre
<1>9. from \in 1..Len(events')
  <2>1. Len(events') = Len(events) + 1 /\ Len(events) \in Nat
    BY <1>1, <1>3, <1>4
  <2> QED BY <1>3, <2>1
<1> HIDE DEF w, Item
<1>10. GoesOn(Item, w \o EventItems(e), heard)
  BY <1>3, <1>6, <1>8, GoesFurther
<1>11. GoesOn(Item, WrittenFrom(events', from'), heard')
  BY <1>1, <1>7, <1>10
<1> QED BY <1>1, <1>3, <1>5, <1>9, <1>11 DEF HeardInv

LEMMA StartHeard ==
    ASSUME RecInv, AgentStarts
    PROVE  HeardInv'
<1>0. PICK n \in Attached : RecordUser("said", n)
  BY DEF AgentStarts
<1> DEFINE e == UserMsg("said", n)
<1>1. /\ events' = Append(events, e) /\ heard' = << >> /\ from' = Len(events')
      /\ rec' = [NoRecorder EXCEPT !.at = "turn"]
  BY <1>0 DEF AgentStarts, RecordUser, Record
<1>2. Whole(events) /\ Whole(events')
  BY <1>1, WholeLogInv, WholeSaid DEF RecInv
<1>3. events' \in Seq(Entry) /\ Len(events') \in Nat \ {0}
  BY <1>2, WholeLog DEF Whole
<1>4. e \in Entry
  BY EventTypes DEF Entry
<1>5. WrittenFrom(events', from') = << >>
  <2>1. Len(events') \in 0..Len(events')
    BY <1>3
  <2> QED BY <1>1, <1>3, <1>4, <2>1, WrittenAppend
<1>6. rec' \in RecorderOf(0) /\ rec'.at = "turn" /\ rec'.blocks = << >> /\ ~rec'.text /\ ~rec'.thinking
  <2> DEFINE r == NoRecorder
  <2>1. r \in RecorderOf(0) /\ r.blocks = << >> /\ ~r.text /\ ~r.thinking
    BY NoRecorderIs
  <2>2. rec' = [r EXCEPT !.at = "turn"]
    BY <1>1
  <2> HIDE DEF r
  <2> QED BY <2>1, <2>2 DEF RecorderOf
<1>7. Holding(rec') = << >>
  BY <1>6, HoldingIs
<1>8. from' \in 1..Len(events')
  BY <1>1, <1>3
<1>9. << >> \in Seq(Item) /\ << >> \o << >> = << >>
  <2> HIDE DEF Item
  <2>1. << >> \in Seq(Item)
    OBVIOUS
  <2> QED BY <2>1, Joined
<1> QED BY <1>1, <1>5, <1>6, <1>7, <1>8, <1>9 DEF HeardInv

LEMMA HeardStep ==
    ASSUME RecorderAssumption, Orderly, RecInv, HeardInv, [RecNext]_allVars
    PROVE  HeardInv'
<1>0. RecInv'
  BY RecInvStep DEF Orderly
<1>1. CASE AgentStarts
  BY <1>1, StartHeard
<1>2. CASE Stream
  BY <1>0, <1>2, TextHeard, ThinkingHeard, CallHeard, DeliveredHeard, ResultHeard, SubagentHeard
       DEF Stream
<1>3. CASE FinishTurn
  BY <1>0, <1>3, FinishHeard
<1>4. CASE CloseCall
  BY <1>0, <1>4, CloseHeard
<1>5. CASE AgentEnds \/ Dies
  BY <1>5 DEF AgentEnds, Dies, HeardInv
<1>6. CASE ProviderTurn
  BY <1>6 DEF ProviderTurn, HeardInv
<1>7. CASE HisNext /\ UNCHANGED recVars
  BY <1>7, HisAtRest DEF RecInv, RecOk, recVars, HeardInv
<1>8. CASE UNCHANGED allVars
  BY <1>8 DEF allVars, vars, recVars, HeardInv
<1> QED BY <1>1, <1>2, <1>3, <1>4, <1>5, <1>6, <1>7, <1>8 DEF RecNext

LEMMA RecInvariant ==
    ASSUME RecorderAssumption, Orderly
    PROVE  RecSpec => [](RecInv /\ HeardInv)
<1>1. RecInit => RecInv /\ HeardInv
  BY RecInvInit DEF RecInit, HeardInv
<1>2. RecInv /\ HeardInv /\ [RecNext]_allVars => (RecInv /\ HeardInv)'
  BY RecInvStep, HeardStep DEF Orderly
<1> QED BY <1>1, <1>2, PTL DEF RecSpec

\* The recorder holds what its types say, at every step of a turn and
\* between turns (agent/record.rs's fields).
THEOREM RecorderTyped ==
    ASSUME OnlySettled
    PROVE  RecSpec => []RecTypeOK
<1>1. RecInit => RecInv
  BY RecInvInit
<1>2. RecInv /\ [RecNext]_allVars => RecInv'
  BY RecorderAssumption, RecInvStep
<1>3. ASSUME RecInv PROVE RecTypeOK
  <2>1. RecOk /\ TypeOK /\ rec \in RecorderOf(calls)
    BY <1>3 DEF RecInv, RecOk, LogInv
  <2>2. rec.blocks \in Seq(Block) /\ rec.open \in Seq({0} \X (1..calls))
    BY <2>1 DEF RecorderOf
  <2>3. rec.open # << >> => engine = "agent"
    BY <2>1, NoRecorderIs DEF RecOk
  <2>4. \A id \in ToSet(rec.open) : id \in {0} \X (1..calls)
    BY <2>2 DEF ToSet
  <2> QED BY <2>1, <2>2, <2>3, <2>4 DEF RecTypeOK, RecOk
<1> QED BY <1>1, <1>2, <1>3, PTL DEF RecSpec

\* Whichever engine wrote the log, the next request is one a provider
\* accepts, and a shell tells the model of the switch the log holds: what a
\* turn on Claude Code recorded can be gone on from (agent/record.rs).
THEOREM RecordedRequests ==
    ASSUME OnlySettled
    PROVE  RecSpec => []NextRequestIsRight
<1>1. RecInit => RecInv
  BY RecInvInit
<1>2. RecInv /\ [RecNext]_allVars => RecInv'
  BY RecorderAssumption, RecInvStep
<1>3. RecInv => NextRequestIsRight
  BY WholeLogInv, ProjectIs, HandlesLeadTheirCalls, NoteIs
       DEF RecInv, NextRequestIsRight, ReplayIsValid
<1> QED BY <1>1, <1>2, <1>3, PTL DEF RecSpec

\* Of the results on a whole log, no two are for one call.
LEMMA ResultOnce ==
    ASSUME NEW log, Whole(log), NEW j \in DOMAIN log, NEW k \in DOMAIN log, NEW id,
           log[j] = Result(id), log[k] = Result(id)
    PROVE  j = k
<1>1. Len(log) \in Nat /\ DOMAIN log = 1..Len(log)
  BY WholeLog
<1>2. \A i \in DOMAIN log : log[i].type = "tool_result" => ResultFits(log, i)
  BY DEF Whole, Fits
<1>3. log[j].type = "tool_result" /\ log[j].id = id /\ log[k].type = "tool_result" /\ log[k].id = id
  BY DEF Result
<1>4. \A x, y \in DOMAIN log : x < y => x \in 1..(y - 1)
  BY <1>1
<1>5. ~(j < k) /\ ~(k < j)
  BY <1>2, <1>3, <1>4 DEF ResultFits
<1> QED BY <1>1, <1>5

LEMMA PairedIs ==
    ASSUME RecInv
    PROVE  PairedOnTheLog
<1> SUFFICES ASSUME engine = "none", deaths = 0, NEW i \in DOMAIN events, IsAssistant(events[i]),
                    NEW id \in CallIds(events[i].blocks), id[1] = 0
             PROVE  Cardinality({j \in DOMAIN events : events[j] = Result(id)}) = 1
  BY DEF PairedOnTheLog
<1>1. Whole(events) /\ RecOk /\ Paired(events, ToSet(rec.open))
  BY WholeLogInv DEF RecInv
<1>2. rec.open = << >>
  BY <1>1, NoRecorderIs DEF RecOk
<1>3. ToSet(<< >>) = {}
  BY DEF ToSet
<1>4. PICK j \in DOMAIN events : events[j] = Result(id)
  BY <1>1, <1>2, <1>3 DEF Paired
<1>5. {k \in DOMAIN events : events[k] = Result(id)} = {j}
  BY <1>1, <1>4, ResultOnce
<1> QED BY <1>5, FS_Singleton

LEMMA InOrder ==
    ASSUME RecInv, HeardInv
    PROVE  HeardInOrder
<1> SUFFICES ASSUME engine = "agent" PROVE HeardInOrder
  BY DEF HeardInOrder
<1> DEFINE w == WrittenFrom(events, from)
           h == Holding(rec)
<1>1. /\ w \in Seq(Item) /\ h \in Seq(Item) /\ heard \in Seq(Item)
      /\ rec \in RecorderOf(calls) /\ calls \in Nat /\ rec.at \in {"turn", "closing"}
  BY AgentHas
<1>2. Written = w /\ Items(FlushProse(rec).blocks) = h
  BY DEF Written, WrittenFrom, Holding
<1>3. rec.at = "closing" => h = << >>
  BY <1>1, HoldingIs DEF RecInv, RecBlocks, RecHolds
<1>4. PICK rest \in Seq(Item) : w \o h = heard \o rest /\ (rec.at = "turn" => rest = << >>)
  <2>1. CASE rec.at = "turn"
    <3>1. heard = w \o h
      BY <2>1 DEF HeardInv
    <3> HIDE DEF Item
    <3>2. heard = heard \o << >> /\ << >> \in Seq(Item)
      BY <1>1
    <3> HIDE DEF w, h
    <3> QED BY <3>1, <3>2
  <2>2. CASE rec.at = "closing"
    <3>1. PICK more \in Seq(Item) : w = heard \o more
      BY <2>2 DEF HeardInv, GoesOn
    <3> HIDE DEF Item, w, h
    <3>2. w \o << >> = w
      BY <1>1
    <3> QED BY <1>3, <2>2, <3>1, <3>2
  <2> QED BY <1>1, <2>1, <2>2
<1> DEFINE all == w \o h
<1>5. all = heard \o rest
  BY <1>4
<1> HIDE DEF w, h, all, Item
<1>6. SubSeq(all, 1, Len(heard)) = heard /\ Len(heard) <= Len(all)
  BY <1>1, <1>5
<1>7. rec.at = "turn" => Len(all) = Len(heard)
  <2>1. heard \o << >> = heard
    BY <1>1
  <2> QED BY <1>4, <1>5, <2>1
<1> QED BY <1>2, <1>6, <1>7 DEF HeardInOrder, all

\* A turn on Claude Code is on the log as its stream gave it, once and in
\* that order, and between turns every call of it has one result
\* (agent/record.rs: "in stream order - which is the order they must be
\* replayed in", "pairing is guaranteed here rather than assumed").
THEOREM RecordedAsHeard ==
    ASSUME Orderly
    PROVE  RecSpec => []WrittenAsHeard
<1>1. RecSpec => [](RecInv /\ HeardInv)
  BY RecorderAssumption, RecInvariant
<1>2. RecInv /\ HeardInv => WrittenAsHeard
  BY PairedIs, InOrder DEF WrittenAsHeard
<1> QED BY <1>1, <1>2, PTL

-----------------------------------------------------------------------------
(* What a fork copies.                                                     *)

\* Markers in force name what is in force.
Closed(log) == \A j \in Live(log) : TargetsOf(log[j]) \subseteq Live(log)

\* What a fork takes with it: all that is live but the creation line and the
\* markers that name nothing.
Taken(log, k) ==
    /\ k \in Live(log)
    /\ log[k].type # "session_created"
    /\ log[k].type \in {"elide", "unelide"} => log[k].targets # {}

\* The copy, event by event.
LEMMA CopyingSteps ==
    ASSUME NEW log, NEW upto \in Nat \ {0}
    PROVE  LET copy == Copying(log, upto) IN
           /\ copy[0] = [log |-> << Created(Kind(log)) >>, new |-> << >>]
           /\ \A i \in 1..(upto - 1) :
                 copy[i] = IF i \notin Live(log) \/ Dropped(log[i], copy[i - 1].new)
                           THEN copy[i - 1]
                           ELSE CopyStep(copy[i - 1], log[i], i)
<1> DEFINE start == [log |-> << Created(Kind(log)) >>, new |-> << >>]
           Step(c, i) == IF i \notin Live(log) \/ Dropped(log[i], c.new) THEN c
                         ELSE CopyStep(c, log[i], i)
           N == upto - 1
           Val(f, n) == IF n = 0 THEN start ELSE Step(f[n - 1], n)
           Ok(f, m) == f = [n \in 0..m |-> Val(f, n)]
           G == {m \in 0..N : \E f : Ok(f, m)}
           copy == CHOOSE f : Ok(f, N)
<1>0. N \in Nat
  OBVIOUS
<1>9. Copying(log, upto) = copy
  BY DEF Copying
<1> HIDE DEF Step, start, N
<1>1. 0 \in G
  <2>1. Ok([n \in 0..0 |-> start], 0)
    OBVIOUS
  <2> HIDE DEF Ok
  <2> QED BY <1>0, <2>1
<1>2. ASSUME NEW m \in 0..(N - 1), m \in G
      PROVE  m + 1 \in G
  <2>1. PICK f : Ok(f, m)
    BY <1>2
  <2> DEFINE g == [n \in 0..(m + 1) |-> IF n = m + 1 THEN Val(f, n) ELSE f[n]]
  <2>2. \A n \in 0..(m + 1) : g[n] = Val(g, n)
    <3>1. \A n \in 0..m : f[n] = Val(f, n)
      BY <2>1
    <3>2. \A n \in 0..m : n \in 0..(m + 1) /\ n # m + 1
      BY <1>0
    <3>3. \A n \in 0..m : g[n] = f[n]
      BY <3>2
    <3>4. \A n \in 1..(m + 1) : n - 1 \in 0..m
      BY <1>0
    <3>5. \A n \in 0..(m + 1) : Val(g, n) = Val(f, n)
      BY <1>0, <3>3, <3>4
    <3> QED BY <1>0, <3>1, <3>3, <3>5
  <2>3. Ok(g, m + 1)
    <3> HIDE DEF Val
    <3>1. g = [n \in 0..(m + 1) |-> g[n]]
      OBVIOUS
    <3> HIDE DEF g
    <3> QED BY <2>2, <3>1
  <2> HIDE DEF Ok, g
  <2> QED BY <1>0, <2>3
<1>3. N \in G
  <2> HIDE DEF G
  <2>1. 0..N \subseteq G
    BY <1>0, <1>1, <1>2, UpTo
  <2> QED BY <1>0, <2>1
<1>4. Ok(copy, N)
  <2> HIDE DEF Ok
  <2> QED BY <1>3
<1> HIDE DEF copy
<1>5. \A n \in 0..N : copy[n] = Val(copy, n)
  BY <1>4
<1>6. copy[0] = start
  BY <1>0, <1>5
<1>7. \A n \in 1..N : copy[n] = Step(copy[n - 1], n)
  <2>1. \A n \in 1..N : n \in 0..N /\ n # 0
    BY <1>0
  <2> QED BY <1>5, <2>1
<1> QED BY <1>6, <1>7, <1>9 DEF Step, start, N

\* An event is copied as one of its sort, its targets re-aimed.
LEMMA ReAimIs ==
    ASSUME NEW e \in Entry, NEW new
    PROVE  /\ ReAim(e, new).type = e.type
           /\ e.type \notin {"elide", "unelide", "edit"} => ReAim(e, new) = e
           /\ e.type \in {"elide", "unelide"} =>
                 /\ ReAim(e, new).targets = {new[t] : t \in e.targets \cap DOMAIN new}
                 /\ ReAim(e, new).block = e.block
           /\ e.type = "edit" =>
                 /\ ReAim(e, new).target = new[e.target]
                 /\ ReAim(e, new).block = e.block /\ ReAim(e, new).text = e.text
                 /\ ReAim(e, new).files = e.files
           /\ e.type \in {"elide", "unelide"} => e.targets \in SUBSET Nat
<1>1. e.type \in {"elide", "unelide"} =>
          e \in [type : {"elide", "unelide"}, targets : SUBSET Nat, block : Nat]
  <2>1. e = UserMsg("said", 0) => e.type = "user_message"
    BY DEF UserMsg
  <2>2. e \in Event /\ e.type \in {"elide", "unelide"} =>
            e \in [type : {"elide", "unelide"}, targets : SUBSET Nat, block : Nat]
    BY DEF Event
  <2> QED BY <2>1, <2>2 DEF Entry
<1>2. e.type = "edit" => e \in [type : {"edit"}, target : Nat, block : Nat, text : Words,
                                files : Attached \cup {KeepFiles}]
  <2>1. e = UserMsg("said", 0) => e.type = "user_message"
    BY DEF UserMsg
  <2>2. e \in Event /\ e.type = "edit" =>
            e \in [type : {"edit"}, target : Nat, block : Nat, text : Words,
                   files : Attached \cup {KeepFiles}]
    BY DEF Event
  <2> QED BY <2>1, <2>2 DEF Entry
<1>3. CASE e.type \in {"elide", "unelide"}
  BY <1>1, <1>3 DEF ReAim
<1>4. CASE e.type = "edit"
  BY <1>2, <1>4 DEF ReAim
<1>5. CASE e.type \notin {"elide", "unelide", "edit"}
  BY <1>5 DEF ReAim
<1> QED BY <1>3, <1>4, <1>5

\* What a marker names, as the copy has it.
LEMMA ReAimNames ==
    ASSUME NEW e \in Entry, NEW old, NEW new,
           TargetsOf(e) \subseteq DOMAIN old, DOMAIN old \subseteq DOMAIN new,
           \A t \in DOMAIN old : new[t] = old[t]
    PROVE  ReAim(e, new) = ReAim(e, old)
<1>1. CASE e.type \in {"elide", "unelide"}
  <2>1. e.targets \subseteq DOMAIN old
    BY <1>1 DEF TargetsOf
  <2>2. {new[t] : t \in e.targets \cap DOMAIN new} = {old[t] : t \in e.targets \cap DOMAIN old}
    BY <2>1
  <2> QED BY <1>1, <2>2 DEF ReAim
<1>2. CASE e.type = "edit"
  <2>1. e.target \in DOMAIN old
    BY <1>2 DEF TargetsOf
  <2> QED BY <1>2, <2>1 DEF ReAim
<1>3. CASE e.type \notin {"elide", "unelide", "edit"}
  BY <1>3 DEF ReAim
<1> QED BY <1>1, <1>2, <1>3

\* What the events of a log can be.
LEMMA EntryTypes ==
    ASSUME NEW e \in Entry
    PROVE  e.type \notin {"agent_session", "title", "unknown"}
<1>1. e = UserMsg("said", 0) => e.type = "user_message"
  BY DEF UserMsg
<1>2. e \in Event => e.type \notin {"agent_session", "title", "unknown"}
  BY DEF Event
<1> QED BY <1>1, <1>2 DEF Entry

\* What a taken marker names is taken, and stands before it.
LEMMA TakenNames ==
    ASSUME NEW log, Whole(log), Closed(log), NEW k \in Live(log)
    PROVE  \A t \in TargetsOf(log[k]) : Taken(log, t) /\ t \in 1..(k - 1)
<1>1. k \in DOMAIN log
  BY WholeLog
<1>2. PointsBack(log, k)
  BY <1>1 DEF Whole
<1>3. \A t \in TargetsOf(log[k]) : t \in Live(log) /\ t \in 1..(k - 1) /\ IsElidable(log, t)
  BY <1>2 DEF PointsBack, Closed
<1> QED BY <1>3 DEF IsElidable, Taken

\* The copy once the events up to i are in it: new maps each that was taken
\* to its place, in order and without a gap.
CopyOk(log, c, i) ==
    /\ Len(c.log) \in Nat \ {0} /\ DOMAIN c.log = 1..Len(c.log)
    /\ c.log = [p \in 1..Len(c.log) |-> c.log[p]]
    /\ c.log[1] = Created(Kind(log))
    /\ DOMAIN c.new = {k \in 1..i : Taken(log, k)}
    /\ \A k \in DOMAIN c.new :
          /\ c.new[k] \in 2..Len(c.log)
          /\ c.log[c.new[k]] = ReAim(log[k], c.new)
          /\ \A j \in DOMAIN c.new : j < k => c.new[j] < c.new[k]
    /\ \A p \in 2..Len(c.log) : \E k \in DOMAIN c.new : c.new[k] = p

\* An event is dropped exactly when it is not taken.
LEMMA DroppedIs ==
    ASSUME NEW log, Whole(log), Closed(log), NEW c, NEW i \in 1..Len(log), CopyOk(log, c, i - 1),
           i \in Live(log)
    PROVE  Dropped(log[i], c.new) <=> ~Taken(log, i)
<1>1. log[i] \in Entry /\ i \in DOMAIN log
  BY WholeLog
<1>2. log[i].type \notin {"rewind", "unrewind", "agent_session", "title", "unknown"}
  BY <1>1, EntryTypes DEF Live
<1>3. TargetsOf(log[i]) \subseteq DOMAIN c.new
  BY TakenNames DEF CopyOk
<1>4. log[i].type \in {"elide", "unelide"} => log[i].targets \subseteq DOMAIN c.new
  BY <1>3 DEF TargetsOf
<1>5. log[i].type = "edit" => log[i].target \in DOMAIN c.new
  BY <1>3 DEF TargetsOf
<1> QED BY <1>2, <1>4, <1>5 DEF Dropped, NotCopied, Taken

\* A taken event is put after what was taken before it.
LEMMA CopyStepOk ==
    ASSUME NEW log, Whole(log), Closed(log), NEW c, NEW i \in 1..Len(log), CopyOk(log, c, i - 1),
           Taken(log, i)
    PROVE  /\ CopyOk(log, CopyStep(c, log[i], i), i)
           /\ Len(CopyStep(c, log[i], i).log) = Len(c.log) + 1
           /\ CopyStep(c, log[i], i).new[i] = Len(c.log) + 1
<1> DEFINE d == CopyStep(c, log[i], i)
           n == Len(c.log)
           D == DOMAIN c.new
           g == [j \in D \cup {i} |-> IF j = i THEN n + 1 ELSE c.new[j]]
<1>1. n \in Nat \ {0} /\ DOMAIN c.log = 1..n /\ i \in Nat
  BY WholeLog DEF CopyOk
<1>2. D = {k \in 1..(i - 1) : Taken(log, k)}
  BY DEF CopyOk
<1>3. i \notin D /\ \A k \in D : k \in 1..(i - 1) /\ k < i /\ k \in Nat /\ Taken(log, k)
  BY <1>1, <1>2
<1>4. d.new = g /\ d.log = Append(c.log, ReAim(log[i], c.new))
  BY DEF CopyStep
<1>5. g[i] = n + 1 /\ DOMAIN g = D \cup {i} /\ \A k \in D : g[k] = c.new[k]
  BY <1>3
<1>6. /\ Len(d.log) = n + 1 /\ DOMAIN d.log = 1..(n + 1)
      /\ d.log[n + 1] = ReAim(log[i], c.new)
      /\ \A p \in 1..n : d.log[p] = c.log[p]
      /\ d.log = [p \in 1..(n + 1) |-> d.log[p]]
  <2> DEFINE V == {c.log[p] : p \in 1..n} \cup {ReAim(log[i], c.new)}
  <2>1. c.log \in Seq(V)
    <3>1. c.log = [p \in 1..n |-> c.log[p]]
      BY DEF CopyOk
    <3> QED BY <1>1, <3>1
  <2>2. ReAim(log[i], c.new) \in V
    OBVIOUS
  <2> HIDE DEF V, d, n
  <2> QED BY <1>4, <2>1, <2>2 DEF n
<1>7. \A k \in Live(log) : log[k] \in Entry
  BY WholeLog
<1>8. ASSUME NEW k \in Live(log), TargetsOf(log[k]) \subseteq D
      PROVE  ReAim(log[k], g) = ReAim(log[k], c.new)
  BY <1>5, <1>7, <1>8, ReAimNames
<1>9. \A k \in D \cup {i} : k \in Live(log) /\ TargetsOf(log[k]) \subseteq D
  <2> SUFFICES ASSUME NEW k \in D \cup {i} PROVE k \in Live(log) /\ TargetsOf(log[k]) \subseteq D
    OBVIOUS
  <2>1. Taken(log, k) /\ k \in 1..i
    BY <1>1, <1>3
  <2>2. k \in Live(log)
    BY <2>1 DEF Taken
  <2>3. \A t \in TargetsOf(log[k]) : Taken(log, t) /\ t \in 1..(k - 1)
    BY <2>2, TakenNames
  <2>4. \A t \in 1..(k - 1) : t \in 1..(i - 1)
    BY <1>1, <2>1
  <2> QED BY <1>2, <2>2, <2>3, <2>4
<1>10. \A k \in D : /\ c.new[k] \in 2..n /\ c.log[c.new[k]] = ReAim(log[k], c.new)
                    /\ \A j \in D : j < k => c.new[j] < c.new[k]
  BY DEF CopyOk
<1>11. \A p \in 2..n : \E k \in D : c.new[k] = p
  BY DEF CopyOk
<1> HIDE DEF d, n, D, g
<1>12. D \cup {i} = {k \in 1..i : Taken(log, k)}
  BY <1>1, <1>2
<1>13. ASSUME NEW k \in D \cup {i}
       PROVE  /\ g[k] \in 2..(n + 1)
              /\ d.log[g[k]] = ReAim(log[k], g)
              /\ \A j \in D \cup {i} : j < k => g[j] < g[k]
  <2>1. ReAim(log[k], g) = ReAim(log[k], c.new)
    BY <1>8, <1>9
  <2>2. CASE k = i
    <3>1. \A j \in D \cup {i} : j < k => j \in D
      BY <1>1, <2>2
    <3>2. \A j \in D : g[j] \in 2..n
      BY <1>5, <1>10
    <3> QED BY <1>1, <1>5, <1>6, <2>1, <2>2, <3>1, <3>2
  <2>3. CASE k \in D
    <3>1. g[k] = c.new[k] /\ c.new[k] \in 2..n /\ c.new[k] \in 1..n
      BY <1>1, <1>5, <1>10, <2>3
    <3>2. \A j \in D \cup {i} : j < k => j \in D
      BY <1>1, <1>3, <2>3
    <3>3. g[k] \in 2..(n + 1)
      BY <1>1, <3>1
    <3>4. d.log[g[k]] = c.log[c.new[k]]
      <4>1. \A p \in 1..n : d.log[p] = c.log[p]
        BY <1>6
      <4>2. d.log[c.new[k]] = c.log[c.new[k]]
        BY <3>1, <4>1
      <4> QED BY <3>1, <4>2
    <3>5. c.log[c.new[k]] = ReAim(log[k], c.new)
      BY <1>10, <2>3
    <3>6. \A j \in D \cup {i} : j < k => g[j] < g[k]
      BY <1>5, <1>10, <2>3, <3>1, <3>2
    <3> QED BY <2>1, <3>3, <3>4, <3>5, <3>6
  <2> QED BY <2>2, <2>3
<1>14. ASSUME NEW p \in 2..(n + 1)
       PROVE  \E k \in D \cup {i} : g[k] = p
  <2>1. CASE p = n + 1
    BY <1>5, <2>1
  <2>2. CASE p # n + 1
    <3>1. p \in 2..n
      BY <1>1, <2>2
    <3> QED BY <1>5, <1>11, <3>1
  <2> QED BY <2>1, <2>2
<1>15. d.log[1] = Created(Kind(log))
  <2>1. 1 \in 1..n /\ c.log[1] = Created(Kind(log))
    BY <1>1 DEF CopyOk
  <2> QED BY <1>6, <2>1
<1>16. CopyOk(log, d, i)
  <2>1. Len(d.log) = n + 1 /\ n + 1 \in Nat \ {0} /\ d.new = g /\ DOMAIN g = D \cup {i}
    BY <1>1, <1>4, <1>5, <1>6
  <2> QED BY <1>6, <1>12, <1>13, <1>14, <1>15, <2>1 DEF CopyOk
<1> QED BY <1>4, <1>5, <1>6, <1>16 DEF d, n, D

\* What was copied of an event that was not taken is what was copied before.
LEMMA CopyOver ==
    ASSUME NEW log, NEW c, NEW i \in Nat \ {0}, CopyOk(log, c, i - 1), ~Taken(log, i)
    PROVE  CopyOk(log, c, i)
<1>1. {k \in 1..i : Taken(log, k)} = {k \in 1..(i - 1) : Taken(log, k)}
  OBVIOUS
<1> QED BY <1>1 DEF CopyOk

\* The copy at each event, and how it grows.
LEMMA CopyIs ==
    ASSUME NEW log, Whole(log), Closed(log), NEW upto \in DOMAIN log
    PROVE  LET copy == Copying(log, upto) IN
           /\ \A i \in 0..(upto - 1) : CopyOk(log, copy[i], i)
           /\ copy[0].log = << Created(Kind(log)) >>
           /\ \A i \in 1..(upto - 1) :
                 IF Taken(log, i)
                 THEN /\ Len(copy[i].log) = Len(copy[i - 1].log) + 1
                      /\ copy[i].new[i] = Len(copy[i].log)
                      /\ \A k : k \in DOMAIN copy[i - 1].new =>
                                copy[i].new[k] = copy[i - 1].new[k]
                 ELSE copy[i] = copy[i - 1]
<1> DEFINE copy == Copying(log, upto)
           G == {i \in 0..(upto - 1) : CopyOk(log, copy[i], i)}
<1>1. Len(log) \in Nat /\ DOMAIN log = 1..Len(log) /\ upto \in Nat \ {0} /\ upto \in 1..Len(log)
  BY WholeLog
<1>2. /\ copy[0] = [log |-> << Created(Kind(log)) >>, new |-> << >>]
      /\ \A i \in 1..(upto - 1) :
            copy[i] = IF i \notin Live(log) \/ Dropped(log[i], copy[i - 1].new) THEN copy[i - 1]
                      ELSE CopyStep(copy[i - 1], log[i], i)
  BY <1>1, CopyingSteps
<1> HIDE DEF copy
<1>3. CopyOk(log, copy[0], 0)
  <2>1. copy[0].log = << Created(Kind(log)) >> /\ copy[0].new = << >>
    BY <1>2
  <2>2. DOMAIN copy[0].new = {}
    BY <2>1
  <2>3. Len(copy[0].log) = 1 /\ DOMAIN copy[0].log = 1..1 /\ copy[0].log[1] = Created(Kind(log))
        /\ copy[0].log = [p \in 1..1 |-> copy[0].log[p]]
    BY <2>1
  <2>4. {k \in 1..0 : Taken(log, k)} = {}
    OBVIOUS
  <2>5. 2..1 = {}
    OBVIOUS
  <2> QED BY <2>2, <2>3, <2>4, <2>5 DEF CopyOk
<1>4. ASSUME NEW i \in 1..(upto - 1), CopyOk(log, copy[i - 1], i - 1)
      PROVE  /\ CopyOk(log, copy[i], i)
             /\ IF Taken(log, i)
                 THEN /\ Len(copy[i].log) = Len(copy[i - 1].log) + 1
                      /\ copy[i].new[i] = Len(copy[i].log)
                      /\ \A k : k \in DOMAIN copy[i - 1].new =>
                                copy[i].new[k] = copy[i - 1].new[k]
                 ELSE copy[i] = copy[i - 1]
  <2>1. i \in 1..Len(log) /\ i \in Nat \ {0}
    BY <1>1
  <2>2. CASE Taken(log, i)
    <3>1. i \in Live(log) /\ ~Dropped(log[i], copy[i - 1].new)
      BY <1>4, <2>1, <2>2, DroppedIs DEF Taken
    <3>2. copy[i] = CopyStep(copy[i - 1], log[i], i)
      BY <1>2, <3>1
    <3> DEFINE c == copy[i - 1]
    <3>3. copy[i] = CopyStep(c, log[i], i) /\ CopyOk(log, c, i - 1)
      BY <1>4, <3>2
    <3> HIDE DEF c
    <3>4. /\ CopyOk(log, CopyStep(c, log[i], i), i)
          /\ Len(CopyStep(c, log[i], i).log) = Len(c.log) + 1
          /\ CopyStep(c, log[i], i).new[i] = Len(c.log) + 1
      BY <2>1, <2>2, <3>3, CopyStepOk
    <3>6. \A k : k \in DOMAIN c.new => CopyStep(c, log[i], i).new[k] = c.new[k]
      <4>1. \A k : k \in DOMAIN c.new => k # i
        BY <2>1, <3>3 DEF CopyOk
      <4> QED BY <4>1 DEF CopyStep
    <3> HIDE DEF G
    <3>5. /\ CopyOk(log, copy[i], i) /\ Len(copy[i].log) = Len(c.log) + 1
          /\ copy[i].new[i] = Len(c.log) + 1
          /\ \A k : k \in DOMAIN c.new => copy[i].new[k] = c.new[k]
      BY <3>3, <3>4, <3>6
    <3> QED BY <2>2, <3>5 DEF c
  <2>3. CASE ~Taken(log, i)
    <3>1. i \notin Live(log) \/ Dropped(log[i], copy[i - 1].new)
      BY <1>4, <2>1, <2>3, DroppedIs
    <3>2. copy[i] = copy[i - 1]
      BY <1>2, <3>1
    <3> QED BY <1>4, <2>1, <2>3, <3>2, CopyOver
  <2> QED BY <2>2, <2>3
<1>5. ASSUME NEW n \in 0..((upto - 1) - 1), n \in G
      PROVE  n + 1 \in G
  <2>1. n + 1 \in 1..(upto - 1) /\ (n + 1) - 1 = n /\ n + 1 \in 0..(upto - 1)
    BY <1>1
  <2> QED BY <1>4, <1>5, <2>1
<1>6. 0..(upto - 1) \subseteq G
  <2>1. 0 \in G /\ upto - 1 \in Nat
    BY <1>1, <1>3
  <2> HIDE DEF G
  <2> QED BY <1>5, <2>1, UpTo
<1>7. \A i \in 0..(upto - 1) : CopyOk(log, copy[i], i)
  BY <1>6
<1>8. \A i \in 1..(upto - 1) : i - 1 \in 0..(upto - 1)
  BY <1>1
<1>9. copy[0].log = << Created(Kind(log)) >>
  BY <1>2
<1> QED BY <1>4, <1>7, <1>8, <1>9 DEF copy

-----------------------------------------------------------------------------
(* A log and its copy: new maps what was taken of A to its place in F, and *)
(* far[i] is how much of F there is once A has been read up to i.  What is *)
(* in force in A and was not taken comes to nothing.                       *)

Mirrors(A, F, new, far) ==
    /\ Whole(A)
    /\ \A k \in Live(A) : A[k].type # "kind"
    /\ DOMAIN new \subseteq Live(A)
    /\ \A k \in Live(A) \ DOMAIN new :
          \/ A[k].type = "session_created"
          \/ A[k].type \in {"elide", "unelide"} /\ A[k].targets = {}
    /\ Len(F) \in Nat \ {0} /\ DOMAIN F = 1..Len(F)
    /\ Live(F) = DOMAIN F /\ F[1].type = "session_created"
    /\ \A k \in DOMAIN new :
          /\ new[k] \in 2..Len(F)
          /\ F[new[k]] = ReAim(A[k], new)
          /\ TargetsOf(A[k]) \subseteq DOMAIN new
          /\ \A j \in DOMAIN new : j < k => new[j] < new[k]
    /\ \A p \in 2..Len(F) : \E k \in DOMAIN new : new[k] = p
    /\ \A i \in 0..Len(A) : far[i] \in 1..Len(F)
    /\ far[0] = 1 /\ far[Len(A)] = Len(F)
    /\ \A i \in 1..Len(A) :
          IF i \in DOMAIN new THEN far[i] = far[i - 1] + 1 /\ new[i] = far[i]
          ELSE far[i] = far[i - 1]

\* Places keep their order, each its own.
LEMMA MirrorPlaces ==
    ASSUME NEW A, NEW F, NEW new, NEW far, Mirrors(A, F, new, far)
    PROVE  /\ Len(A) \in Nat /\ DOMAIN A = 1..Len(A)
           /\ \A k \in DOMAIN new :
                 /\ k \in 1..Len(A) /\ A[k] \in Entry /\ k \in Live(A) /\ k \in Nat
                 /\ new[k] \in 1..Len(F) /\ new[k] \in Live(F) /\ new[k] \in DOMAIN F
                 /\ new[k] \in Nat \ {0, 1}
           /\ \A j, k \in DOMAIN new : j < k <=> new[j] < new[k]
           /\ \A j, k \in DOMAIN new : j = k <=> new[j] = new[k]
           /\ \A p \in Live(F) : p = 1 \/ \E k \in DOMAIN new : p = new[k]
<1>1. Len(A) \in Nat /\ DOMAIN A = 1..Len(A) /\ Live(A) \subseteq 1..Len(A) /\ \A k \in 1..Len(A) : A[k] \in Entry
  BY WholeLog DEF Mirrors
<1>2. Len(F) \in Nat /\ Live(F) = 1..Len(F) /\ DOMAIN F = 1..Len(F)
  BY DEF Mirrors
<1>3. \A k \in DOMAIN new : k \in Live(A) /\ new[k] \in 2..Len(F)
  BY DEF Mirrors
<1>4. \A k \in DOMAIN new : k \in 1..Len(A) /\ k \in Nat
  BY <1>1, <1>3
<1>5. \A p \in 2..Len(F) : p \in 1..Len(F) /\ p \in Nat \ {0, 1}
  BY <1>2
<1>6. \A j, k \in DOMAIN new : j < k => new[j] < new[k]
  BY DEF Mirrors
<1>7. \A j, k \in DOMAIN new : j < k <=> new[j] < new[k]
  <2> SUFFICES ASSUME NEW j \in DOMAIN new, NEW k \in DOMAIN new, new[j] < new[k] PROVE j < k
    BY <1>6
  <2>1. j \in Nat /\ k \in Nat /\ new[j] \in Nat /\ new[k] \in Nat
    BY <1>3, <1>4, <1>5
  <2>2. k < j => new[k] < new[j]
    BY <1>6
  <2>3. j = k => new[j] = new[k]
    OBVIOUS
  <2> QED BY <2>1, <2>2, <2>3
<1>8. \A j, k \in DOMAIN new : j = k <=> new[j] = new[k]
  <2> SUFFICES ASSUME NEW j \in DOMAIN new, NEW k \in DOMAIN new, new[j] = new[k] PROVE j = k
    OBVIOUS
  <2>1. j \in Nat /\ k \in Nat /\ new[j] \in Nat /\ new[k] \in Nat
    BY <1>3, <1>4, <1>5
  <2>2. ~(j < k) /\ ~(k < j)
    <3>1. ~(new[j] < new[k]) /\ ~(new[k] < new[j])
      BY <2>1
    <3> QED BY <1>7, <3>1
  <2> QED BY <2>1, <2>2
<1>9. \A p \in Live(F) : p = 1 \/ \E k \in DOMAIN new : p = new[k]
  <2>1. \A p \in 1..Len(F) : p = 1 \/ p \in 2..Len(F)
    BY <1>2
  <2> QED BY <1>2, <2>1 DEF Mirrors
<1> QED BY <1>1, <1>2, <1>3, <1>4, <1>5, <1>7, <1>8, <1>9

\* What the copy of a taken event is.
LEMMA MirrorEvent ==
    ASSUME NEW A, NEW F, NEW new, NEW far, Mirrors(A, F, new, far), NEW k \in DOMAIN new
    PROVE  /\ F[new[k]].type = A[k].type
           /\ A[k].type \notin {"elide", "unelide", "edit"} => F[new[k]] = A[k]
           /\ A[k].type \in {"elide", "unelide"} =>
                 /\ A[k].targets \subseteq DOMAIN new
                 /\ F[new[k]].targets = {new[t] : t \in A[k].targets}
                 /\ F[new[k]].block = A[k].block
           /\ A[k].type = "edit" =>
                 /\ A[k].target \in DOMAIN new
                 /\ F[new[k]].target = new[A[k].target]
                 /\ F[new[k]].block = A[k].block /\ F[new[k]].text = A[k].text
                 /\ F[new[k]].files = A[k].files
<1>1. A[k] \in Entry
  BY MirrorPlaces
<1>2. F[new[k]] = ReAim(A[k], new) /\ TargetsOf(A[k]) \subseteq DOMAIN new
  BY DEF Mirrors
<1>3. A[k].type \in {"elide", "unelide"} =>
          A[k].targets \subseteq DOMAIN new /\ A[k].targets \cap DOMAIN new = A[k].targets
  BY <1>2 DEF TargetsOf
<1>4. A[k].type = "edit" => A[k].target \in DOMAIN new
  BY <1>2 DEF TargetsOf
<1> QED BY <1>1, <1>2, <1>3, <1>4, ReAimIs

LEMMA MirrorNames ==
    ASSUME NEW A, NEW F, NEW new, NEW far, Mirrors(A, F, new, far),
           NEW k \in DOMAIN new, NEW m \in DOMAIN new, NEW b
    PROVE  Names(F[new[m]], new[k], b) <=> Names(A[m], k, b)
<1>1. \A j \in DOMAIN new : j = k <=> new[j] = new[k]
  BY MirrorPlaces
<1>2. F[new[m]].type = A[m].type
  BY MirrorEvent
<1>3. CASE A[m].type \in {"elide", "unelide"}
  <2>1. /\ A[m].targets \subseteq DOMAIN new
        /\ F[new[m]].targets = {new[t] : t \in A[m].targets}
        /\ F[new[m]].block = A[m].block
    BY <1>3, MirrorEvent
  <2>2. new[k] \in F[new[m]].targets <=> k \in A[m].targets
    BY <1>1, <2>1
  <2> QED BY <1>2, <2>1, <2>2 DEF Names
<1>4. CASE A[m].type \notin {"elide", "unelide"}
  BY <1>2, <1>4 DEF Names
<1> QED BY <1>3, <1>4

\* What is removed from A is removed from its copy.
LEMMA MirrorRemoved ==
    ASSUME NEW A, NEW F, NEW new, NEW far, Mirrors(A, F, new, far),
           NEW k \in DOMAIN new, NEW b
    PROVE  RemovedAt(F, Live(F), new[k], b) <=> RemovedAt(A, Live(A), k, b)
<1>1. \A m \in Live(A) : Names(A[m], k, b) => m \in DOMAIN new
  BY DEF Mirrors, Names
<1>2. \A p \in Live(F) : Names(F[p], new[k], b) => \E m \in DOMAIN new : p = new[m]
  <2>1. ~Names(F[1], new[k], b)
    BY DEF Mirrors, Names
  <2> QED BY <2>1, MirrorPlaces
<1>3. \A m \in DOMAIN new : /\ m \in Live(A) /\ new[m] \in Live(F)
                            /\ Names(F[new[m]], new[k], b) <=> Names(A[m], k, b)
                            /\ F[new[m]].type = A[m].type
  <2>1. \A m \in DOMAIN new : m \in Live(A) /\ new[m] \in Live(F)
    BY MirrorPlaces
  <2>2. \A m \in DOMAIN new : Names(F[new[m]], new[k], b) <=> Names(A[m], k, b)
    BY MirrorNames
  <2>3. \A m \in DOMAIN new : F[new[m]].type = A[m].type
    BY MirrorEvent
  <2> QED BY <2>1, <2>2, <2>3
<1>4. \A m, n \in DOMAIN new : n > m <=> new[n] > new[m]
  <2> SUFFICES ASSUME NEW m \in DOMAIN new, NEW n \in DOMAIN new PROVE n > m <=> new[n] > new[m]
    OBVIOUS
  <2>1. m \in Nat /\ n \in Nat /\ new[m] \in Nat /\ new[n] \in Nat /\ (m < n <=> new[m] < new[n])
    BY MirrorPlaces
  <2> QED BY <2>1
<1>5. ASSUME RemovedAt(A, Live(A), k, b) PROVE RemovedAt(F, Live(F), new[k], b)
  <2>1. PICK m \in Live(A) : /\ A[m].type = "elide" /\ Names(A[m], k, b)
                             /\ \A n \in Live(A) : n > m => ~Names(A[n], k, b)
    BY <1>5 DEF RemovedAt
  <2>2. m \in DOMAIN new
    BY <1>1, <2>1
  <2>3. ASSUME NEW p \in Live(F), p > new[m], Names(F[p], new[k], b) PROVE FALSE
    <3>1. PICK n \in DOMAIN new : p = new[n]
      BY <1>2, <2>3
    <3> QED BY <1>3, <1>4, <2>1, <2>2, <2>3, <3>1
  <2> QED BY <1>3, <2>1, <2>2, <2>3 DEF RemovedAt
<1>6. ASSUME RemovedAt(F, Live(F), new[k], b) PROVE RemovedAt(A, Live(A), k, b)
  <2>1. PICK p \in Live(F) : /\ F[p].type = "elide" /\ Names(F[p], new[k], b)
                             /\ \A n \in Live(F) : n > p => ~Names(F[n], new[k], b)
    BY <1>6 DEF RemovedAt
  <2>2. PICK m \in DOMAIN new : p = new[m]
    BY <1>2, <2>1
  <2>3. ASSUME NEW n \in Live(A), n > m, Names(A[n], k, b) PROVE FALSE
    BY <1>1, <1>3, <1>4, <2>1, <2>2, <2>3
  <2> QED BY <1>3, <2>1, <2>2, <2>3 DEF RemovedAt
<1> QED BY <1>5, <1>6

\* The last of some taken events is the last of their copies.
LEMMA MirrorLast ==
    ASSUME NEW A, NEW F, NEW new, NEW far, Mirrors(A, F, new, far),
           NEW S \in SUBSET DOMAIN new
    PROVE  /\ S = {} => LastOf({new[s] : s \in S}) = 0 /\ LastOf(S) = 0
           /\ S # {} => LastOf(S) \in S /\ LastOf({new[s] : s \in S}) = new[LastOf(S)]
           /\ LastOf(S) = 0 <=> S = {}
<1> DEFINE T == {new[s] : s \in S}
           l == LastOf(S)
           m == LastOf(T)
<1>1. Len(A) \in Nat /\ S \in SUBSET (1..Len(A)) /\ Len(F) \in Nat /\ T \in SUBSET (1..Len(F))
  <2>1. \A s \in S : s \in 1..Len(A) /\ new[s] \in 1..Len(F)
    BY MirrorPlaces
  <2>2. Len(A) \in Nat
    BY MirrorPlaces
  <2>3. Len(F) \in Nat
    BY DEF Mirrors
  <2> QED BY <2>1, <2>2, <2>3
<1>2. CASE S = {}
  <2>1. T = {}
    BY <1>2
  <2> QED BY <1>2, <2>1 DEF LastOf
<1>3. CASE S # {}
  <2>1. T # {}
    BY <1>3
  <2> HIDE DEF T
  <2>2. l \in S /\ \A j \in S : j <= l
    BY <1>1, <1>3, LastOfIs
  <2>3. m \in T /\ \A j \in T : j <= m
    BY <1>1, <2>1, LastOfIs
  <2> HIDE DEF l, m
  <2>4. PICK s \in S : m = new[s]
    BY <2>3 DEF T
  <2>5. new[l] \in T
    BY <2>2 DEF T
  <2>6. l \in DOMAIN new /\ s \in DOMAIN new
    BY <2>2
  <2>7. l \in Nat /\ s \in Nat /\ new[l] \in Nat /\ new[s] \in Nat /\ (s < l <=> new[s] < new[l]) /\ l # 0
    <3>1. l \in 1..Len(A)
      BY <1>1, <2>2
    <3> QED BY <1>1, <2>6, <3>1, MirrorPlaces
  <2>8. s <= l /\ new[l] <= new[s]
    BY <2>2, <2>3, <2>4, <2>5
  <2>9. s = l
    BY <2>7, <2>8
  <2> QED BY <1>3, <2>2, <2>4, <2>7, <2>9 DEF l, m, T
<1> QED BY <1>2, <1>3

\* The edit of a place is copied to the edit of its copy.
LEMMA MirrorEdits ==
    ASSUME NEW A, NEW F, NEW new, NEW far, Mirrors(A, F, new, far),
           NEW k \in DOMAIN new, NEW b
    PROVE  /\ LET e == EditAt(A, Live(A), k, b)
                  f == EditAt(F, Live(F), new[k], b)
              IN  (e = 0 <=> f = 0) /\ (e # 0 => F[f].text = A[e].text)
           /\ LET e == FilesEditAt(A, Live(A), k)
                  f == FilesEditAt(F, Live(F), new[k])
              IN  (e = 0 <=> f = 0) /\ (e # 0 => F[f].files = A[e].files)
<1> DEFINE E(c) == {j \in Live(A) : A[j].type = "edit" /\ A[j].target = k /\ A[j].block = c}
           H(c) == {j \in Live(F) : F[j].type = "edit" /\ F[j].target = new[k] /\ F[j].block = c}
           Ef == {j \in Live(A) : A[j].type = "edit" /\ A[j].target = k /\ A[j].files # KeepFiles}
           Hf == {j \in Live(F) : F[j].type = "edit" /\ F[j].target = new[k] /\ F[j].files # KeepFiles}
<1>1. \A j \in Live(A) : A[j].type = "edit" => j \in DOMAIN new
  BY DEF Mirrors
<1>2. \A p \in Live(F) : F[p].type = "edit" => \E j \in DOMAIN new : p = new[j]
  <2>1. F[1].type # "edit"
    BY DEF Mirrors
  <2> QED BY <2>1, MirrorPlaces
<1>3. \A j \in DOMAIN new :
          /\ j \in Live(A) /\ new[j] \in Live(F) /\ F[new[j]].type = A[j].type
          /\ A[j].type = "edit" =>
                /\ F[new[j]].target = new[k] <=> A[j].target = k
                /\ F[new[j]].block = A[j].block
                /\ F[new[j]].text = A[j].text /\ F[new[j]].files = A[j].files
  <2> SUFFICES ASSUME NEW j \in DOMAIN new
               PROVE  /\ j \in Live(A) /\ new[j] \in Live(F) /\ F[new[j]].type = A[j].type
                      /\ A[j].type = "edit" =>
                            /\ F[new[j]].target = new[k] <=> A[j].target = k
                            /\ F[new[j]].block = A[j].block
                            /\ F[new[j]].text = A[j].text /\ F[new[j]].files = A[j].files
    OBVIOUS
  <2>1. j \in Live(A) /\ new[j] \in Live(F) /\ F[new[j]].type = A[j].type
    BY MirrorPlaces, MirrorEvent
  <2>2. ASSUME A[j].type = "edit"
        PROVE  /\ F[new[j]].target = new[k] <=> A[j].target = k
               /\ F[new[j]].block = A[j].block
               /\ F[new[j]].text = A[j].text /\ F[new[j]].files = A[j].files
    <3>1. /\ A[j].target \in DOMAIN new
          /\ F[new[j]].target = new[A[j].target]
          /\ F[new[j]].block = A[j].block /\ F[new[j]].text = A[j].text
          /\ F[new[j]].files = A[j].files
      BY <2>2, MirrorEvent
    <3>2. new[A[j].target] = new[k] <=> A[j].target = k
      BY <3>1, MirrorPlaces
    <3> QED BY <3>1, <3>2
  <2> QED BY <2>1, <2>2
<1>4. E(b) \in SUBSET DOMAIN new /\ H(b) = {new[s] : s \in E(b)}
  <2>1. E(b) \in SUBSET DOMAIN new
    BY <1>1
  <2>2. H(b) \subseteq {new[s] : s \in E(b)}
    BY <1>2, <1>3
  <2>3. {new[s] : s \in E(b)} \subseteq H(b)
    BY <1>1, <1>3
  <2> QED BY <2>1, <2>2, <2>3
<1>5. Ef \in SUBSET DOMAIN new /\ Hf = {new[s] : s \in Ef}
  <2>1. Ef \in SUBSET DOMAIN new
    BY <1>1
  <2>2. Hf \subseteq {new[s] : s \in Ef}
    BY <1>2, <1>3
  <2>3. {new[s] : s \in Ef} \subseteq Hf
    BY <1>1, <1>3
  <2> QED BY <2>1, <2>2, <2>3
<1>6. ASSUME NEW S \in SUBSET DOMAIN new
      PROVE  LET e == LastOf(S)
                 f == LastOf({new[s] : s \in S})
             IN  (e = 0 <=> f = 0) /\ (e # 0 => e \in S /\ f = new[e])
  <2>1. \A s \in S : new[s] # 0
    BY MirrorPlaces
  <2> QED BY <2>1, MirrorLast
<1>7. \A j \in E(b) : F[new[j]].text = A[j].text
  BY <1>1, <1>3
<1>8. \A j \in Ef : F[new[j]].files = A[j].files
  BY <1>1, <1>3
<1>9. EditAt(A, Live(A), k, b) = LastOf(E(b)) /\ EditAt(F, Live(F), new[k], b) = LastOf(H(b))
  BY DEF EditAt
<1>10. FilesEditAt(A, Live(A), k) = LastOf(Ef) /\ FilesEditAt(F, Live(F), new[k]) = LastOf(Hf)
  BY DEF FilesEditAt
<1> HIDE DEF E, H, Ef, Hf
<1>11. LET e == LastOf(E(b))
           f == LastOf(H(b))
       IN  (e = 0 <=> f = 0) /\ (e # 0 => F[f].text = A[e].text)
  BY <1>4, <1>6, <1>7
<1>12. LET e == LastOf(Ef)
           f == LastOf(Hf)
       IN  (e = 0 <=> f = 0) /\ (e # 0 => F[f].files = A[e].files)
  BY <1>5, <1>6, <1>8
<1> QED BY <1>9, <1>10, <1>11, <1>12

\* What a copied event is missing.
LEMMA MirrorGone ==
    ASSUME NEW A, NEW F, NEW new, NEW far, Mirrors(A, F, new, far), NEW k \in DOMAIN new
    PROVE  /\ IsAssistant(A[k]) => F[new[k]] = A[k]
           /\ GoneIn(F, Live(F), new[k]) = GoneIn(A, Live(A), k)
           /\ new[k] \in ElidedIn(F, Live(F)) <=> k \in ElidedIn(A, Live(A))
<1>1. \A b : RemovedAt(F, Live(F), new[k], b) <=> RemovedAt(A, Live(A), k, b)
  BY MirrorRemoved
<1>2. k \in DOMAIN A /\ new[k] \in DOMAIN F
  BY MirrorPlaces
<1>3. /\ IsAssistant(A[k]) => F[new[k]] = A[k]
      /\ IsAssistant(F[new[k]]) <=> IsAssistant(A[k])
  BY MirrorEvent DEF IsAssistant
<1>4. GoneIn(F, Live(F), new[k]) = GoneIn(A, Live(A), k)
  BY <1>1, <1>3 DEF GoneIn
<1>5. new[k] \in ElidedIn(F, Live(F)) <=> k \in ElidedIn(A, Live(A))
  BY <1>1, <1>2 DEF ElidedIn
<1> QED BY <1>3, <1>4, <1>5

\* The calls taken out of the copy are those taken out of the log.
LEMMA MirrorCalls ==
    ASSUME NEW A, NEW F, NEW new, NEW far, Mirrors(A, F, new, far)
    PROVE  RemovedCalls(F, Live(F)) = RemovedCalls(A, Live(A))
<1> DEFINE Out(log, live, i) ==
              {log[i].blocks[b].id : b \in {n \in GoneIn(log, live, i) : IsCall(log[i].blocks[n])}}
<1>1. \A k \in DOMAIN new : /\ k \in Live(A) /\ new[k] \in Live(F)
                            /\ Out(F, Live(F), new[k]) = Out(A, Live(A), k)
  <2> SUFFICES ASSUME NEW k \in DOMAIN new
               PROVE  /\ k \in Live(A) /\ new[k] \in Live(F)
                      /\ Out(F, Live(F), new[k]) = Out(A, Live(A), k)
    OBVIOUS
  <2>1. k \in Live(A) /\ new[k] \in Live(F)
    BY MirrorPlaces
  <2>2. GoneIn(F, Live(F), new[k]) = GoneIn(A, Live(A), k) /\ (IsAssistant(A[k]) => F[new[k]] = A[k])
    BY MirrorGone
  <2>3. CASE IsAssistant(A[k])
    BY <2>1, <2>2, <2>3
  <2>4. CASE ~IsAssistant(A[k])
    <3>1. GoneIn(A, Live(A), k) = {}
      BY <2>4 DEF GoneIn
    <3> QED BY <2>1, <2>2, <3>1
  <2> QED BY <2>3, <2>4
<1>2. \A k \in Live(A) : k \notin DOMAIN new => Out(A, Live(A), k) = {}
  BY DEF Mirrors, GoneIn, IsAssistant
<1>3. Out(F, Live(F), 1) = {}
  BY DEF Mirrors, GoneIn, IsAssistant
<1>4. \A p \in Live(F) : p = 1 \/ \E k \in DOMAIN new : p = new[k]
  BY MirrorPlaces
<1> HIDE DEF Out
<1>5. UNION {Out(F, Live(F), p) : p \in Live(F)} \subseteq UNION {Out(A, Live(A), k) : k \in Live(A)}
  BY <1>1, <1>3, <1>4
<1>6. UNION {Out(A, Live(A), k) : k \in Live(A)} \subseteq UNION {Out(F, Live(F), p) : p \in Live(F)}
  BY <1>1, <1>2
<1>7. UNION {Out(F, Live(F), p) : p \in Live(F)} = UNION {Out(A, Live(A), k) : k \in Live(A)}
  BY <1>5, <1>6
<1> QED BY <1>7 DEF RemovedCalls, Out

-----------------------------------------------------------------------------
(* Content that is the same but for the events its blocks came from.       *)

Same(b, d) == b \in WireBlock /\ \E s \in Nat : d = [b EXCEPT !.src = s]

SameContent(c, d) ==
    /\ c \in Seq(WireBlock) /\ d \in Seq(WireBlock) /\ Len(d) = Len(c)
    /\ \A n \in DOMAIN c : Same(c[n], d[n])

LEMMA SameIs ==
    ASSUME NEW b, NEW d, Same(b, d)
    PROVE  /\ b \in WireBlock /\ d \in WireBlock /\ d.kind = b.kind
           /\ d.kind \in {"tool_use", "tool_result"} => d.id = b.id
           /\ [d EXCEPT !.src = 0] = [b EXCEPT !.src = 0]
<1>1. PICK s \in Nat : d = [b EXCEPT !.src = s]
  BY DEF Same
<1>2. b \in WireBlock
  BY DEF Same
<1>3. CASE b \in [kind : {"marker", "file", "summary", "omitted", "thinking", "reasoning_ref"}, src : Nat]
  <2>1. d \in [kind : {"marker", "file", "summary", "omitted", "thinking", "reasoning_ref"}, src : Nat]
        /\ d.kind = b.kind /\ [d EXCEPT !.src = 0] = [b EXCEPT !.src = 0]
    BY <1>1, <1>3
  <2> QED BY <1>2, <2>1 DEF WireBlock
<1>4. CASE b \in [kind : {"text", "narrative"}, say : Words \cup {"said", "own"}, src : Nat]
  <2>1. d \in [kind : {"text", "narrative"}, say : Words \cup {"said", "own"}, src : Nat]
        /\ d.kind = b.kind /\ [d EXCEPT !.src = 0] = [b EXCEPT !.src = 0]
    BY <1>1, <1>4
  <2> QED BY <1>2, <2>1 DEF WireBlock
<1>5. CASE b \in [kind : {"note"}, say : Kinds, src : Nat]
  <2>1. d \in [kind : {"note"}, say : Kinds, src : Nat]
        /\ d.kind = b.kind /\ [d EXCEPT !.src = 0] = [b EXCEPT !.src = 0]
    BY <1>1, <1>5
  <2> QED BY <1>2, <2>1 DEF WireBlock
<1>6. CASE b \in [kind : {"tool_use"}, id : Nat \X Nat, src : Nat]
  <2>1. d \in [kind : {"tool_use"}, id : Nat \X Nat, src : Nat] /\ d.id = b.id
        /\ d.kind = b.kind /\ [d EXCEPT !.src = 0] = [b EXCEPT !.src = 0]
    BY <1>1, <1>6
  <2> QED BY <1>2, <2>1 DEF WireBlock
<1>7. CASE b \in [kind : {"tool_result"}, id : Nat \X Nat,
                  content : {"kept", "marker", "repair"}, src : Nat]
  <2>1. d \in [kind : {"tool_result"}, id : Nat \X Nat,
               content : {"kept", "marker", "repair"}, src : Nat] /\ d.id = b.id
        /\ d.kind = b.kind /\ [d EXCEPT !.src = 0] = [b EXCEPT !.src = 0]
    BY <1>1, <1>7
  <2> QED BY <1>2, <2>1 DEF WireBlock
<1> QED BY <1>2, <1>3, <1>4, <1>5, <1>6, <1>7 DEF WireBlock

\* What the comparison of two contents gives.
LEMMA SamePlaces ==
    ASSUME NEW c, NEW d, SameContent(c, d)
    PROVE  /\ Len(c) \in Nat /\ DOMAIN c = 1..Len(c) /\ DOMAIN d = DOMAIN c
           /\ \A n \in 1..Len(c) :
                 /\ c[n] \in WireBlock /\ d[n] \in WireBlock /\ d[n].kind = c[n].kind
                 /\ c[n].kind \in {"tool_use", "tool_result"} => d[n].id = c[n].id
           /\ c = << >> <=> d = << >>
<1>1. /\ c \in Seq(WireBlock) /\ d \in Seq(WireBlock) /\ Len(d) = Len(c)
      /\ \A n \in DOMAIN c : Same(c[n], d[n])
  BY DEF SameContent
<1>2. Len(c) \in Nat /\ DOMAIN c = 1..Len(c) /\ DOMAIN d = DOMAIN c /\ (c = << >> <=> d = << >>)
  BY <1>1
<1> QED BY <1>1, <1>2, SameIs

LEMMA SameEmpty == SameContent(<< >>, << >>)
BY DEF SameContent

LEMMA SameOne ==
    ASSUME NEW b, NEW d, Same(b, d)
    PROVE  SameContent(<< b >>, << d >>)
<1>1. b \in WireBlock /\ d \in WireBlock
  BY SameIs
<1> QED BY <1>1 DEF SameContent

LEMMA SameJoin ==
    ASSUME NEW a, NEW b, SameContent(a, b), NEW c, NEW d, SameContent(c, d)
    PROVE  SameContent(a \o c, b \o d)
<1>1. /\ a \in Seq(WireBlock) /\ b \in Seq(WireBlock) /\ Len(b) = Len(a)
      /\ \A n \in DOMAIN a : Same(a[n], b[n])
  BY DEF SameContent
<1>2. /\ c \in Seq(WireBlock) /\ d \in Seq(WireBlock) /\ Len(d) = Len(c)
      /\ \A n \in DOMAIN c : Same(c[n], d[n])
  BY DEF SameContent
<1>3. /\ a \o c \in Seq(WireBlock) /\ b \o d \in Seq(WireBlock)
      /\ Len(a \o c) = Len(a) + Len(c) /\ Len(b \o d) = Len(a) + Len(c)
      /\ Len(a) \in Nat /\ Len(c) \in Nat
  BY <1>1, <1>2
<1>4. ASSUME NEW n \in DOMAIN (a \o c) PROVE Same((a \o c)[n], (b \o d)[n])
  <2>1. CASE n \in DOMAIN a
    <3>1. (a \o c)[n] = a[n] /\ (b \o d)[n] = b[n]
      BY <1>1, <1>2, <2>1
    <3> QED BY <1>1, <2>1, <3>1
  <2>2. CASE n \notin DOMAIN a
    <3>1. n - Len(a) \in DOMAIN c
      BY <1>1, <1>2, <2>2
    <3>2. (a \o c)[n] = c[n - Len(a)] /\ (b \o d)[n] = d[n - Len(a)]
      BY <1>1, <1>2, <2>2
    <3> QED BY <1>2, <3>1, <3>2
  <2> QED BY <2>1, <2>2
<1> QED BY <1>3, <1>4 DEF SameContent

LEMMA OneJoined ==
    ASSUME NEW S, NEW a \in Seq(S), NEW x \in S
    PROVE  Append(a, x) = a \o << x >>
OBVIOUS

LEMMA SameAppend ==
    ASSUME NEW c, NEW d, SameContent(c, d), NEW b, NEW e, Same(b, e)
    PROVE  SameContent(Append(c, b), Append(d, e))
<1>1. SameContent(c \o << b >>, d \o << e >>)
  BY SameOne, SameJoin
<1>2. c \in Seq(WireBlock) /\ d \in Seq(WireBlock) /\ b \in WireBlock /\ e \in WireBlock
  BY SameIs DEF SameContent
<1>3. Append(c, b) = c \o << b >>
  BY <1>2, OneJoined
<1>4. Append(d, e) = d \o << e >>
  BY <1>2, OneJoined
<1> QED BY <1>1, <1>3, <1>4

\* What is sifted at the same places is the same.
LEMMA SameSift ==
    ASSUME NEW c, NEW d, SameContent(c, d), NEW keep
    PROVE  SameContent(Sift(c, keep), Sift(d, keep))
<1>1. /\ c \in Seq(WireBlock) /\ d \in Seq(WireBlock) /\ Len(d) = Len(c) /\ Len(c) \in Nat
      /\ \A n \in 1..Len(c) : Same(c[n], d[n])
  BY DEF SameContent
<1>2. PICK f : /\ f[0] = << >>
               /\ \A n \in 1..Len(c) :
                     f[n] = IF n \in keep THEN Append(f[n - 1], c[n]) ELSE f[n - 1]
               /\ Sift(c, keep) = f[Len(c)]
  <2>1. c \in Seq(WireBlock)
    BY <1>1
  <2>2. \E f : /\ DOMAIN f = 0..Len(c)
               /\ f[0] = << >>
               /\ \A n \in 1..Len(c) :
                     f[n] = IF n \in keep THEN Append(f[n - 1], c[n]) ELSE f[n - 1]
               /\ Sift(c, keep) = f[Len(c)]
    BY <2>1, SiftSteps
  <2> QED BY <2>2
<1>3. PICK g : /\ g[0] = << >>
               /\ \A n \in 1..Len(c) :
                     g[n] = IF n \in keep THEN Append(g[n - 1], d[n]) ELSE g[n - 1]
               /\ Sift(d, keep) = g[Len(c)]
  <2>1. d \in Seq(WireBlock)
    BY <1>1
  <2>2. \E g : /\ DOMAIN g = 0..Len(d)
               /\ g[0] = << >>
               /\ \A n \in 1..Len(d) :
                     g[n] = IF n \in keep THEN Append(g[n - 1], d[n]) ELSE g[n - 1]
               /\ Sift(d, keep) = g[Len(d)]
    BY <2>1, SiftSteps
  <2> QED BY <1>1, <2>2
<1> DEFINE G == {n \in 0..Len(c) : SameContent(f[n], g[n])}
<1>4. 0 \in G
  BY <1>1, <1>2, <1>3, SameEmpty
<1>5. ASSUME NEW n \in 0..(Len(c) - 1), n \in G
      PROVE  n + 1 \in G
  <2>1. n + 1 \in 1..Len(c) /\ (n + 1) - 1 = n /\ n + 1 \in 0..Len(c)
    BY <1>1
  <2>2. SameContent(f[n], g[n])
    BY <1>5
  <2>3. CASE n + 1 \in keep
    <3>1. f[n + 1] = Append(f[n], c[n + 1]) /\ g[n + 1] = Append(g[n], d[n + 1])
      BY <1>2, <1>3, <2>1, <2>3
    <3>2. SameContent(f[n + 1], g[n + 1])
      BY <1>1, <2>1, <2>2, <3>1, SameAppend
    <3> QED BY <2>1, <3>2
  <2>4. CASE n + 1 \notin keep
    <3>1. f[n + 1] = f[n] /\ g[n + 1] = g[n]
      BY <1>2, <1>3, <2>1, <2>4
    <3> QED BY <2>1, <2>2, <3>1
  <2> QED BY <2>3, <2>4
<1>6. 0..Len(c) \subseteq G
  <2> HIDE DEF G
  <2> QED BY <1>1, <1>4, <1>5, UpTo
<1>7. Len(c) \in 0..Len(c)
  BY <1>1
<1> QED BY <1>2, <1>3, <1>6, <1>7

\* Blocks made the same way out of two events.
LEMMA SameMarkers ==
    ASSUME NEW i \in Nat, NEW j \in Nat
    PROVE  /\ Same(Marker(i), Marker(j))
           /\ Same([kind |-> "omitted", src |-> i], [kind |-> "omitted", src |-> j])
           /\ Same([kind |-> "summary", src |-> i], [kind |-> "summary", src |-> j])
           /\ \A id \in Nat \X Nat, w \in {"kept", "marker", "repair"} :
                 Same(ResultBlock(id, w, i), ResultBlock(id, w, j))
           /\ Same([kind |-> "file", src |-> i], [kind |-> "file", src |-> j])
           /\ \A w \in Words \cup {"said", "own"}, k \in {"text", "narrative"} :
                 Same([kind |-> k, say |-> w, src |-> i], [kind |-> k, say |-> w, src |-> j])
<1>1. /\ Marker(j) = [Marker(i) EXCEPT !.src = j]
      /\ [kind |-> "omitted", src |-> j] = [[kind |-> "omitted", src |-> i] EXCEPT !.src = j]
      /\ [kind |-> "summary", src |-> j] = [[kind |-> "summary", src |-> i] EXCEPT !.src = j]
      /\ [kind |-> "file", src |-> j] = [[kind |-> "file", src |-> i] EXCEPT !.src = j]
  BY DEF Marker
<1>2. ASSUME NEW id \in Nat \X Nat, NEW w \in {"kept", "marker", "repair"}
      PROVE  /\ ResultBlock(id, w, i) \in WireBlock
             /\ ResultBlock(id, w, j) = [ResultBlock(id, w, i) EXCEPT !.src = j]
  BY DEF ResultBlock, WireBlock
<1>3. ASSUME NEW w \in Words \cup {"said", "own"}, NEW k \in {"text", "narrative"}
      PROVE  /\ [kind |-> k, say |-> w, src |-> i] \in WireBlock
             /\ [kind |-> k, say |-> w, src |-> j] = [[kind |-> k, say |-> w, src |-> i] EXCEPT !.src = j]
  BY DEF WireBlock
<1>4. [kind |-> "file", src |-> i] \in WireBlock
  BY DEF WireBlock
<1>5. /\ Marker(i) \in WireBlock /\ [kind |-> "omitted", src |-> i] \in WireBlock
      /\ [kind |-> "summary", src |-> i] \in WireBlock
  BY MarkerIs
<1>6. ASSUME NEW b \in WireBlock, NEW d, d = [b EXCEPT !.src = j] PROVE Same(b, d)
  BY <1>6 DEF Same
<1>7. \A id \in Nat \X Nat, w \in {"kept", "marker", "repair"} :
          Same(ResultBlock(id, w, i), ResultBlock(id, w, j))
  BY <1>2, <1>6
<1>8. \A w \in Words \cup {"said", "own"}, k \in {"text", "narrative"} :
          Same([kind |-> k, say |-> w, src |-> i], [kind |-> k, say |-> w, src |-> j])
  BY <1>3, <1>6
<1>9. /\ Same(Marker(i), Marker(j))
      /\ Same([kind |-> "omitted", src |-> i], [kind |-> "omitted", src |-> j])
      /\ Same([kind |-> "summary", src |-> i], [kind |-> "summary", src |-> j])
      /\ Same([kind |-> "file", src |-> i], [kind |-> "file", src |-> j])
  BY <1>1, <1>4, <1>5, <1>6
<1> QED BY <1>7, <1>8, <1>9

LEMMA SameOut ==
    ASSUME NEW b \in Block, NEW i \in Nat, NEW j \in Nat
    PROVE  Same(OutBlock(b, i, "own"), OutBlock(b, j, "own"))
<1>1. OutBlock(b, i, "own") \in WireBlock
  BY OutBlockIs
<1>2. OutBlock(b, j, "own") = [OutBlock(b, i, "own") EXCEPT !.src = j]
  <2>1. CASE IsText(b)
    BY <2>1 DEF OutBlock
  <2>2. CASE ~IsText(b) /\ IsCall(b)
    BY <2>2 DEF OutBlock
  <2>3. CASE ~IsText(b) /\ ~IsCall(b)
    BY <2>3 DEF OutBlock
  <2> QED BY <2>1, <2>2, <2>3
<1> QED BY <1>1, <1>2 DEF Same

\* A block of a reply and its copy, each with its edit.
LEMMA SameEdited ==
    ASSUME NEW A, NEW F, NEW new, NEW far, Mirrors(A, F, new, far),
           NEW k \in DOMAIN new, IsAssistant(A[k]), NEW n \in DOMAIN A[k].blocks
    PROVE  Same(EditedBlock(A, Live(A), k, n), EditedBlock(F, Live(F), new[k], n))
<1> DEFINE e == EditAt(A, Live(A), k, n)
           f == EditAt(F, Live(F), new[k], n)
           b == A[k].blocks[n]
<1>1. F[new[k]] = A[k] /\ k \in DOMAIN A /\ k \in Nat /\ new[k] \in Nat
  BY MirrorGone, MirrorPlaces
<1>2. b \in Block
  BY <1>1, WholeLog DEF Mirrors
<1>3. (e = 0 <=> f = 0) /\ (e # 0 => F[f].text = A[e].text)
  BY MirrorEdits
<1>4. CASE e = 0
  <2>1. EditedBlock(A, Live(A), k, n) = OutBlock(b, k, "own")
    BY <1>4 DEF EditedBlock
  <2>2. EditedBlock(F, Live(F), new[k], n) = OutBlock(b, new[k], "own")
    BY <1>1, <1>3, <1>4 DEF EditedBlock
  <2> HIDE DEF b
  <2> QED BY <1>1, <1>2, <2>1, <2>2, SameOut
<1>5. CASE e # 0
  <2>1. Whole(A)
    BY DEF Mirrors
  <2>2. Rewords(A, e, k, n)
    BY <1>5, <2>1, EditAtIs
  <2>3. A[e].text \in Words
    BY <2>2 DEF Rewords
  <2>4. EditedBlock(A, Live(A), k, n) = [kind |-> "text", say |-> A[e].text, src |-> k]
    BY <1>5 DEF EditedBlock
  <2>5. EditedBlock(F, Live(F), new[k], n) = [kind |-> "text", say |-> F[f].text, src |-> new[k]]
    BY <1>3, <1>5 DEF EditedBlock
  <2>6. F[f].text = A[e].text
    BY <1>3, <1>5
  <2> HIDE DEF e, f
  <2> QED BY <1>1, <2>3, <2>4, <2>5, <2>6, SameMarkers
<1> QED BY <1>4, <1>5

LEMMA SamePruned ==
    ASSUME NEW bs, NEW gone, NEW s, NEW t, SameContent(s, t), NEW i \in Nat, NEW j \in Nat
    PROVE  SameContent(Pruned(bs, gone, s, i), Pruned(bs, gone, t, j))
<1> DEFINE kept == {n \in DOMAIN bs : n \notin gone /\ ~LeadsRemovedCall(bs, gone, n)}
           o(c) == Sift(c, kept)
           Bare(out) == gone # {} /\ ~\E k \in DOMAIN out : IsText(out[k]) \/ IsCall(out[k])
           fu(out, x) == IF Bare(out) THEN Append(out, Marker(x)) ELSE out
           sp(full) == Sift(full, {k \in DOMAIN full : full[k].kind # "narrative"})
           en(full, x) == IF sp(full) = << >> /\ full # << >>
                          THEN << [kind |-> "omitted", src |-> x] >> ELSE sp(full)
<1>1. /\ Pruned(bs, gone, s, i) = en(fu(o(s), i), i)
      /\ Pruned(bs, gone, t, j) = en(fu(o(t), j), j)
  BY DEF Pruned
<1>2. SameContent(o(s), o(t))
  BY SameSift
<1>3. ASSUME NEW c, NEW d, SameContent(c, d) PROVE SameContent(fu(c, i), fu(d, j))
  <2>1. DOMAIN c = DOMAIN d /\ \A n \in DOMAIN c : d[n].kind = c[n].kind
    BY <1>3, SamePlaces
  <2>2. Bare(c) <=> Bare(d)
    BY <2>1 DEF IsText, IsCall
  <2>3. SameContent(Append(c, Marker(i)), Append(d, Marker(j)))
    BY <1>3, SameAppend, SameMarkers
  <2> HIDE DEF Bare
  <2> QED BY <1>3, <2>2, <2>3
<1>4. ASSUME NEW c, NEW d, SameContent(c, d) PROVE SameContent(en(c, i), en(d, j))
  <2>1. DOMAIN c = DOMAIN d /\ (\A n \in DOMAIN c : d[n].kind = c[n].kind) /\ (c = << >> <=> d = << >>)
    BY <1>4, SamePlaces
  <2>2. {k \in DOMAIN c : c[k].kind # "narrative"} = {k \in DOMAIN d : d[k].kind # "narrative"}
    BY <2>1
  <2>3. SameContent(sp(c), sp(d))
    BY <1>4, <2>2, SameSift
  <2> HIDE DEF sp
  <2>4. sp(c) = << >> <=> sp(d) = << >>
    BY <2>3, SamePlaces
  <2>5. SameContent(<< [kind |-> "omitted", src |-> i] >>, << [kind |-> "omitted", src |-> j] >>)
    BY SameOne, SameMarkers
  <2> QED BY <2>1, <2>3, <2>4, <2>5
<1> HIDE DEF o, fu, en
<1>5. SameContent(fu(o(s), i), fu(o(t), j))
  BY <1>2, <1>3
<1> QED BY <1>1, <1>4, <1>5

\* A reply and its copy go out the same.
LEMMA SameReply ==
    ASSUME NEW A, NEW F, NEW new, NEW far, Mirrors(A, F, new, far),
           NEW k \in DOMAIN new, IsAssistant(A[k])
    PROVE  SameContent(AssistantContent(A, Live(A), ElidedIn(A, Live(A)), k),
                       AssistantContent(F, Live(F), ElidedIn(F, Live(F)), new[k]))
<1> DEFINE bs == A[k].blocks
           gone == GoneIn(A, Live(A), k)
<1>1. /\ F[new[k]] = A[k] /\ GoneIn(F, Live(F), new[k]) = gone
      /\ new[k] \in ElidedIn(F, Live(F)) <=> k \in ElidedIn(A, Live(A))
      /\ k \in DOMAIN A /\ k \in Nat /\ new[k] \in Nat
  BY MirrorGone, MirrorPlaces
<1>2. bs \in Seq(Block) /\ DOMAIN bs = 1..Len(bs) /\ Len(bs) \in Nat /\ \A n \in DOMAIN bs : bs[n] \in Block
  BY <1>1, WholeLog DEF Mirrors
<1>3. ASSUME NEW s, NEW t, s = [n \in DOMAIN bs |-> s[n]], t = [n \in DOMAIN bs |-> t[n]],
             \A n \in DOMAIN bs : Same(s[n], t[n])
      PROVE  SameContent(s, t)
  <2> HIDE DEF bs
  <2> DEFINE m == Len(bs)
  <2>4. m \in Nat /\ DOMAIN bs = 1..m
    BY <1>2
  <2> HIDE DEF m
  <2>1. \A n \in 1..m : s[n] \in WireBlock /\ t[n] \in WireBlock
    BY <1>3, <2>4, SameIs
  <2>2. s \in [1..m -> WireBlock] /\ t \in [1..m -> WireBlock]
    BY <1>3, <2>1, <2>4
  <2>3. s \in Seq(WireBlock) /\ t \in Seq(WireBlock) /\ Len(s) = m /\ Len(t) = m
        /\ DOMAIN s = DOMAIN bs
    BY <2>2, <2>4
  <2> QED BY <1>3, <2>3 DEF SameContent
<1>4. SameContent(ElideAssistant(A, Live(A), k), ElideAssistant(F, Live(F), new[k]))
  <2> DEFINE own(x) == [n \in DOMAIN bs |-> OutBlock(bs[n], x, "own")]
             kept == {n \in DOMAIN bs : /\ bs[n].kind \in {"tool_use", "reasoning_ref"}
                                        /\ ~(IsCall(bs[n]) /\ n \in gone)
                                        /\ ~LeadsRemovedCall(bs, gone, n)}
  <2>1. /\ ElideAssistant(A, Live(A), k) = << Marker(k) >> \o Sift(own(k), kept)
        /\ ElideAssistant(F, Live(F), new[k]) = << Marker(new[k]) >> \o Sift(own(new[k]), kept)
    BY <1>1 DEF ElideAssistant
  <2> HIDE DEF kept
  <2>2. \A n \in DOMAIN bs : Same(own(k)[n], own(new[k])[n])
    <3>1. \A n \in DOMAIN bs : Same(OutBlock(bs[n], k, "own"), OutBlock(bs[n], new[k], "own"))
      BY <1>1, <1>2, SameOut
    <3> HIDE DEF bs
    <3> QED BY <3>1
  <2>3. SameContent(own(k), own(new[k]))
    <3> DEFINE s == own(k)
               t == own(new[k])
    <3>1. s = [n \in DOMAIN bs |-> s[n]] /\ t = [n \in DOMAIN bs |-> t[n]]
      OBVIOUS
    <3>2. \A n \in DOMAIN bs : Same(s[n], t[n])
      BY <2>2
    <3> HIDE DEF s, t, bs
    <3>3. SameContent(s, t)
      BY <1>3, <3>1, <3>2
    <3> QED BY <3>3 DEF s, t
  <2> HIDE DEF own
  <2>4. SameContent(Sift(own(k), kept), Sift(own(new[k]), kept))
    BY <2>3, SameSift
  <2>5. SameContent(<< Marker(k) >>, << Marker(new[k]) >>)
    BY <1>1, SameOne, SameMarkers
  <2> QED BY <2>1, <2>4, <2>5, SameJoin
<1>5. SameContent(EditAssistant(A, Live(A), k), EditAssistant(F, Live(F), new[k]))
  <2> DEFINE s == [n \in DOMAIN bs |-> EditedBlock(A, Live(A), k, n)]
             t == [n \in DOMAIN bs |-> EditedBlock(F, Live(F), new[k], n)]
  <2>1. /\ EditAssistant(A, Live(A), k) = Pruned(bs, gone, s, k)
        /\ EditAssistant(F, Live(F), new[k]) = Pruned(bs, gone, t, new[k])
    BY <1>1, PrunedIs
  <2>2. \A n \in DOMAIN bs : Same(s[n], t[n])
    <3>1. \A n \in DOMAIN bs : Same(EditedBlock(A, Live(A), k, n), EditedBlock(F, Live(F), new[k], n))
      BY SameEdited
    <3> HIDE DEF bs
    <3> QED BY <3>1
  <2>3. s = [n \in DOMAIN bs |-> s[n]] /\ t = [n \in DOMAIN bs |-> t[n]]
    OBVIOUS
  <2> HIDE DEF s, t, bs, gone
  <2>4. SameContent(s, t)
    BY <1>3, <2>2, <2>3
  <2> QED BY <1>1, <2>1, <2>4, SamePruned
<1> QED BY <1>1, <1>4, <1>5 DEF AssistantContent

\* His message and its copy go out the same.
LEMMA SameUser ==
    ASSUME NEW A, NEW F, NEW new, NEW far, Mirrors(A, F, new, far),
           NEW k \in DOMAIN new, IsUser(A[k])
    PROVE  SameContent(UserContent(A, Live(A), ElidedIn(A, Live(A)), k),
                       UserContent(F, Live(F), ElidedIn(F, Live(F)), new[k]))
<1> DEFINE j == new[k]
           e == EditAt(A, Live(A), k, 0)
           g == EditAt(F, Live(F), j, 0)
           x == FilesEditAt(A, Live(A), k)
           y == FilesEditAt(F, Live(F), j)
           said  == IF e = 0 THEN A[k].said ELSE A[e].text
           files == IF x = 0 THEN A[k].files ELSE A[x].files
           Words1(i) == IF said # "" \/ files = 0
                        THEN << [kind |-> "text", say |-> said, src |-> i] >> ELSE << >>
           c == UserContent(A, Live(A), ElidedIn(A, Live(A)), k)
           d == UserContent(F, Live(F), ElidedIn(F, Live(F)), j)
<1>1. Whole(A)
  BY DEF Mirrors
<1>2. k \in DOMAIN A /\ k \in Nat /\ j \in Nat /\ A[k] \in Entry
  BY MirrorPlaces
<1>3. F[j] = A[k]
  BY MirrorEvent DEF IsUser
<1>4. j \in ElidedIn(F, Live(F)) <=> k \in ElidedIn(A, Live(A))
  BY MirrorGone
<1>5. /\ (e = 0 <=> g = 0) /\ (e # 0 => F[g].text = A[e].text)
      /\ (x = 0 <=> y = 0) /\ (x # 0 => F[y].files = A[x].files)
  BY MirrorEdits
<1>6. /\ c = IF k \in ElidedIn(A, Live(A)) THEN << Marker(k) >> ELSE FileBlocks(files, k) \o Words1(k)
      /\ d = IF j \in ElidedIn(F, Live(F)) THEN << Marker(j) >> ELSE FileBlocks(files, j) \o Words1(j)
  <2>1. c = IF k \in ElidedIn(A, Live(A)) THEN << Marker(k) >> ELSE FileBlocks(files, k) \o Words1(k)
    BY DEF UserContent
  <2>2. /\ said = IF g = 0 THEN F[j].said ELSE F[g].text
        /\ files = IF y = 0 THEN F[j].files ELSE F[y].files
    BY <1>3, <1>5
  <2>3. d = IF j \in ElidedIn(F, Live(F)) THEN << Marker(j) >> ELSE FileBlocks(files, j) \o Words1(j)
    <3> DEFINE sf == IF g = 0 THEN F[j].said ELSE F[g].text
               ff == IF y = 0 THEN F[j].files ELSE F[y].files
    <3>1. d = IF j \in ElidedIn(F, Live(F)) THEN << Marker(j) >>
              ELSE FileBlocks(ff, j) \o (IF sf # "" \/ ff = 0
                        THEN << [kind |-> "text", say |-> sf, src |-> j] >> ELSE << >>)
      BY DEF UserContent
    <3>2. sf = said /\ ff = files
      BY <2>2
    <3> HIDE DEF sf, ff, said, files, d, j
    <3> QED BY <3>1, <3>2
  <2> QED BY <2>1, <2>3
<1>7. files \in Nat
  <2>1. A[k].files \in Nat
    BY <1>2, EntryFields
  <2>2. ASSUME x # 0
        PROVE  A[x].files \in Nat
    <3> DEFINE E == {i \in Live(A) : A[i].type = "edit" /\ A[i].target = k /\ A[i].files # KeepFiles}
    <3>1. Len(A) \in Nat /\ E \in SUBSET (1..Len(A)) /\ Live(A) \subseteq DOMAIN A
      BY <1>1, WholeLog
    <3>2. x = LastOf(E)
      BY DEF FilesEditAt
    <3> HIDE DEF E, x
    <3>3. x \in E
      BY <2>2, <3>1, <3>2, LastOfIs
    <3>4. x \in DOMAIN A /\ A[x].type = "edit" /\ A[x].files # KeepFiles
      BY <3>1, <3>3 DEF E
    <3>5. A[x] \in Entry
      BY <1>1, <3>4, WholeLog
    <3> QED BY <3>4, <3>5, EntryFields
  <2> QED BY <2>1, <2>2
<1>8. c \in Seq(WireBlock)
  BY <1>1, <1>2, UserIs
<1> HIDE DEF j, e, g, x, y, said, files, c, d
<1>9. CASE k \in ElidedIn(A, Live(A))
  <2>1. c = << Marker(k) >> /\ d = << Marker(j) >>
    BY <1>4, <1>6, <1>9
  <2>2. SameContent(c, d)
    BY <1>2, <2>1, SameOne, SameMarkers
  <2> QED BY <2>2 DEF c, d, j
<1>10. CASE k \notin ElidedIn(A, Live(A))
  <2>1. c = FileBlocks(files, k) \o Words1(k) /\ d = FileBlocks(files, j) \o Words1(j)
    BY <1>4, <1>6, <1>10
  <2>2. SameContent(FileBlocks(files, k), FileBlocks(files, j))
    <3> DEFINE s == FileBlocks(files, k)
               t == FileBlocks(files, j)
               a == [kind |-> "file", src |-> k]
               b == [kind |-> "file", src |-> j]
    <3>1. Same(a, b)
      BY <1>2, SameMarkers
    <3>2. a \in WireBlock /\ b \in WireBlock
      BY <3>1, SameIs
    <3>3. s = [f \in 1..files |-> a] /\ t = [f \in 1..files |-> b]
      BY DEF FileBlocks
    <3> HIDE DEF a, b, s, t
    <3> HIDE DEF Words1
    <3>4. s \in Seq(WireBlock) /\ Len(s) = files /\ \A f \in DOMAIN s : s[f] = a /\ f \in 1..files
      BY <1>7, <3>2, <3>3
    <3>6. t \in Seq(WireBlock) /\ Len(t) = files /\ \A f \in 1..files : t[f] = b
      BY <1>7, <3>2, <3>3
    <3>5. SameContent(s, t)
      BY <3>1, <3>4, <3>6 DEF SameContent
    <3> QED BY <3>5 DEF s, t
  <2>3. SameContent(Words1(k), Words1(j))
    <3>1. CASE said # "" \/ files = 0
      <4> DEFINE w == [kind |-> "text", say |-> said, src |-> k]
                 fs == FileBlocks(files, k)
      <4>1. Words1(k) = << w >> /\ Words1(j) = << [kind |-> "text", say |-> said, src |-> j] >>
        BY <3>1
      <4>2. fs = [f \in 1..files |-> [kind |-> "file", src |-> k]]
        BY DEF FileBlocks
      <4>3. [kind |-> "text", say |-> said, src |-> j] = [w EXCEPT !.src = j]
        OBVIOUS
      <4> HIDE DEF w, Words1
      <4>4. c = fs \o << w >>
        BY <2>1, <4>1
      <4>5. fs \in Seq({[kind |-> "file", src |-> k]}) /\ Len(fs) = files
        BY <1>7, <4>2
      <4> HIDE DEF fs
      <4>6. c[files + 1] = w /\ files + 1 \in DOMAIN c
        BY <1>7, <4>4, <4>5
      <4>7. w \in WireBlock
        BY <1>8, <4>6
      <4>8. Same(w, [w EXCEPT !.src = j])
        BY <1>2, <4>7 DEF Same
      <4> QED BY <4>1, <4>3, <4>8, SameOne
    <3>2. CASE ~(said # "" \/ files = 0)
      BY <3>2, SameEmpty
    <3> QED BY <3>1, <3>2
  <2> HIDE DEF Words1
  <2>4. SameContent(c, d)
    BY <2>1, <2>2, <2>3, SameJoin
  <2> QED BY <2>4 DEF c, d, j
<1> QED BY <1>9, <1>10

-----------------------------------------------------------------------------
(* The pass over a log and the pass over its copy.                         *)

SameMessages(ms, ws) ==
    /\ ms \in Seq(Message) /\ ws \in Seq(Message) /\ Len(ws) = Len(ms)
    /\ \A k \in 1..Len(ms) :
          ws[k].role = ms[k].role /\ SameContent(ms[k].content, ws[k].content)

SameState(st, sf) ==
    /\ st = [ms |-> st.ms, told |-> st.told, switch |-> 0]
    /\ sf = [ms |-> sf.ms, told |-> sf.told, switch |-> 0]
    /\ SameMessages(st.ms, sf.ms)

LEMMA SameMsg ==
    ASSUME NEW c, NEW d, SameContent(c, d), c # << >>, NEW role \in {"user", "assistant"}
    PROVE  /\ Msg(role, c) \in Message /\ Msg(role, d) \in Message
           /\ Msg(role, d).role = Msg(role, c).role
           /\ SameContent(Msg(role, c).content, Msg(role, d).content)
<1>1. c \in Seq(WireBlock) /\ d \in Seq(WireBlock) /\ d # << >>
  <2>1. c = << >> <=> d = << >>
    BY SamePlaces
  <2> QED BY <2>1 DEF SameContent
<1> QED BY <1>1, MsgIs

LEMMA SameConcat ==
    ASSUME NEW a, NEW b, SameMessages(a, b), NEW c, NEW d, SameMessages(c, d)
    PROVE  SameMessages(a \o c, b \o d)
<1> DEFINE Alike(m, w) == w.role = m.role /\ SameContent(m.content, w.content)
<1>1. /\ a \in Seq(Message) /\ b \in Seq(Message) /\ Len(b) = Len(a) /\ Len(a) \in Nat
      /\ \A k \in 1..Len(a) : Alike(a[k], b[k])
  BY DEF SameMessages
<1>2. /\ c \in Seq(Message) /\ d \in Seq(Message) /\ Len(d) = Len(c) /\ Len(c) \in Nat
      /\ \A k \in 1..Len(c) : Alike(c[k], d[k])
  BY DEF SameMessages
<1> HIDE DEF Alike
<1>3. /\ a \o c \in Seq(Message) /\ b \o d \in Seq(Message)
      /\ Len(a \o c) = Len(a) + Len(c) /\ Len(b \o d) = Len(a) + Len(c)
  <2>1. \A x, y \in Seq(Message) : x \o y \in Seq(Message) /\ Len(x \o y) = Len(x) + Len(y)
    OBVIOUS
  <2> QED BY <1>1, <1>2, <2>1
<1>4. ASSUME NEW k \in 1..(Len(a) + Len(c)) PROVE Alike((a \o c)[k], (b \o d)[k])
  <2>1. CASE k \in 1..Len(a)
    <3>1. (a \o c)[k] = a[k] /\ (b \o d)[k] = b[k]
      BY <1>1, <1>2, <2>1
    <3> QED BY <1>1, <2>1, <3>1
  <2>2. CASE k \notin 1..Len(a)
    <3>1. k - Len(a) \in 1..Len(c)
      BY <1>1, <1>2, <2>2
    <3>2. (a \o c)[k] = c[k - Len(a)] /\ (b \o d)[k] = d[k - Len(a)]
      BY <1>1, <1>2, <2>2
    <3> QED BY <1>2, <3>1, <3>2
  <2> QED BY <2>1, <2>2
<1>5. \A k \in 1..Len(a \o c) : Alike((a \o c)[k], (b \o d)[k])
  BY <1>3, <1>4
<1> QED BY <1>3, <1>5 DEF SameMessages, Alike

\* The same message put at the end of the same messages.
LEMMA SamePut ==
    ASSUME NEW ms, NEW ws, SameMessages(ms, ws), NEW m \in Message, NEW w \in Message,
           w.role = m.role, SameContent(m.content, w.content)
    PROVE  SameMessages(Append(ms, m), Append(ws, w))
<1>1. SameMessages(<< m >>, << w >>)
  BY DEF SameMessages
<1>2. SameMessages(ms \o << m >>, ws \o << w >>)
  BY <1>1, SameConcat
<1>3. ms \in Seq(Message) /\ ws \in Seq(Message)
  BY DEF SameMessages
<1>4. Append(ms, m) = ms \o << m >>
  BY <1>3, OneJoined
<1>5. Append(ws, w) = ws \o << w >>
  BY <1>3, OneJoined
<1> QED BY <1>2, <1>4, <1>5

\* The last message with the same block added to it.
LEMMA SameAdd ==
    ASSUME NEW ms, NEW ws, SameMessages(ms, ws), ms # << >>, NEW b, NEW d, Same(b, d)
    PROVE  SameMessages([ms EXCEPT ![Len(ms)].content = Append(@, b)],
                        [ws EXCEPT ![Len(ws)].content = Append(@, d)])
<1> DEFINE n == Len(ms)
           m == Msg(ms[n].role, Append(ms[n].content, b))
           w == Msg(ws[n].role, Append(ws[n].content, d))
           ps == [ms EXCEPT ![Len(ms)].content = Append(@, b)]
           qs == [ws EXCEPT ![Len(ws)].content = Append(@, d)]
<1>1. /\ ms \in Seq(Message) /\ ws \in Seq(Message) /\ Len(ws) = n /\ n \in Nat \ {0} /\ n \in 1..n
      /\ DOMAIN ms = 1..n /\ DOMAIN ws = 1..n
      /\ \A k \in 1..n :
            ws[k].role = ms[k].role /\ SameContent(ms[k].content, ws[k].content)
  BY DEF SameMessages
<1> HIDE DEF n
<1>2. ms[n] \in Message /\ ws[n] \in Message
  BY <1>1
<1>3. ms[n] = Msg(ms[n].role, ms[n].content) /\ ws[n] = Msg(ws[n].role, ws[n].content)
      /\ ms[n].role \in {"user", "assistant"} /\ ms[n].content # << >>
      /\ ms[n].content \in Seq(WireBlock)
  BY <1>2, MessageIs
<1>4. SameContent(Append(ms[n].content, b), Append(ws[n].content, d))
  BY <1>1, SameAppend
<1>5. Append(ms[n].content, b) # << >>
  <2>1. b \in WireBlock
    BY SameIs
  <2> QED BY <1>3, <2>1
<1>6. /\ m \in Message /\ w \in Message /\ w.role = m.role /\ SameContent(m.content, w.content)
  <2>1. ws[n].role = ms[n].role
    BY <1>1
  <2> DEFINE r == ms[n].role
             c == Append(ms[n].content, b)
             e == Append(ws[n].content, d)
  <2>2. r \in {"user", "assistant"} /\ SameContent(c, e) /\ c # << >>
    BY <1>3, <1>4, <1>5
  <2> HIDE DEF r, c, e
  <2>3. /\ Msg(r, c) \in Message /\ Msg(r, e) \in Message /\ Msg(r, e).role = Msg(r, c).role
        /\ SameContent(Msg(r, c).content, Msg(r, e).content)
    BY <2>2, SameMsg
  <2>4. m = Msg(r, c) /\ w = Msg(r, e)
    BY <2>1 DEF r, c, e
  <2> QED BY <2>3, <2>4
<1>7. ps = [k \in 1..n |-> IF k = n THEN m ELSE ms[k]] /\ qs = [k \in 1..n |-> IF k = n THEN w ELSE ws[k]]
  <2>1. [ms[n] EXCEPT !.content = Append(ms[n].content, b)] = m
    BY <1>2, Refilled
  <2>2. [ws[n] EXCEPT !.content = Append(ws[n].content, d)] = w
    BY <1>2, Refilled
  <2>3. ps = [ms EXCEPT ![n] = [ms[n] EXCEPT !.content = Append(ms[n].content, b)]]
    BY DEF n
  <2>4. qs = [ws EXCEPT ![n] = [ws[n] EXCEPT !.content = Append(ws[n].content, d)]]
    BY <1>1
  <2> HIDE DEF ps, qs, m, w
  <2>5. ps = [ms EXCEPT ![n] = m] /\ qs = [ws EXCEPT ![n] = w]
    BY <2>1, <2>2, <2>3, <2>4
  <2> QED BY <1>1, <2>5
<1> HIDE DEF m, w, ps, qs
<1>8. ps \in [1..n -> Message] /\ qs \in [1..n -> Message]
  BY <1>1, <1>6, <1>7
<1>9. ps \in Seq(Message) /\ qs \in Seq(Message) /\ Len(ps) = n /\ Len(qs) = n
  BY <1>1, <1>8
<1>10. \A k \in 1..n : /\ ps[k] = IF k = n THEN m ELSE ms[k]
                       /\ qs[k] = IF k = n THEN w ELSE ws[k]
  BY <1>7
<1>11. SameMessages(ps, qs)
  BY <1>1, <1>6, <1>9, <1>10 DEF SameMessages
<1> QED BY <1>11 DEF ps, qs

LEMMA SameRound ==
    ASSUME NEW ms, NEW ws, SameMessages(ms, ws)
    PROVE  /\ ms = << >> <=> ws = << >>
           /\ RoundIsOpen(ms) <=> RoundIsOpen(ws)
<1>1. /\ ms \in Seq(Message) /\ ws \in Seq(Message) /\ Len(ws) = Len(ms) /\ Len(ms) \in Nat
      /\ (ms = << >> <=> ws = << >>) /\ (ms # << >> => Len(ms) \in 1..Len(ms))
  BY DEF SameMessages
<1>2. CASE ms = << >>
  BY <1>1, <1>2 DEF RoundIsOpen
<1>3. CASE ms # << >>
  <2> DEFINE n == Len(ms)
             c == ms[n].content
             d == ws[n].content
  <2>1. ms[n] \in Message /\ ws[n].role = ms[n].role /\ SameContent(c, d)
    BY <1>1, <1>3 DEF SameMessages
  <2>2. Len(c) \in 1..Len(c)
    BY <2>1, MessageIs
  <2>3. Len(d) = Len(c)
    BY <2>1 DEF SameContent
  <2>4. d[Len(d)].kind = c[Len(c)].kind
    <3> HIDE DEF c, d
    <3> QED BY <2>1, <2>2, <2>3, SamePlaces
  <2>5. /\ RoundIsOpen(ms) <=> ms[n].role = "user" /\ c[Len(c)].kind = "tool_result"
        /\ RoundIsOpen(ws) <=> ws[n].role = "user" /\ d[Len(d)].kind = "tool_result"
    BY <1>1, <1>3 DEF RoundIsOpen, Last
  <2> HIDE DEF c, d, n
  <2> QED BY <1>1, <2>1, <2>4, <2>5
<1> QED BY <1>2, <1>3

\* A step of the pass that puts a message at the end.
LEMMA SamePush ==
    ASSUME NEW st, NEW sf, SameState(st, sf), NEW role \in {"user", "assistant"},
           NEW c, NEW d, SameContent(c, d), c # << >>
    PROVE  SameState([st EXCEPT !.ms = Append(@, Msg(role, c))],
                     [sf EXCEPT !.ms = Append(@, Msg(role, d))])
<1> DEFINE m == Append(st.ms, Msg(role, c))
           w == Append(sf.ms, Msg(role, d))
<1>1. SameMessages(m, w)
  BY SameMsg, SamePut DEF SameState
<1>2. /\ st = [ms |-> st.ms, told |-> st.told, switch |-> 0]
      /\ sf = [ms |-> sf.ms, told |-> sf.told, switch |-> 0]
  BY DEF SameState
<1> HIDE DEF m, w
<1>3. /\ [st EXCEPT !.ms = m] = [ms |-> m, told |-> st.told, switch |-> 0]
      /\ [sf EXCEPT !.ms = w] = [ms |-> w, told |-> sf.told, switch |-> 0]
  BY <1>2
<1>4. SameState([st EXCEPT !.ms = m], [sf EXCEPT !.ms = w])
  BY <1>1, <1>3 DEF SameState
<1> QED BY <1>4 DEF m, w

LEMMA SameUserStep ==
    ASSUME NEW A, NEW F, NEW new, NEW far, Mirrors(A, F, new, far),
           NEW k \in DOMAIN new, IsUser(A[k]), NEW st, NEW sf, SameState(st, sf)
    PROVE  SameState(UserStep(A, Live(A), ElidedIn(A, Live(A)), st, k),
                     UserStep(F, Live(F), ElidedIn(F, Live(F)), sf, new[k]))
<1> DEFINE c == UserContent(A, Live(A), ElidedIn(A, Live(A)), k)
           d == UserContent(F, Live(F), ElidedIn(F, Live(F)), new[k])
           m == Append(st.ms, Msg("user", c))
           w == Append(sf.ms, Msg("user", d))
<1>1. SameContent(c, d)
  BY SameUser
<1>2. c # << >>
  <2>1. Whole(A)
    BY DEF Mirrors
  <2>2. k \in DOMAIN A
    BY MirrorPlaces
  <2> QED BY <2>1, <2>2, UserIs
<1>3. c \in Seq(WireBlock) /\ d \in Seq(WireBlock)
  BY <1>1 DEF SameContent
<1>4. st.switch = 0 /\ sf.switch = 0
  BY DEF SameState
<1>5. /\ UserStep(A, Live(A), ElidedIn(A, Live(A)), st, k)
             = [ms |-> Append(st.ms, Msg("user", << >> \o c)), told |-> st.told, switch |-> 0]
      /\ UserStep(F, Live(F), ElidedIn(F, Live(F)), sf, new[k])
             = [ms |-> Append(sf.ms, Msg("user", << >> \o d)), told |-> sf.told, switch |-> 0]
  BY <1>4 DEF UserStep
<1> HIDE DEF c, d
<1>6. << >> \o c = c /\ << >> \o d = d
  BY <1>3
<1>7. SameMessages(m, w)
  BY <1>1, <1>2, SameMsg, SamePut DEF SameState
<1> HIDE DEF m, w
<1>8. SameState([ms |-> m, told |-> st.told, switch |-> 0], [ms |-> w, told |-> sf.told, switch |-> 0])
  BY <1>7 DEF SameState
<1> QED BY <1>5, <1>6, <1>8 DEF m, w

LEMMA SameAnswerStep ==
    ASSUME NEW A, NEW F, NEW new, NEW far, Mirrors(A, F, new, far),
           NEW k \in DOMAIN new, A[k].type = "tool_result", NEW st, NEW sf, SameState(st, sf),
           NEW removed
    PROVE  SameState(AnswerStep(A, ElidedIn(A, Live(A)), removed, st, k),
                     AnswerStep(F, ElidedIn(F, Live(F)), removed, sf, new[k]))
<1> DEFINE b == ResultBlock(A[k].id, IF k \in ElidedIn(A, Live(A)) THEN "marker" ELSE "kept", k)
           d == ResultBlock(F[new[k]].id,
                            IF new[k] \in ElidedIn(F, Live(F)) THEN "marker" ELSE "kept", new[k])
           sa == AnswerStep(A, ElidedIn(A, Live(A)), removed, st, k)
           sb == AnswerStep(F, ElidedIn(F, Live(F)), removed, sf, new[k])
<1>1. F[new[k]] = A[k] /\ (new[k] \in ElidedIn(F, Live(F)) <=> k \in ElidedIn(A, Live(A)))
  BY MirrorEvent, MirrorGone
<1>2. k \in Nat /\ new[k] \in Nat /\ A[k].id \in Nat \X Nat
  <2>1. A[k] \in Entry /\ k \in Nat /\ new[k] \in Nat
    BY MirrorPlaces
  <2> QED BY <2>1, EntryFields
<1>3. Same(b, d)
  <2>1. \A w \in {"kept", "marker", "repair"} :
            Same(ResultBlock(A[k].id, w, k), ResultBlock(A[k].id, w, new[k]))
    BY <1>2, SameMarkers
  <2> QED BY <1>1, <2>1
<1>4. /\ sa = IF A[k].id \in removed THEN st
              ELSE IF RoundIsOpen(st.ms)
              THEN [st EXCEPT !.ms[Len(st.ms)].content = Append(@, b)]
              ELSE [st EXCEPT !.ms = Append(@, Msg("user", << b >>))]
      /\ sb = IF A[k].id \in removed THEN sf
              ELSE IF RoundIsOpen(sf.ms)
              THEN [sf EXCEPT !.ms[Len(sf.ms)].content = Append(@, d)]
              ELSE [sf EXCEPT !.ms = Append(@, Msg("user", << d >>))]
  BY <1>1 DEF AnswerStep
<1> HIDE DEF b, d, sa, sb
<1>5. /\ st = [ms |-> st.ms, told |-> st.told, switch |-> 0]
      /\ sf = [ms |-> sf.ms, told |-> sf.told, switch |-> 0]
      /\ SameMessages(st.ms, sf.ms)
  BY DEF SameState
<1>6. RoundIsOpen(st.ms) <=> RoundIsOpen(sf.ms)
  BY <1>5, SameRound
<1>7. CASE A[k].id \in removed
  <2>1. SameState(sa, sb)
    BY <1>4, <1>7
  <2> QED BY <2>1 DEF sa, sb
<1>8. CASE A[k].id \notin removed /\ RoundIsOpen(st.ms)
  <2> DEFINE m == [st.ms EXCEPT ![Len(st.ms)].content = Append(@, b)]
             w == [sf.ms EXCEPT ![Len(sf.ms)].content = Append(@, d)]
  <2>1. st.ms # << >>
    BY <1>8 DEF RoundIsOpen
  <2>2. SameMessages(m, w)
    BY <1>3, <1>5, <2>1, SameAdd
  <2>3. /\ sa = [st EXCEPT !.ms = m] /\ sb = [sf EXCEPT !.ms = w]
    BY <1>4, <1>6, <1>8
  <2> HIDE DEF m, w
  <2>4. /\ sa = [ms |-> m, told |-> st.told, switch |-> 0]
        /\ sb = [ms |-> w, told |-> sf.told, switch |-> 0]
    BY <1>5, <2>3
  <2>5. SameState(sa, sb)
    BY <2>2, <2>4 DEF SameState
  <2> QED BY <2>5 DEF sa, sb
<1>9. CASE A[k].id \notin removed /\ ~RoundIsOpen(st.ms)
  <2>1. SameContent(<< b >>, << d >>) /\ << b >> # << >>
    BY <1>3, SameOne
  <2>2. /\ sa = [st EXCEPT !.ms = Append(@, Msg("user", << b >>))]
        /\ sb = [sf EXCEPT !.ms = Append(@, Msg("user", << d >>))]
    BY <1>4, <1>6, <1>9
  <2>3. SameState([st EXCEPT !.ms = Append(@, Msg("user", << b >>))],
                  [sf EXCEPT !.ms = Append(@, Msg("user", << d >>))])
    BY <2>1, SamePush
  <2> QED BY <2>2, <2>3 DEF sa, sb
<1> QED BY <1>7, <1>8, <1>9

\* A taken event does to the pass over the log what its copy does to the pass
\* over the copy.
LEMMA SameStep ==
    ASSUME NEW A, NEW F, NEW new, NEW far, Mirrors(A, F, new, far),
           NEW k \in DOMAIN new, NEW st, NEW sf, SameState(st, sf)
    PROVE  SameState(StepAt(A, Live(A), ElidedIn(A, Live(A)), RemovedCalls(A, Live(A)), st, k),
                     StepAt(F, Live(F), ElidedIn(F, Live(F)), RemovedCalls(F, Live(F)), sf, new[k]))
<1> DEFINE EA == ElidedIn(A, Live(A))
           EF == ElidedIn(F, Live(F))
           R == RemovedCalls(A, Live(A))
           j == new[k]
           sa == StepAt(A, Live(A), EA, R, st, k)
           sb == StepAt(F, Live(F), EF, R, sf, j)
           c == AssistantContent(A, Live(A), EA, k)
           d == AssistantContent(F, Live(F), EF, j)
<1>1. RemovedCalls(F, Live(F)) = R
  BY MirrorCalls
<1>2. F[j].type = A[k].type /\ (IsAssistant(A[k]) => F[j] = A[k]) /\ A[k].type # "kind"
  <2>1. F[j].type = A[k].type /\ (IsAssistant(A[k]) => F[j] = A[k])
    BY MirrorEvent, MirrorGone
  <2>2. k \in Live(A)
    BY MirrorPlaces
  <2> QED BY <2>1, <2>2 DEF Mirrors
<1>3. /\ IsUser(A[k]) => sa = UserStep(A, Live(A), EA, st, k)
      /\ IsAssistant(A[k]) /\ ~A[k].stand_in => sa = [st EXCEPT !.ms = Append(@, Msg("assistant", c))]
      /\ A[k].type = "tool_result" => sa = AnswerStep(A, EA, R, st, k)
      /\ A[k].type = "compaction" =>
            sa = [st EXCEPT !.ms = << Msg("user", << [kind |-> "summary", src |-> k] >>) >>]
      /\ A[k].type \notin {"kind", "user_message", "assistant_message",
                           "tool_result", "compaction"} => sa = st
      /\ IsAssistant(A[k]) /\ A[k].stand_in => sa = st
  BY StepIs
<1>4. /\ IsUser(F[j]) => sb = UserStep(F, Live(F), EF, sf, j)
      /\ IsAssistant(F[j]) /\ ~F[j].stand_in => sb = [sf EXCEPT !.ms = Append(@, Msg("assistant", d))]
      /\ F[j].type = "tool_result" => sb = AnswerStep(F, EF, R, sf, j)
      /\ F[j].type = "compaction" =>
            sb = [sf EXCEPT !.ms = << Msg("user", << [kind |-> "summary", src |-> j] >>) >>]
      /\ F[j].type \notin {"kind", "user_message", "assistant_message",
                           "tool_result", "compaction"} => sb = sf
      /\ IsAssistant(F[j]) /\ F[j].stand_in => sb = sf
  BY StepIs
<1>5. IsUser(A[k]) => SameState(UserStep(A, Live(A), EA, st, k), UserStep(F, Live(F), EF, sf, j))
  BY SameUserStep
<1>6. A[k].type = "tool_result" => SameState(AnswerStep(A, EA, R, st, k), AnswerStep(F, EF, R, sf, j))
  BY SameAnswerStep
<1>7. ASSUME IsAssistant(A[k])
      PROVE  SameState([st EXCEPT !.ms = Append(@, Msg("assistant", c))],
                       [sf EXCEPT !.ms = Append(@, Msg("assistant", d))])
  <2>1. SameContent(c, d)
    BY <1>7, SameReply
  <2>2. c # << >>
    <3>1. Whole(A)
      BY DEF Mirrors
    <3>3. k \in DOMAIN A
      BY MirrorPlaces
    <3>2. Carries(A, k, c)
      BY <1>7, <3>1, <3>3, ReplyCarries
    <3> QED BY <3>2 DEF Carries
  <2> QED BY <2>1, <2>2, SamePush
<1>8. SameState([st EXCEPT !.ms = << Msg("user", << [kind |-> "summary", src |-> k] >>) >>],
                [sf EXCEPT !.ms = << Msg("user", << [kind |-> "summary", src |-> j] >>) >>])
  <2> DEFINE x == Msg("user", << [kind |-> "summary", src |-> k] >>)
             y == Msg("user", << [kind |-> "summary", src |-> j] >>)
  <2>1. k \in Nat /\ j \in Nat
    BY MirrorPlaces
  <2>2. SameContent(<< [kind |-> "summary", src |-> k] >>, << [kind |-> "summary", src |-> j] >>)
    BY <2>1, SameOne, SameMarkers
  <2>3. x \in Message /\ y \in Message /\ y.role = x.role /\ SameContent(x.content, y.content)
    BY <2>2, SameMsg
  <2> HIDE DEF x, y
  <2>4. SameMessages(<< x >>, << y >>)
    BY <2>3 DEF SameMessages
  <2>5. /\ st = [ms |-> st.ms, told |-> st.told, switch |-> 0]
        /\ sf = [ms |-> sf.ms, told |-> sf.told, switch |-> 0]
    BY DEF SameState
  <2>6. /\ [st EXCEPT !.ms = << x >>] = [ms |-> << x >>, told |-> st.told, switch |-> 0]
        /\ [sf EXCEPT !.ms = << y >>] = [ms |-> << y >>, told |-> sf.told, switch |-> 0]
    BY <2>5
  <2>7. SameState([st EXCEPT !.ms = << x >>], [sf EXCEPT !.ms = << y >>])
    BY <2>4, <2>6 DEF SameState
  <2> QED BY <2>7 DEF x, y
<1> HIDE DEF sa, sb, c, d, EA, EF, R, j
<1>9. SameState(sa, sb)
  <2>1. CASE IsUser(A[k])
    BY <1>2, <1>3, <1>4, <1>5, <2>1 DEF IsUser
  <2>2. CASE IsAssistant(A[k]) /\ ~A[k].stand_in
    BY <1>2, <1>3, <1>4, <1>7, <2>2
  <2>3. CASE IsAssistant(A[k]) /\ A[k].stand_in
    BY <1>2, <1>3, <1>4, <2>3
  <2>4. CASE A[k].type = "tool_result"
    BY <1>2, <1>3, <1>4, <1>6, <2>4
  <2>5. CASE A[k].type = "compaction"
    BY <1>2, <1>3, <1>4, <1>8, <2>5
  <2>6. CASE A[k].type \notin {"user_message", "assistant_message", "tool_result", "compaction"}
    BY <1>2, <1>3, <1>4, <2>6
  <2> QED BY <2>1, <2>2, <2>3, <2>4, <2>5, <2>6 DEF IsUser, IsAssistant
<1> QED BY <1>1, <1>9 DEF sa, sb, EA, EF, R, j

\* The passes stay alike, the one over the log as far as the copy goes.
LEMMA SamePass ==
    ASSUME NEW A, NEW F, NEW new, NEW far, Mirrors(A, F, new, far)
    PROVE  SameMessages(ProjectRaw(A), ProjectRaw(F))
<1> DEFINE pa == PassOver(A)
           pf == PassOver(F)
           G == {i \in 0..Len(A) : SameState(pa[i], pf[far[i]])}
<1>1. /\ Len(A) \in Nat /\ DOMAIN A = 1..Len(A) /\ Len(F) \in Nat \ {0} /\ DOMAIN F = 1..Len(F)
      /\ Live(F) = 1..Len(F) /\ F[1].type = "session_created"
  BY MirrorPlaces DEF Mirrors
<1>2. /\ pa[0] = [ms |-> << >>, told |-> BornKind(A), switch |-> 0]
      /\ \A i \in 1..Len(A) :
            pa[i] = IF i \in Live(A)
                    THEN StepAt(A, Live(A), ElidedIn(A, Live(A)), RemovedCalls(A, Live(A)), pa[i - 1], i)
                    ELSE pa[i - 1]
  BY <1>1, PassSteps
<1>3. /\ pf[0] = [ms |-> << >>, told |-> BornKind(F), switch |-> 0]
      /\ \A i \in 1..Len(F) :
            pf[i] = StepAt(F, Live(F), ElidedIn(F, Live(F)), RemovedCalls(F, Live(F)), pf[i - 1], i)
  <2>1. /\ pf[0] = [ms |-> << >>, told |-> BornKind(F), switch |-> 0]
        /\ \A i \in 1..Len(F) :
              pf[i] = IF i \in Live(F)
                      THEN StepAt(F, Live(F), ElidedIn(F, Live(F)), RemovedCalls(F, Live(F)), pf[i - 1], i)
                      ELSE pf[i - 1]
    BY <1>1, PassSteps
  <2> HIDE DEF pf
  <2> QED BY <1>1, <2>1
<1>4. \A log, live, elided, removed, st, i :
          log[i].type \in {"session_created", "elide", "unelide"} =>
              StepAt(log, live, elided, removed, st, i) = st
  BY DEF StepAt, IsUser, IsAssistant
<1> HIDE DEF pa, pf
<1>5. pf[1] = pf[0]
  <2>1. 1 \in 1..Len(F) /\ 1 - 1 = 0
    BY <1>1
  <2> QED BY <1>1, <1>3, <1>4, <2>1
<1>6. 0 \in G
  <2>1. far[0] = 1
    BY DEF Mirrors
  <2>2. SameMessages(<< >>, << >>)
    BY DEF SameMessages
  <2>3. SameState(pa[0], pf[0])
    BY <1>2, <1>3, <2>2 DEF SameState
  <2> QED BY <1>1, <1>5, <2>1, <2>3
<1>7. ASSUME NEW n \in 0..(Len(A) - 1), n \in G
      PROVE  n + 1 \in G
  <2>1. n + 1 \in 1..Len(A) /\ (n + 1) - 1 = n /\ n + 1 \in 0..Len(A)
    BY <1>1
  <2>2. SameState(pa[n], pf[far[n]])
    BY <1>7
  <2>3. CASE n + 1 \in DOMAIN new
    <3>1. far[n + 1] = far[n] + 1 /\ new[n + 1] = far[n + 1] /\ far[n + 1] \in 1..Len(F)
          /\ far[n] \in 1..Len(F)
      <4>1. n \in 0..Len(A)
        BY <1>1
      <4> QED BY <2>1, <2>3, <4>1 DEF Mirrors
    <3>2. far[n + 1] - 1 = far[n]
      BY <3>1
    <3>3. n + 1 \in Live(A)
      BY <2>3 DEF Mirrors
    <3>4. SameState(StepAt(A, Live(A), ElidedIn(A, Live(A)), RemovedCalls(A, Live(A)), pa[n], n + 1),
                    StepAt(F, Live(F), ElidedIn(F, Live(F)), RemovedCalls(F, Live(F)),
                           pf[far[n]], new[n + 1]))
      BY <2>2, <2>3, SameStep
    <3>5. pa[n + 1] = StepAt(A, Live(A), ElidedIn(A, Live(A)), RemovedCalls(A, Live(A)), pa[n], n + 1)
      BY <1>2, <2>1, <3>3
    <3>6. pf[far[n + 1]] = StepAt(F, Live(F), ElidedIn(F, Live(F)), RemovedCalls(F, Live(F)),
                                  pf[far[n]], new[n + 1])
      BY <1>3, <3>1, <3>2
    <3> QED BY <2>1, <3>4, <3>5, <3>6
  <2>4. CASE n + 1 \notin DOMAIN new
    <3>1. far[n + 1] = far[n]
      BY <2>1, <2>4 DEF Mirrors
    <3>2. n + 1 \in Live(A) => A[n + 1].type \in {"session_created", "elide", "unelide"}
      BY <2>4 DEF Mirrors
    <3>3. pa[n + 1] = pa[n]
      BY <1>2, <1>4, <2>1, <3>2
    <3> QED BY <2>1, <2>2, <3>1, <3>3
  <2> QED BY <2>3, <2>4
<1>8. 0..Len(A) \subseteq G
  <2> HIDE DEF G
  <2> QED BY <1>1, <1>6, <1>7, UpTo
<1>9. SameState(pa[Len(A)], pf[Len(F)])
  <2>1. Len(A) \in 0..Len(A) /\ far[Len(A)] = Len(F)
    BY <1>1 DEF Mirrors
  <2> QED BY <1>8, <2>1
<1> QED BY <1>9 DEF SameState, ProjectRaw, pa, pf

-----------------------------------------------------------------------------
(* The repair of two lists that are the same, and what is left of them     *)
(* without the positions the blocks came from.                             *)

LEMMA SameAnswered ==
    ASSUME NEW ms, NEW ws, SameMessages(ms, ws), NEW k \in 1..Len(ms)
    PROVE  /\ ms[k] \in Message /\ ws[k] \in Message /\ ws[k].role = ms[k].role
           /\ SameContent(ms[k].content, ws[k].content)
           /\ ResultIds(ws[k]) = ResultIds(ms[k])
           /\ IsRound(ws[k]) <=> IsRound(ms[k])
<1> DEFINE c == ms[k].content
           d == ws[k].content
<1>1. ms[k] \in Message /\ ws[k] \in Message /\ ws[k].role = ms[k].role /\ SameContent(c, d)
  BY DEF SameMessages
<1>2. {n \in DOMAIN d : d[n].kind = "tool_result"} = {n \in DOMAIN c : c[n].kind = "tool_result"}
  <2> HIDE DEF c, d
  <2> QED BY <1>1, SamePlaces
<1>3. \A n \in DOMAIN c : c[n].kind = "tool_result" => d[n].id = c[n].id
  <2> HIDE DEF c, d
  <2> QED BY <1>1, SamePlaces
<1>4. ResultIds(ws[k]) = ResultIds(ms[k])
  BY <1>2, <1>3 DEF ResultIds
<1> QED BY <1>1, <1>4 DEF IsRound

\* The same calls are missing their results.
LEMMA SameMissing ==
    ASSUME NEW ms, NEW ws, SameMessages(ms, ws), NEW k \in 1..Len(ms)
    PROVE  /\ SameContent(Missing(ms, k), Missing(ws, k))
           /\ NoRound(ms, k) <=> NoRound(ws, k)
<1> DEFINE c == ms[k].content
           d == ws[k].content
           R == RoundIds(ms, k)
           keep == {n \in DOMAIN c : IsCall(c[n]) /\ c[n].id \notin R}
           s == Sift(c, keep)
           t == Sift(d, keep)
<1>1. /\ ws[k].role = ms[k].role /\ SameContent(c, d)
  BY SameAnswered
<1>2. /\ Len(ms) \in Nat /\ Len(ws) = Len(ms) /\ DOMAIN ms = 1..Len(ms) /\ DOMAIN ws = 1..Len(ms)
  BY DEF SameMessages
<1>3. k + 1 \in DOMAIN ms => /\ IsRound(ws[k + 1]) <=> IsRound(ms[k + 1])
                             /\ ResultIds(ws[k + 1]) = ResultIds(ms[k + 1])
  BY <1>2, SameAnswered
<1>4. /\ R = IF k + 1 \in DOMAIN ms /\ IsRound(ms[k + 1]) THEN ResultIds(ms[k + 1]) ELSE {}
      /\ R = IF k + 1 \in DOMAIN ws /\ IsRound(ws[k + 1]) THEN ResultIds(ws[k + 1]) ELSE {}
  BY <1>2, <1>3 DEF RoundIds
<1> HIDE DEF R
<1>5. keep = {n \in DOMAIN d : IsCall(d[n]) /\ d[n].id \notin R}
  <2> HIDE DEF c, d
  <2> QED BY <1>1, SamePlaces DEF IsCall
<1> DEFINE Repairs(v) == [n \in DOMAIN v |-> ResultBlock(v[n].id, "repair", 0)]
<1>6. /\ Missing(ms, k) = Repairs(IF ms[k].role # "assistant" THEN << >> ELSE s)
      /\ Missing(ws, k) = Repairs(IF ms[k].role # "assistant" THEN << >> ELSE t)
  <2>1. Missing(ms, k) = Repairs(IF ms[k].role # "assistant" THEN << >> ELSE s)
    BY <1>4 DEF Missing
  <2>2. Missing(ws, k) = Repairs(IF ws[k].role # "assistant" THEN << >>
                                 ELSE Sift(d, {n \in DOMAIN d : IsCall(d[n]) /\ d[n].id \notin R}))
    BY <1>4 DEF Missing
  <2> HIDE DEF Repairs, c
  <2> QED BY <1>1, <1>5, <2>1, <2>2
<1>7. SameContent(s, t) /\ \A n \in 1..Len(s) : IsCall(s[n])
  <2>1. \A n \in keep : n \in DOMAIN c /\ IsCall(c[n])
    OBVIOUS
  <2> HIDE DEF c, d, keep
  <2>2. c \in Seq(WireBlock)
    BY <1>1 DEF SameContent
  <2>3. PICK p \in [1..Len(s) -> keep \cap DOMAIN c] : \A n \in 1..Len(s) : s[n] = c[p[n]]
    BY <2>2, SiftIs
  <2> HIDE DEF s, t
  <2>4. \A n \in 1..Len(s) : p[n] \in keep
    BY <2>3
  <2>5. \A n \in 1..Len(s) : IsCall(s[n])
    BY <2>1, <2>3, <2>4
  <2>6. SameContent(s, t)
    BY <1>1, SameSift DEF s, t
  <2> QED BY <2>5, <2>6
<1> HIDE DEF c, d, keep, s, t
<1>8. /\ DOMAIN s = 1..Len(s) /\ DOMAIN t = 1..Len(s) /\ Len(s) \in Nat
      /\ \A n \in 1..Len(s) : t[n].id = s[n].id /\ s[n].id \in Nat \X Nat
  <2>1. \A b \in WireBlock : IsCall(b) => b.id \in Nat \X Nat
    BY DEF WireBlock, IsCall
  <2>2. /\ DOMAIN s = 1..Len(s) /\ DOMAIN t = 1..Len(s) /\ Len(s) \in Nat
        /\ \A n \in 1..Len(s) : s[n] \in WireBlock /\ (s[n].kind = "tool_use" => t[n].id = s[n].id)
    BY <1>7, SamePlaces
  <2> QED BY <1>7, <2>1, <2>2 DEF IsCall
<1> DEFINE x == [n \in 1..Len(s) |-> ResultBlock(s[n].id, "repair", 0)]
<1>9. SameContent(x, x)
  <2>1. \A n \in 1..Len(s) : Same(x[n], x[n])
    BY <1>8, SameMarkers
  <2>2. \A n \in 1..Len(s) : x[n] \in WireBlock
    BY <2>1 DEF Same
  <2>3. DOMAIN x = 1..Len(s) /\ x = [n \in 1..Len(s) |-> x[n]]
    OBVIOUS
  <2> HIDE DEF x
  <2>4. x \in Seq(WireBlock)
    BY <1>8, <2>2, <2>3
  <2> QED BY <2>1, <2>3, <2>4 DEF SameContent
<1>10. SameContent(Missing(ms, k), Missing(ws, k))
  <2>1. CASE ms[k].role = "assistant"
    <3>1. Repairs(s) = x /\ Repairs(t) = x
      BY <1>8
    <3> HIDE DEF x, Repairs
    <3> QED BY <1>6, <1>9, <2>1, <3>1
  <2>2. CASE ms[k].role # "assistant"
    <3>1. Repairs(<< >>) = << >>
      OBVIOUS
    <3> HIDE DEF Repairs
    <3> QED BY <1>6, <2>2, <3>1, SameEmpty
  <2> QED BY <2>1, <2>2
<1>11. Missing(ms, k) = << >> <=> Missing(ws, k) = << >>
  BY <1>10, SamePlaces
<1> QED BY <1>2, <1>3, <1>10, <1>11 DEF NoRound

LEMMA SameRepaired ==
    ASSUME NEW ms, NEW ws, SameMessages(ms, ws), NEW k \in 1..Len(ms)
    PROVE  SameMessages(Repaired(ms, k), Repaired(ws, k))
<1> DEFINE m == WithRepairs(ms, k)
           w == WithRepairs(ws, k)
           a == Missing(ms, k)
           b == Missing(ws, k)
<1>1. /\ ms[k] \in Message /\ ws[k] \in Message /\ ws[k].role = ms[k].role
      /\ SameContent(ms[k].content, ws[k].content)
      /\ IsRound(ws[k]) <=> IsRound(ms[k])
  BY SameAnswered
<1>2. SameContent(a, b) /\ (NoRound(ms, k) <=> NoRound(ws, k)) /\ (NoRound(ms, k) => a # << >>)
  BY SameMissing DEF NoRound
<1>3. /\ m \in Message /\ w \in Message /\ w.role = m.role /\ SameContent(m.content, w.content)
  <2>1. CASE ~(k > 1 /\ IsRound(ms[k]))
    BY <1>1, <2>1 DEF WithRepairs
  <2>2. CASE k > 1 /\ IsRound(ms[k])
    <3> DEFINE old == ms[k].content
               copy == ws[k].content
               x == Missing(ms, k - 1)
               y == Missing(ws, k - 1)
    <3>1. k - 1 \in 1..Len(ms)
      BY <2>2 DEF SameMessages
    <3>2. SameContent(x, y)
      BY <3>1, SameMissing
    <3> DEFINE r == ms[k].role
    <3>3. r \in {"user", "assistant"} /\ old # << >> /\ old \in Seq(WireBlock)
      BY <1>1, MessageIs
    <3>4. m = [ms[k] EXCEPT !.content = old \o x] /\ w = [ws[k] EXCEPT !.content = copy \o y]
      BY <1>1, <2>2 DEF WithRepairs
    <3>5. SameContent(old, copy) /\ x \in Seq(WireBlock)
      BY <1>1, <3>2 DEF SameContent
    <3>6. m = Msg(r, old \o x) /\ w = Msg(ws[k].role, copy \o y)
      BY <1>1, <3>4, Refilled
    <3>12. m = Msg(r, old \o x) /\ w = Msg(r, copy \o y)
      BY <1>1, <3>6
    <3> HIDE DEF r, old, copy, x, y, m, w
    <3>9. SameContent(old \o x, copy \o y)
      BY <3>2, <3>5, SameJoin
    <3>10. old \o x # << >>
      BY <3>3, <3>5
    <3> DEFINE c == old \o x
               d == copy \o y
    <3> HIDE DEF c, d
    <3>13. /\ Msg(r, c) \in Message /\ Msg(r, d) \in Message /\ Msg(r, d).role = Msg(r, c).role
           /\ SameContent(Msg(r, c).content, Msg(r, d).content)
      BY <3>3, <3>9, <3>10, SameMsg DEF c, d
    <3> QED BY <3>12, <3>13 DEF c, d
  <2> QED BY <2>1, <2>2
<1> HIDE DEF m, w
<1>4. SameMessages(<< m >>, << w >>)
  BY <1>3 DEF SameMessages
<1>5. CASE ~NoRound(ms, k)
  <2>1. Repaired(ms, k) = << m >> /\ Repaired(ws, k) = << w >>
    BY <1>2, <1>5 DEF Repaired, m, w
  <2> QED BY <1>4, <2>1
<1>6. CASE NoRound(ms, k)
  <2> DEFINE u == Msg("user", a)
             v == Msg("user", b)
  <2>1. /\ u \in Message /\ v \in Message /\ v.role = u.role /\ SameContent(u.content, v.content)
    BY <1>2, <1>6, SameMsg
  <2>2. Repaired(ms, k) = << m, u >> /\ Repaired(ws, k) = << w, v >>
    BY <1>2, <1>6 DEF Repaired, m, w
  <2> HIDE DEF u, v
  <2>3. SameMessages(<< m, u >>, << w, v >>)
    BY <1>3, <2>1 DEF SameMessages
  <2> QED BY <2>2, <2>3
<1> QED BY <1>5, <1>6

LEMMA SameAnswers ==
    ASSUME NEW ms, NEW ws, SameMessages(ms, ws)
    PROVE  SameMessages(AnswerOrphanedCalls(ms), AnswerOrphanedCalls(ws))
<1> DEFINE ss == [k \in DOMAIN ms |-> Repaired(ms, k)]
           ts == [k \in DOMAIN ws |-> Repaired(ws, k)]
<1>1. AnswerOrphanedCalls(ms) = FlattenSeq(ss) /\ AnswerOrphanedCalls(ws) = FlattenSeq(ts)
  BY DEF AnswerOrphanedCalls, Repaired
<1>2. DOMAIN ms = 1..Len(ms) /\ DOMAIN ws = 1..Len(ms) /\ Len(ms) \in Nat
  BY DEF SameMessages
<1>3. ASSUME NEW k \in 1..Len(ms)
      PROVE  /\ SameMessages(Repaired(ms, k), Repaired(ws, k))
             /\ Repaired(ms, k) \in Seq(Message) /\ Repaired(ws, k) \in Seq(Message)
  BY SameRepaired DEF SameMessages
<1>4. /\ ss \in Seq(Seq(Message)) /\ Len(ss) = Len(ms) /\ \A k \in 1..Len(ms) : ss[k] = Repaired(ms, k)
      /\ ts \in Seq(Seq(Message)) /\ Len(ts) = Len(ms) /\ \A k \in 1..Len(ms) : ts[k] = Repaired(ws, k)
  BY <1>2, <1>3
<1> HIDE DEF ss, ts
<1>5. PICK f : /\ f[0] = << >>
               /\ \A n \in 1..Len(ss) : f[n] = f[n - 1] \o ss[n]
               /\ FlattenSeq(ss) = f[Len(ss)]
  BY <1>4, FlattenSteps
<1>6. PICK g : /\ g[0] = << >>
               /\ \A n \in 1..Len(ts) : g[n] = g[n - 1] \o ts[n]
               /\ FlattenSeq(ts) = g[Len(ts)]
  BY <1>4, FlattenSteps
<1> DEFINE G == {n \in 0..Len(ms) : SameMessages(f[n], g[n])}
<1>7. 0 \in G
  <2>1. SameMessages(<< >>, << >>)
    BY DEF SameMessages
  <2> QED BY <1>2, <1>5, <1>6, <2>1
<1>8. ASSUME NEW n \in 0..(Len(ms) - 1), n \in G
      PROVE  n + 1 \in G
  <2>1. n + 1 \in 1..Len(ms) /\ (n + 1) - 1 = n /\ n + 1 \in 0..Len(ms)
    BY <1>2
  <2>2. SameMessages(f[n], g[n])
    BY <1>8
  <2>3. f[n + 1] = f[n] \o Repaired(ms, n + 1) /\ g[n + 1] = g[n] \o Repaired(ws, n + 1)
    BY <1>4, <1>5, <1>6, <2>1
  <2>4. SameMessages(f[n + 1], g[n + 1])
    BY <1>3, <2>1, <2>2, <2>3, SameConcat
  <2> QED BY <2>1, <2>4
<1>9. 0..Len(ms) \subseteq G
  <2> HIDE DEF G
  <2> QED BY <1>2, <1>7, <1>8, UpTo
<1>10. SameMessages(f[Len(ms)], g[Len(ms)])
  BY <1>2, <1>9
<1> QED BY <1>1, <1>4, <1>5, <1>6, <1>10

LEMMA SameUnsourced ==
    ASSUME NEW ms, NEW ws, SameMessages(ms, ws)
    PROVE  Unsourced(ms) = Unsourced(ws)
<1> DEFINE Bare(c) == [n \in DOMAIN c |-> [c[n] EXCEPT !.src = 0]]
<1>1. DOMAIN ms = 1..Len(ms) /\ DOMAIN ws = 1..Len(ms)
  BY DEF SameMessages
<1>2. ASSUME NEW k \in 1..Len(ms)
      PROVE  [ms[k] EXCEPT !.content = Bare(ms[k].content)] = [ws[k] EXCEPT !.content = Bare(ws[k].content)]
  <2> DEFINE c == ms[k].content
             d == ws[k].content
  <2>1. /\ ms[k] \in Message /\ ws[k] \in Message /\ ws[k].role = ms[k].role
        /\ SameContent(c, d)
    BY SameAnswered
  <2>2. Bare(c) = Bare(d)
    <3> HIDE DEF c, d
    <3>1. DOMAIN c = 1..Len(c) /\ DOMAIN d = 1..Len(c)
      BY <2>1, SamePlaces
    <3>2. \A n \in 1..Len(c) : Same(c[n], d[n])
      BY <2>1, <3>1 DEF SameContent
    <3>3. \A n \in 1..Len(c) : [d[n] EXCEPT !.src = 0] = [c[n] EXCEPT !.src = 0]
      BY <3>2, SameIs
    <3> QED BY <3>1, <3>3
  <2> HIDE DEF Bare
  <2>3. [ms[k] EXCEPT !.content = Bare(c)] = Msg(ms[k].role, Bare(c))
    BY <2>1, Refilled
  <2>4. [ws[k] EXCEPT !.content = Bare(d)] = Msg(ws[k].role, Bare(d))
    BY <2>1, Refilled
  <2> QED BY <2>1, <2>2, <2>3, <2>4
<1>3. /\ Unsourced(ms) = [k \in 1..Len(ms) |-> [ms[k] EXCEPT !.content = Bare(ms[k].content)]]
      /\ Unsourced(ws) = [k \in 1..Len(ms) |-> [ws[k] EXCEPT !.content = Bare(ws[k].content)]]
  BY <1>1 DEF Unsourced
<1> HIDE DEF Bare
<1> QED BY <1>2, <1>3

-----------------------------------------------------------------------------
(* The fork at a turn mirrors the log rewound to that turn.                *)

\* A rewind to a live turn leaves what was live before it.
LEMMA CutIs ==
    ASSUME NEW log, Whole(log), NEW u, CanCut(log, u)
    PROVE  LET R == Append(log, RewindTo(u)) IN
           /\ Whole(R) /\ Len(R) = Len(log) + 1
           /\ \A k \in DOMAIN log : R[k] = log[k]
           /\ Live(R) = {i \in Live(log) : i < u}
<1> DEFINE e == RewindTo(u)
           R == Append(log, e)
           n == Len(log)
<1>1. /\ n \in Nat \ {0} /\ DOMAIN log = 1..n /\ Live(log) \subseteq 1..n
      /\ u \in 1..n /\ IsUser(log[u])
  BY WholeLog DEF CanCut
<1>2. e \in Entry /\ e.type = "rewind" /\ e.to = u
  <2>1. e \in [type : {"rewind"}, to : Nat] /\ e.type = "rewind" /\ e.to = u
    BY <1>1 DEF RewindTo
  <2>2. [type : {"rewind"}, to : Nat] \subseteq Entry
    BY DEF Entry, Event
  <2> QED BY <2>1, <2>2
<1> HIDE DEF e
<1>3. /\ Len(R) = n + 1 /\ DOMAIN R = 1..(n + 1) /\ R[n + 1] = e
      /\ \A k \in 1..n : R[k] = log[k]
  BY <1>1, <1>2, AppendIs
<1>4. Whole(R)
  <2>1. PointsBack(R, n + 1)
    <3>1. R[u] = log[u] /\ u \in 1..((n + 1) - 1)
      BY <1>1, <1>3
    <3> HIDE DEF R
    <3> QED BY <1>1, <1>2, <1>3, <3>1 DEF PointsBack, TargetsOf
  <2>2. Fits(R, n + 1)
    <3> HIDE DEF R
    <3> QED BY <1>2, <1>3 DEF Fits, IsUser, IsAssistant
  <2> QED BY <1>2, <2>1, <2>2, WholeAppend
<1> HIDE DEF R, n
<1>5. \A i \in 1..(n + 1) : i \in 1..n \/ i = n + 1
  BY <1>1
<1>6. \A i \in 1..n : i \in 1..(n + 1) /\ i # n + 1 /\ i < n + 1 /\ i \in Nat
  BY <1>1
<1>7. Lifted(R) = Lifted(log)
  BY <1>1, <1>2, <1>3, <1>5, <1>6 DEF Lifted
<1>8. n + 1 \notin Lifted(log)
  <2>1. \A i \in 1..n : log[i].type = "unrewind" => log[i].of \in 1..(i - 1)
    BY <1>1 DEF Whole, PointsBack
  <2>2. \A i \in 1..n : log[i].type = "unrewind" => log[i].of # n + 1
    BY <1>1, <2>1
  <2> QED BY <1>1, <2>2 DEF Lifted
<1>9. Standing(R) = Standing(log) \cup {n + 1}
  <2>1. n + 1 \in 1..(n + 1)
    BY <1>1
  <2> QED BY <1>1, <1>2, <1>3, <1>5, <1>6, <1>7, <1>8, <2>1 DEF Standing
<1>10. \A r \in Standing(log) : r \in 1..n
  BY <1>1 DEF Standing
<1>11. \A i \in 1..n : i \in Live(R) <=> i \in Live(log) /\ i < u
  <2>1. \A i \in 1..n : i < u <=> ~(u <= i)
    BY <1>1
  <2> QED BY <1>1, <1>2, <1>3, <1>6, <1>9, <1>10, <2>1 DEF Live
<1>12. n + 1 \notin Live(R)
  BY <1>2, <1>3 DEF Live
<1>13. Live(R) \subseteq 1..(n + 1)
  BY <1>3 DEF Live
<1>14. Live(R) = {i \in Live(log) : i < u}
  BY <1>1, <1>5, <1>11, <1>12, <1>13
<1> QED BY <1>1, <1>3, <1>4, <1>14 DEF R, n, e

\* The copy grows, and each taken event keeps the place it was given.
LEMMA CopyGrows ==
    ASSUME NEW log, Whole(log), Closed(log), NEW u \in DOMAIN log
    PROVE  LET copy == Copying(log, u) IN
           /\ \A i \in 0..(u - 1) : Len(copy[i].log) <= Len(copy[u - 1].log)
           /\ \A k \in DOMAIN copy[u - 1].new : copy[u - 1].new[k] = Len(copy[k].log)
<1> DEFINE copy == Copying(log, u)
           Grown(n) == /\ \A i \in 0..n : Len(copy[i].log) <= Len(copy[n].log)
                       /\ \A k \in DOMAIN copy[n].new : copy[n].new[k] = Len(copy[k].log)
           G == {n \in 0..(u - 1) : Grown(n)}
<1>1. u \in Nat \ {0} /\ u - 1 \in Nat
  BY WholeLog
<1>2. /\ \A i \in 0..(u - 1) : CopyOk(log, copy[i], i)
      /\ \A i \in 1..(u - 1) :
            IF Taken(log, i)
            THEN /\ Len(copy[i].log) = Len(copy[i - 1].log) + 1
                 /\ copy[i].new[i] = Len(copy[i].log)
                 /\ \A k : k \in DOMAIN copy[i - 1].new => copy[i].new[k] = copy[i - 1].new[k]
            ELSE copy[i] = copy[i - 1]
  BY CopyIs
<1> HIDE DEF copy
<1>3. \A i \in 0..(u - 1) : /\ Len(copy[i].log) \in Nat
                            /\ DOMAIN copy[i].new = {k \in 1..i : Taken(log, k)}
  BY <1>2 DEF CopyOk
<1>4. 0 \in G
  <2>1. 0 \in 0..(u - 1) /\ \A i \in 0..0 : i = 0
    BY <1>1
  <2>2. DOMAIN copy[0].new = {}
    BY <1>3, <2>1
  <2>3. Len(copy[0].log) <= Len(copy[0].log)
    BY <1>3, <2>1
  <2> QED BY <2>1, <2>2, <2>3
<1>5. ASSUME NEW n \in 0..((u - 1) - 1), n \in G
      PROVE  n + 1 \in G
  <2>1. /\ n + 1 \in 1..(u - 1) /\ (n + 1) - 1 = n /\ n + 1 \in 0..(u - 1) /\ n \in 0..(u - 1)
        /\ \A i \in 0..(n + 1) : i \in 0..n \/ i = n + 1
        /\ \A i \in 0..n : i \in 0..(u - 1)
        /\ \A i \in 1..(n + 1) : i \in 1..n \/ i = n + 1
        /\ \A i \in 1..n : i \in 0..(u - 1) /\ i # n + 1
    BY <1>1
  <2>2. Grown(n)
    BY <1>5
  <2>3. IF Taken(log, n + 1)
        THEN /\ Len(copy[n + 1].log) = Len(copy[n].log) + 1
             /\ copy[n + 1].new[n + 1] = Len(copy[n + 1].log)
             /\ \A k : k \in DOMAIN copy[n].new => copy[n + 1].new[k] = copy[n].new[k]
        ELSE copy[n + 1] = copy[n]
    BY <1>2, <2>1
  <2>4. Len(copy[n].log) \in Nat /\ Len(copy[n + 1].log) \in Nat /\ Len(copy[n].log) <= Len(copy[n + 1].log)
    <3>1. Len(copy[n].log) \in Nat /\ Len(copy[n + 1].log) \in Nat
      BY <1>3, <2>1
    <3> QED BY <2>3, <3>1
  <2>5. \A i \in 0..(n + 1) : Len(copy[i].log) <= Len(copy[n + 1].log)
    <3> DEFINE L(i) == Len(copy[i].log)
    <3>1. (\A i \in 0..n : L(i) <= L(n) /\ L(i) \in Nat) /\ L(n) <= L(n + 1) /\ L(n) \in Nat /\ L(n + 1) \in Nat
      BY <1>3, <2>1, <2>2, <2>4
    <3>2. \A i \in 0..(n + 1) : i \in 0..n \/ i = n + 1
      BY <2>1
    <3> HIDE DEF L
    <3>3. \A i \in 0..(n + 1) : L(i) <= L(n + 1)
      BY <3>1, <3>2
    <3> QED BY <3>3 DEF L
  <2>6. \A k \in DOMAIN copy[n + 1].new : copy[n + 1].new[k] = Len(copy[k].log)
    <3>1. DOMAIN copy[n].new = {k \in 1..n : Taken(log, k)}
      BY <1>3, <2>1
    <3>2. DOMAIN copy[n + 1].new = {k \in 1..(n + 1) : Taken(log, k)}
      BY <1>3, <2>1
    <3> QED BY <2>1, <2>2, <2>3, <3>1, <3>2
  <2> QED BY <2>1, <2>5, <2>6
<1>6. 0..(u - 1) \subseteq G
  <2> HIDE DEF G
  <2> QED BY <1>1, <1>4, <1>5, UpTo
<1>7. Grown(u - 1)
  BY <1>1, <1>6
<1> QED BY <1>7 DEF copy

LEMMA ForkMirrors ==
    ASSUME NEW log, Whole(log), Closed(log), \A k \in Live(log) : log[k].type # "kind",
           NEW u, CanCut(log, u)
    PROVE  \E new, far : Mirrors(Append(log, RewindTo(u)), Fork(log, u), new, far)
<1> DEFINE R == Append(log, RewindTo(u))
           copy == Copying(log, u)
           c == copy[u - 1]
           F == c.log
           new == c.new
           far == [i \in 0..Len(R) |-> IF i < u THEN Len(copy[i].log) ELSE Len(F)]
<1>1. /\ Len(log) \in Nat /\ DOMAIN log = 1..Len(log) /\ u \in DOMAIN log /\ u \in 1..Len(log)
      /\ \A i \in DOMAIN log : log[i] \in Entry
  BY WholeLog DEF CanCut
<1>2. /\ Whole(R) /\ Len(R) = Len(log) + 1
      /\ \A k \in DOMAIN log : R[k] = log[k]
      /\ Live(R) = {i \in Live(log) : i < u}
  BY CutIs
<1>3. u \in Nat \ {0} /\ u - 1 \in 0..(u - 1) /\ 0 < u /\ ~(Len(R) < u) /\ Len(R) \in Nat
  BY <1>1, <1>2
<1>4. /\ \A i \in 0..(u - 1) : CopyOk(log, copy[i], i)
      /\ copy[0].log = << Created(Kind(log)) >>
      /\ \A i \in 1..(u - 1) :
            IF Taken(log, i) THEN Len(copy[i].log) = Len(copy[i - 1].log) + 1
            ELSE copy[i] = copy[i - 1]
  BY <1>1, CopyIs
<1>5. /\ \A i \in 0..(u - 1) : Len(copy[i].log) <= Len(copy[u - 1].log)
      /\ \A k \in DOMAIN copy[u - 1].new : copy[u - 1].new[k] = Len(copy[k].log)
  BY <1>1, CopyGrows
<1>6. Fork(log, u) = F
  BY DEF Fork
<1> HIDE DEF R, copy
<1>7. CopyOk(log, c, u - 1)
  BY <1>3, <1>4
<1>8. \A i \in 0..(u - 1) : Len(copy[i].log) \in 1..Len(F)
  <2>1. \A i \in 0..(u - 1) : Len(copy[i].log) \in Nat \ {0}
    BY <1>4 DEF CopyOk
  <2> QED BY <1>3, <1>5, <2>1
<1>9. \A k \in DOMAIN new : new[k] = Len(copy[k].log)
  BY <1>5
<1> HIDE DEF c
<1>10. /\ Len(F) \in Nat \ {0} /\ DOMAIN F = 1..Len(F) /\ F[1] = Created(Kind(log))
       /\ DOMAIN new = {k \in 1..(u - 1) : Taken(log, k)}
       /\ \A k \in DOMAIN new : /\ new[k] \in 2..Len(F) /\ F[new[k]] = ReAim(log[k], new)
                                /\ \A j \in DOMAIN new : j < k => new[j] < new[k]
       /\ \A p \in 2..Len(F) : \E k \in DOMAIN new : new[k] = p
  BY <1>7 DEF CopyOk
<1> HIDE DEF F, new
<1>11. \A k \in DOMAIN new : k \in Live(log) /\ k \in DOMAIN log /\ k < u /\ k \in Live(R) /\ R[k] = log[k]
  <2>1. \A k \in DOMAIN new : k \in Live(log) /\ k \in 1..(u - 1)
    BY <1>10 DEF Taken
  <2> QED BY <1>1, <1>2, <2>1
<1>12. ASSUME NEW k \in Live(R)
       PROVE  /\ R[k].type # "kind"
              /\ k \notin DOMAIN new =>
                    \/ R[k].type = "session_created"
                    \/ R[k].type \in {"elide", "unelide"} /\ R[k].targets = {}
  <2>1. k \in Live(log) /\ k \in DOMAIN log /\ k \in 1..(u - 1) /\ R[k] = log[k]
    BY <1>1, <1>2, WholeLog
  <2> QED BY <1>10, <2>1 DEF Taken
<1>13. Live(F) = DOMAIN F /\ F[1].type = "session_created"
  <2>1. F[1].type = "session_created"
    BY <1>10 DEF Created
  <2>2. ASSUME NEW p \in DOMAIN F
        PROVE  F[p].type \notin {"rewind", "unrewind"}
    <3>1. CASE p = 1
      BY <2>1, <3>1
    <3>2. CASE p # 1
      <4>1. p \in 2..Len(F)
        BY <1>10, <3>2
      <4>2. PICK k \in DOMAIN new : new[k] = p
        BY <1>10, <4>1
      <4>3. log[k] \in Entry /\ k \in Live(log) /\ F[p] = ReAim(log[k], new)
        BY <1>1, <1>10, <1>11, <4>2
      <4>4. F[p].type = log[k].type
        BY <4>3, ReAimIs
      <4> QED BY <4>3, <4>4 DEF Live
    <3> QED BY <3>1, <3>2
  <2>3. Standing(F) = {}
    BY <2>2 DEF Standing
  <2> QED BY <2>1, <2>2, <2>3 DEF Live
<1>14. ASSUME NEW k \in DOMAIN new
       PROVE  /\ new[k] \in 2..Len(F) /\ F[new[k]] = ReAim(R[k], new)
              /\ TargetsOf(R[k]) \subseteq DOMAIN new
              /\ \A j \in DOMAIN new : j < k => new[j] < new[k]
  <2>1. \A t \in TargetsOf(log[k]) : Taken(log, t) /\ t \in 1..(k - 1)
    BY <1>11, TakenNames
  <2>2. k \in 1..(u - 1)
    BY <1>10
  <2>3. TargetsOf(log[k]) \subseteq DOMAIN new
    BY <1>3, <1>10, <2>1, <2>2
  <2> QED BY <1>10, <1>11, <2>3
<1>15. \A i \in 0..Len(R) : far[i] = IF i < u THEN Len(copy[i].log) ELSE Len(F)
  OBVIOUS
<1> HIDE DEF far
<1>16. /\ \A i \in 0..Len(R) : far[i] \in 1..Len(F)
       /\ far[0] = 1 /\ far[Len(R)] = Len(F)
  <2>1. \A i \in 0..Len(R) : i < u => i \in 0..(u - 1)
    BY <1>3
  <2>2. Len(copy[0].log) = 1
    BY <1>4
  <2>3. 0 \in 0..Len(R) /\ Len(R) \in 0..Len(R)
    BY <1>3
  <2>4. Len(F) \in 1..Len(F)
    BY <1>10
  <2> QED BY <1>3, <1>8, <1>15, <2>1, <2>2, <2>3, <2>4
<1>17. ASSUME NEW i \in 1..Len(R)
       PROVE  IF i \in DOMAIN new THEN far[i] = far[i - 1] + 1 /\ new[i] = far[i]
              ELSE far[i] = far[i - 1]
  <2>1. i \in 0..Len(R) /\ i - 1 \in 0..Len(R)
    BY <1>3
  <2>2. CASE i < u
    <3>1. i \in 1..(u - 1) /\ i - 1 < u
      BY <1>3, <2>2
    <3>2. far[i] = Len(copy[i].log) /\ far[i - 1] = Len(copy[i - 1].log)
      BY <1>15, <2>1, <2>2, <3>1
    <3>3. i \in DOMAIN new <=> Taken(log, i)
      BY <1>10, <3>1
    <3>4. IF Taken(log, i) THEN Len(copy[i].log) = Len(copy[i - 1].log) + 1
          ELSE copy[i] = copy[i - 1]
      BY <1>4, <3>1
    <3> QED BY <1>9, <3>2, <3>3, <3>4
  <2>3. CASE ~(i < u)
    <3>1. i \notin DOMAIN new
      BY <1>11, <2>3
    <3>2. far[i] = Len(F)
      BY <1>15, <2>1, <2>3
    <3>3. far[i - 1] = Len(F)
      <4>1. CASE i = u
        <5>1. far[i - 1] = Len(copy[u - 1].log)
          BY <1>3, <1>15, <2>1, <4>1
        <5> QED BY <5>1 DEF F, c
      <4>2. CASE i # u
        <5>1. ~(i - 1 < u)
          BY <1>3, <2>3, <4>2
        <5> QED BY <1>15, <2>1, <5>1
      <4> QED BY <4>1, <4>2
    <3> QED BY <3>1, <3>2, <3>3
  <2> QED BY <2>2, <2>3
<1>18. DOMAIN new \subseteq Live(R)
  BY <1>11
<1>19. Mirrors(R, F, new, far)
  BY <1>2, <1>10, <1>12, <1>13, <1>14, <1>16, <1>17, <1>18 DEF Mirrors
<1> QED BY <1>6, <1>19 DEF R

LEMMA ForkSends ==
    ASSUME NEW log, Whole(log), Closed(log), \A k \in Live(log) : log[k].type # "kind",
           NEW u, CanCut(log, u)
    PROVE  Unsourced(Project(Fork(log, u))) = Unsourced(Project(Append(log, RewindTo(u))))
<1> DEFINE R == Append(log, RewindTo(u))
           F == Fork(log, u)
<1>1. PICK new, far : Mirrors(R, F, new, far)
  BY ForkMirrors
<1> HIDE DEF R, F
<1>2. SameMessages(ProjectRaw(R), ProjectRaw(F))
  BY <1>1, SamePass
<1>3. SameMessages(Project(R), Project(F))
  BY <1>2, SameAnswers DEF Project
<1>4. Unsourced(Project(R)) = Unsourced(Project(F))
  BY <1>3, SameUnsourced
<1> QED BY <1>4 DEF R, F

\* Nothing that switched the chat's kind is in force.
OfOneKind == \A k \in Live(events) : events[k].type # "kind"

\* While a chat is of one kind, a fork of it at any turn of his sends what the
\* chat rewound to that turn sends, whatever was rewound, removed, restored,
\* reworded or compacted before (session.rs, fork_from and its re-aimed
\* markers).
THEOREM ForksReplay == Spec => [](OfOneKind => ForkReplaysTheCut)
<1>1. LogInv /\ LiveMarkersTargetLive => (OfOneKind => ForkReplaysTheCut)
  <2> SUFFICES ASSUME LogInv, LiveMarkersTargetLive, OfOneKind,
                      NEW u \in DOMAIN events, CanCut(events, u)
               PROVE  Unsourced(Project(Fork(events, u)))
                          = Unsourced(Project(Append(events, RewindTo(u))))
    BY DEF ForkReplaysTheCut
  <2>1. Whole(events)
    BY WholeLogInv
  <2>2. Closed(events)
    BY DEF LiveMarkersTargetLive, Closed
  <2> QED BY <2>1, <2>2, ForkSends DEF OfOneKind
<1> QED BY <1>1, LogIsWhole, MarkersInForce, PTL

NeverSwitched == \A k \in DOMAIN events : events[k].type # "kind"

\* No event but a switch of kind is one.
LEMMA StaysOfOneKind ==
    ASSUME "kind" \notin Ops, LogInv, NeverSwitched, [Next]_vars
    PROVE  NeverSwitched'
<1>1. CASE UNCHANGED events
  BY <1>1 DEF NeverSwitched
<1>2. CASE AddsOne(events, events')
  <2>1. PICK e : events' = Append(events, e) /\ e.type # "kind"
    BY <1>2 DEF AddsOne
  <2>2. events \in Seq(Event)
    BY DEF LogInv, TypeOK
  <2>3. \A k \in DOMAIN events' : events'[k] = e \/ (k \in DOMAIN events /\ events'[k] = events[k])
    BY <2>1, <2>2
  <2> QED BY <2>1, <2>3 DEF NeverSwitched
<1> QED BY <1>1, <1>2, LogStepAdds DEF vars

\* In a chat whose kind he never switches, a rewind lifted, a removal restored
\* and a fork at any turn each send exactly what was sent before.
THEOREM UndoneAsItWas ==
    ASSUME "kind" \notin Ops
    PROVE  Spec => []UndoneExactly
<1>1. Init => NeverSwitched
  BY DEF Init, NeverSwitched, Created
<1>2. LogInv /\ NeverSwitched /\ [Next]_vars => NeverSwitched'
  BY StaysOfOneKind
<1>4. NeverSwitched => OfOneKind
  BY DEF NeverSwitched, OfOneKind, Live
<1>5. UnrewindUndoesRewind /\ RestoreIsExact /\ ForkReplaysTheCut => UndoneExactly
  BY DEF UndoneExactly
<1> QED BY <1>1, <1>2, <1>4, <1>5, LogIsWhole, LiftingUndoes, RestoringUndoes,
           ForksReplay, PTL DEF Spec

=============================================================================
