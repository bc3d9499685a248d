-------------------------- MODULE AgentInboxProofs --------------------------
(***************************************************************************)
(* Proofs about AgentInbox, for any messages and any settings: the type    *)
(* invariant, that nothing he typed is lost, that the model reads a        *)
(* message once, and that a message which waits is still on its way.       *)
(***************************************************************************)
EXTENDS AgentInbox, FunctionTheorems, FiniteSetTheorems, SequenceTheorems, TLAPS

Wires == {0, 1}

FeedLine ==
    {User(m, w) : m \in Messages, w \in Wires}
    \cup {Cancel(a, m, w) : a \in Asks \cup {"stop"}, m \in Messages, w \in Wires}
    \cup {Eof}

OutLine ==
    {Started(m, w) : m \in Messages, w \in Wires}
    \cup {Cancelled(m, w) : m \in Messages, w \in Wires}
    \cup {Answer(a, m, y) : a \in Asks \cup {"stop"}, m \in Messages, y \in BOOLEAN}
    \cup {ResultLine, End}

Places == {"typed", "held", "into", "box", "gone"}

(***************************************************************************)
(* What the variables hold: TypeOK, with the lines on the two pipes.       *)
(***************************************************************************)

RowShape == row \in [Messages -> Places]

WaitShape ==
    /\ DOMAIN waiting \subseteq Messages /\ IsFiniteSet(DOMAIN waiting)
    /\ waiting \in [DOMAIN waiting -> Wires]
    /\ promoting \subseteq DOMAIN waiting
    /\ taken \subseteq Messages /\ left \subseteq Messages /\ back \subseteq Messages

\* Nothing is written behind the end of the feed.
FeedShape ==
    /\ tx \in BOOLEAN
    /\ feed \in Seq(FeedLine)
    /\ \A n \in DOMAIN feed : feed[n] = Eof => ~tx /\ n = Len(feed)

CliShape ==
    /\ cli \in [doing : {"busy", "idle", "exited", "interrupted"},
                queue : Seq(Messages \X Wires), eof : BOOLEAN]
    /\ out \in Seq(OutLine)
    /\ reads \in [Messages -> Nat]

\* Once the engine has closed the inbox for good it stays closed and empty.
EngineShape ==
    /\ engine \in {"reading", "closing", "stopping", "draining", "returning", "over"}
    /\ engine \in {"draining", "returning", "over"} => ~tx /\ DOMAIN waiting = {}

Shape == RowShape /\ WaitShape /\ FeedShape /\ CliShape /\ EngineShape

(***************************************************************************)
(* What left the window, what the turn took and what its output says was   *)
(* started has been given to the model.                                    *)
(***************************************************************************)

Given ==
    /\ NothingLost
    /\ \A m \in taken : reads[m] > 0
    /\ \A n \in DOMAIN out : out[n].type = "started" => reads[out[n].m] > 0

Inv == Shape /\ Given

----------------------------------------------------------------------------

LEMMA LinesAreLines ==
    /\ \A m \in Messages, w \in Wires : User(m, w) \in FeedLine /\ User(m, w) # Eof
    /\ \A a \in Asks \cup {"stop"}, m \in Messages, w \in Wires :
            Cancel(a, m, w) \in FeedLine /\ Cancel(a, m, w) # Eof
    /\ Eof \in FeedLine
    /\ \A m \in Messages, w \in Wires : Started(m, w) \in OutLine /\ Cancelled(m, w) \in OutLine
    /\ \A a \in Asks \cup {"stop"}, m \in Messages, y \in BOOLEAN : Answer(a, m, y) \in OutLine
    /\ ResultLine \in OutLine /\ End \in OutLine
<1>1. \A m \in Messages, w \in Wires : User(m, w) \in FeedLine
    BY DEF FeedLine
<1>2. \A m, w : User(m, w) # Eof
    <2> TAKE m, w
    <2>1. User(m, w).type = "user" /\ Eof.type = "eof"
        BY DEF User, Eof
    <2> QED BY <2>1
<1>3. \A a \in Asks \cup {"stop"}, m \in Messages, w \in Wires : Cancel(a, m, w) \in FeedLine
    BY DEF FeedLine
<1>4. \A a, m, w : Cancel(a, m, w) # Eof
    <2> TAKE a, m, w
    <2>1. Cancel(a, m, w).type = "cancel" /\ Eof.type = "eof"
        BY DEF Cancel, Eof
    <2> QED BY <2>1
<1>5. Eof \in FeedLine
    BY DEF FeedLine
<1>6. \A m \in Messages, w \in Wires : Started(m, w) \in OutLine /\ Cancelled(m, w) \in OutLine
    BY DEF OutLine
<1>7. \A a \in Asks \cup {"stop"}, m \in Messages, y \in BOOLEAN : Answer(a, m, y) \in OutLine
    BY DEF OutLine
<1>8. ResultLine \in OutLine /\ End \in OutLine
    BY DEF OutLine
<1> QED BY <1>1, <1>2, <1>3, <1>4, <1>5, <1>6, <1>7, <1>8

\* What the process is told of a line it reads from the feed.
LEMMA FeedLineFields ==
    ASSUME NEW l \in FeedLine
    PROVE  /\ l.type = "user" => l.m \in Messages /\ l.wire \in Wires
           /\ l.type = "cancel" =>
                l.ask \in Asks \cup {"stop"} /\ l.m \in Messages /\ l.wire \in Wires
BY DEF FeedLine, User, Cancel, Eof

LEMMA OutLineFields ==
    ASSUME NEW l \in OutLine
    PROVE  /\ l.type \in {"started", "cancelled"} => l.m \in Messages /\ l.wire \in Wires
           /\ l.type = "answer" => l.m \in Messages
           /\ l.type \in {"started", "cancelled", "answer", "result", "end"}
BY DEF OutLine, Started, Cancelled, Answer, ResultLine, End

LEMMA HandedOpen ==
    ASSUME FeedShape, TRUE \in Hands
    PROVE  tx
BY DEF FeedShape, Hands

LEMMA Handed ==
    ASSUME FeedShape, tx, tx' = tx, NEW l \in FeedLine, l # Eof, feed' = Append(feed, l)
    PROVE  FeedShape'
<1>1. /\ feed' \in Seq(FeedLine) /\ Len(feed') = Len(feed) + 1
      /\ \A n \in 1..Len(feed) : feed'[n] = feed[n]
      /\ feed'[Len(feed) + 1] = l
    BY AppendProperties DEF FeedShape
<1>2. \A n \in DOMAIN feed' : feed'[n] # Eof
    <2> SUFFICES ASSUME NEW n \in DOMAIN feed' PROVE feed'[n] # Eof
        OBVIOUS
    <2>1. CASE n \in 1..Len(feed)
        BY <1>1, <2>1 DEF FeedShape
    <2>2. CASE n = Len(feed) + 1
        BY <1>1, <2>2
    <2> QED BY <1>1, <2>1, <2>2 DEF FeedShape
<1> QED BY <1>1, <1>2 DEF FeedShape

\* The end of the feed, written when it is closed.
LEMMA FeedEnds ==
    ASSUME FeedShape, tx' = FALSE, feed' = IF tx THEN Append(feed, Eof) ELSE feed
    PROVE  FeedShape'
<1>1. CASE ~tx
    BY <1>1 DEF FeedShape
<1>2. CASE tx
    <2>1. /\ feed' \in Seq(FeedLine) /\ Len(feed') = Len(feed) + 1
          /\ \A n \in 1..Len(feed) : feed'[n] = feed[n]
        BY <1>2, LinesAreLines, AppendProperties DEF FeedShape
    <2>2. \A n \in DOMAIN feed' : feed'[n] = Eof => n = Len(feed')
        <3> SUFFICES ASSUME NEW n \in DOMAIN feed', feed'[n] = Eof PROVE n = Len(feed) + 1
            BY <2>1
        <3>1. n \notin 1..Len(feed)
            BY <1>2, <2>1 DEF FeedShape
        <3> QED BY <2>1, <3>1 DEF FeedShape
    <2> QED BY <2>1, <2>2 DEF FeedShape
<1> QED BY <1>1, <1>2

LEMMA FewerWait ==
    ASSUME WaitShape, NEW m, waiting' = Without(m),
           promoting' \subseteq promoting \ {m},
           taken' \subseteq Messages, left' \subseteq Messages, back' \subseteq Messages
    PROVE  WaitShape'
<1>1. DOMAIN waiting' = DOMAIN waiting \ {m}
    BY DEF Without
<1>2. waiting' \in [DOMAIN waiting' -> Wires]
    BY <1>1 DEF Without, WaitShape
<1>3. IsFiniteSet(DOMAIN waiting')
    BY <1>1, FS_RemoveElement DEF WaitShape
<1> QED BY <1>1, <1>2, <1>3 DEF WaitShape

LEMMA MoreWait ==
    ASSUME WaitShape, NEW m \in Messages, NEW w \in Wires, waiting' = Under(m, w),
           promoting' \subseteq promoting,
           taken' \subseteq Messages, left' \subseteq Messages, back' \subseteq Messages
    PROVE  WaitShape'
<1>1. DOMAIN waiting' = DOMAIN waiting \cup {m}
    BY DEF Under
<1>2. waiting' \in [DOMAIN waiting' -> Wires]
    BY <1>1 DEF Under, WaitShape
<1>3. IsFiniteSet(DOMAIN waiting')
    BY <1>1, FS_AddElement DEF WaitShape
<1> QED BY <1>1, <1>2, <1>3 DEF WaitShape

LEMMA NoneWait == << >> \in [{} -> Wires] /\ DOMAIN << >> = {}
OBVIOUS

LEMMA EmptyIsEmpty ==
    ASSUME NEW f \in [{} -> Wires]
    PROVE  f = << >>
OBVIOUS

\* A step that gives the model nothing, takes nothing and lets no row go.
LEMMA GivenStays ==
    ASSUME Given, reads' = reads, taken' = taken,
           \A n \in DOMAIN out' : out'[n].type = "started" =>
                \E k \in DOMAIN out : out'[n] = out[k],
           \A m \in Messages : row'[m] = "gone" => row[m] = "gone"
    PROVE  Given'
<1>1. \A n \in DOMAIN out' : out'[n].type = "started" => reads'[out'[n].m] > 0
    <2> SUFFICES ASSUME NEW n \in DOMAIN out', out'[n].type = "started"
                 PROVE  reads'[out'[n].m] > 0
        OBVIOUS
    <2>1. PICK k \in DOMAIN out : out'[n] = out[k]
        OBVIOUS
    <2> QED BY <2>1 DEF Given
<1> QED BY <1>1 DEF Given, NothingLost

\* close() empties the inbox and ends the feed.
LEMMA Closed ==
    ASSUME Shape, Close, taken' = taken, back' = back
    PROVE  WaitShape' /\ FeedShape' /\ ~tx' /\ DOMAIN waiting' = {}
<1>1. FeedShape'
    BY FeedEnds DEF Close, Shape
<1>2. waiting' = << >> /\ DOMAIN waiting' = {} /\ waiting' \in [{} -> Wires]
    BY NoneWait DEF Close
<1>3. IsFiniteSet(DOMAIN waiting')
    BY <1>2, FS_EmptySet
<1>4. WaitShape'
    BY <1>2, <1>3 DEF WaitShape, Close, Shape
<1> QED BY <1>1, <1>2, <1>4 DEF Close

----------------------------------------------------------------------------
(* The window's commands.                                                  *)

LEMMA InjectKeeps ==
    ASSUME Inv, NEW m \in Messages, Inject(m)
    PROVE  Inv'
<1> USE DEF Inv, Shape
<1>1. PICK sent \in Hands :
        IF sent
        THEN /\ waiting' = Under(m, 0)
             /\ feed' = Append(feed, User(m, 0))
             /\ row' = [row EXCEPT ![m] = "into"]
        ELSE /\ row' = [row EXCEPT ![m] = "held"]
             /\ UNCHANGED << waiting, feed >>
    BY DEF Inject
<1>2. UNCHANGED << tx, promoting, taken, left, back, cli, out, engine, reads >>
    BY DEF Inject
<1>3. RowShape' /\ CliShape' /\ Given'
    <2>1. row' \in [Messages -> Places] /\ \A k \in Messages : row'[k] = "gone" => row[k] = "gone"
        BY <1>1 DEF RowShape, Places
    <2>2. CliShape'
        BY <1>2 DEF CliShape
    <2> QED BY <1>2, <2>1, <2>2, GivenStays DEF RowShape
<1>4. CASE sent
    <2>1. tx
        BY <1>4, HandedOpen
    <2>2. FeedShape'
        <3>1. User(m, 0) \in FeedLine /\ User(m, 0) # Eof
            BY LinesAreLines DEF Wires
        <3> QED BY <1>1, <1>2, <1>4, <2>1, <3>1, Handed
    <2>3. WaitShape'
        <3>1. 0 \in Wires /\ taken' \subseteq Messages /\ left' \subseteq Messages /\ back' \subseteq Messages
            BY <1>2 DEF WaitShape, Wires
        <3> QED BY <1>1, <1>2, <1>4, <3>1, MoreWait
    <2>4. EngineShape'
        BY <1>2, <2>1 DEF EngineShape
    <2> QED BY <1>3, <2>2, <2>3, <2>4
<1>5. CASE ~sent
    <2>1. WaitShape' /\ FeedShape' /\ EngineShape'
        BY <1>1, <1>2, <1>5 DEF WaitShape, FeedShape, EngineShape
    <2> QED BY <1>3, <2>1
<1> QED BY <1>4, <1>5 DEF Hands

\* What a take back says changes the row at most from the chat to the box.
LEMMA Said ==
    ASSUME RowShape, NEW m \in Messages, NEW what, TakeBackSays(m, what)
    PROVE  RowShape' /\ \A k \in Messages : row'[k] = "gone" => row[k] = "gone"
BY DEF RowShape, Places, TakeBackSays

LEMMA TakeBackKeeps ==
    ASSUME Inv, NEW m \in Messages, TakeBack(m) \/ TakeBackUnregistered(m)
    PROVE  Inv'
<1> USE DEF Inv, Shape
<1>1. UNCHANGED << tx, waiting, promoting, taken, left, back, cli, out, engine, reads >>
    BY DEF TakeBack, TakeBackUnregistered, inboxVars
<1>2. WaitShape' /\ CliShape' /\ EngineShape'
    BY <1>1 DEF WaitShape, CliShape, EngineShape
<1>3. RowShape' /\ \A k \in Messages : row'[k] = "gone" => row[k] = "gone"
    <2>1. row' = row \/ \E what \in {"his", "delivered"} : TakeBackSays(m, what)
        BY DEF TakeBack, TakeBackUnregistered
    <2> QED BY <2>1, Said DEF RowShape
<1>4. FeedShape'
    <2>1. CASE feed' = feed
        BY <1>1, <2>1 DEF FeedShape
    <2>2. CASE feed' # feed
        <3>1. m \in DOMAIN waiting /\ TRUE \in Hands
              /\ feed' = Append(feed, Cancel("take_back", m, waiting[m]))
            BY <2>2 DEF TakeBack, TakeBackUnregistered, Waits, Hands
        <3>2. tx
            BY <3>1, HandedOpen
        <3>3. waiting[m] \in Wires
            BY <3>1 DEF WaitShape
        <3>4. /\ Cancel("take_back", m, waiting[m]) \in FeedLine
              /\ Cancel("take_back", m, waiting[m]) # Eof
            BY <3>3, LinesAreLines DEF Asks
        <3> QED BY <1>1, <3>1, <3>2, <3>4, Handed
    <2> QED BY <2>1, <2>2
<1>5. Given'
    BY <1>1, <1>3, GivenStays
<1> QED BY <1>2, <1>3, <1>4, <1>5

LEMMA TakeBackEndsKeeps ==
    ASSUME Inv, NEW m \in Messages, TakeBackEnds(m)
    PROVE  Inv'
<1> USE DEF Inv, Shape
<1>1. UNCHANGED << taken, left, cli, out, engine, reads >>
    BY DEF TakeBackEnds
<1>2. CliShape'
    BY <1>1 DEF CliShape
<1>3. RowShape' /\ \A k \in Messages : row'[k] = "gone" => row[k] = "gone"
    <2>1. \E what \in {"his", "delivered"} : TakeBackSays(m, what)
        BY DEF TakeBackEnds
    <2> QED BY <2>1, Said
<1>4. Given'
    BY <1>1, <1>3, GivenStays
<1>5. CASE TakeBackYes(m)
    <2>1. /\ waiting' = Without(m) /\ promoting' = promoting \ {m} /\ back' = back \cup {m}
          /\ CloseIfIdle(Without(m))
        BY <1>5 DEF TakeBackEnds
    <2>2. WaitShape'
        <3>1. taken' \subseteq Messages /\ left' \subseteq Messages /\ back' \subseteq Messages
            BY <1>1, <2>1 DEF WaitShape
        <3> QED BY <2>1, <3>1, FewerWait
    <2>3. FeedShape' /\ (~tx => ~tx')
        <3>1. CASE tx' = FALSE /\ feed' = Append(feed, Eof) /\ tx
            BY <3>1, FeedEnds
        <3>2. CASE tx' = tx /\ feed' = feed
            BY <3>2 DEF FeedShape
        <3> QED BY <2>1, <3>1, <3>2 DEF CloseIfIdle
    <2>4. DOMAIN waiting' = DOMAIN waiting \ {m}
        BY <2>1 DEF Without
    <2>5. EngineShape'
        BY <1>1, <2>3, <2>4 DEF EngineShape
    <2> QED BY <1>2, <1>3, <1>4, <2>2, <2>3, <2>5
<1>6. CASE ~TakeBackYes(m)
    <2>1. UNCHANGED << tx, waiting, promoting, back, feed >>
        BY <1>6 DEF TakeBackEnds
    <2>2. WaitShape' /\ FeedShape' /\ EngineShape'
        BY <1>1, <2>1 DEF WaitShape, FeedShape, EngineShape
    <2> QED BY <1>2, <1>3, <1>4, <2>2
<1> QED BY <1>5, <1>6

LEMMA SendNowKeeps ==
    ASSUME Inv, NEW m \in Messages, SendNow(m)
    PROVE  Inv'
<1> USE DEF Inv, Shape
<1>1. UNCHANGED << row, tx, waiting, taken, left, back, cli, out, engine, reads >>
    BY DEF SendNow
<1>2. RowShape' /\ CliShape' /\ EngineShape' /\ Given'
    BY <1>1, GivenStays DEF RowShape, CliShape, EngineShape
<1>3. CASE UNCHANGED << feed, promoting >>
    <2>1. WaitShape' /\ FeedShape'
        BY <1>1, <1>3 DEF WaitShape, FeedShape
    <2> QED BY <1>2, <2>1
<1>4. CASE ~UNCHANGED << feed, promoting >>
    <2>1. /\ m \in DOMAIN waiting /\ TRUE \in Hands
          /\ feed' = Append(feed, Cancel("send_now", m, waiting[m]))
          /\ promoting' = promoting \cup {m}
        BY <1>4 DEF SendNow, Waits, Hands
    <2>2. tx /\ waiting[m] \in Wires
        BY <2>1, HandedOpen DEF WaitShape
    <2>3. /\ Cancel("send_now", m, waiting[m]) \in FeedLine
          /\ Cancel("send_now", m, waiting[m]) # Eof
        BY <2>2, LinesAreLines DEF Asks
    <2>4. FeedShape'
        BY <1>1, <2>1, <2>2, <2>3, Handed
    <2>5. WaitShape'
        BY <1>1, <2>1 DEF WaitShape
    <2> QED BY <1>2, <2>4, <2>5
<1> QED BY <1>3, <1>4

LEMMA SendNowEndsKeeps ==
    ASSUME Inv, NEW m \in Messages, SendNowEnds(m)
    PROVE  Inv'
<1> USE DEF Inv, Shape
<1>1. UNCHANGED << row, tx, taken, back, cli, out, engine, reads >> /\ promoting' = promoting \ {m}
    BY DEF SendNowEnds
<1>2. RowShape' /\ CliShape' /\ Given'
    BY <1>1, GivenStays DEF RowShape, CliShape
<1>3. CASE UNCHANGED << waiting, feed, left >>
    <2>1. WaitShape' /\ FeedShape' /\ EngineShape'
        BY <1>1, <1>3 DEF WaitShape, FeedShape, EngineShape
    <2> QED BY <1>2, <2>1
<1>4. ASSUME Waits(m), TRUE \in Hands, waiting' = Under(m, 1),
             feed' = Append(feed, User(m, 1)), UNCHANGED left
      PROVE  Inv'
    <2>1. tx
        BY <1>4, HandedOpen
    <2>2. User(m, 1) \in FeedLine /\ User(m, 1) # Eof
        BY LinesAreLines DEF Wires
    <2>3. FeedShape'
        BY <1>1, <1>4, <2>1, <2>2, Handed
    <2>4. WaitShape'
        <3>1. /\ 1 \in Wires /\ promoting' \subseteq promoting
              /\ taken' \subseteq Messages /\ left' \subseteq Messages /\ back' \subseteq Messages
            BY <1>1, <1>4 DEF WaitShape, Wires
        <3> QED BY <1>4, <3>1, MoreWait
    <2>5. EngineShape'
        BY <1>1, <2>1 DEF EngineShape
    <2> QED BY <1>2, <2>3, <2>4, <2>5
<1>5. ASSUME Waits(m), waiting' = Without(m), left' = left \cup {m}, UNCHANGED feed
      PROVE  Inv'
    <2>1. WaitShape'
        <3>1. taken' \subseteq Messages /\ left' \subseteq Messages /\ back' \subseteq Messages
            BY <1>1, <1>5 DEF WaitShape
        <3> QED BY <1>1, <1>5, <3>1, FewerWait
    <2>2. DOMAIN waiting' = DOMAIN waiting \ {m}
        BY <1>5 DEF Without
    <2>3. FeedShape' /\ EngineShape'
        BY <1>1, <1>5, <2>2 DEF FeedShape, EngineShape
    <2> QED BY <1>2, <2>1, <2>3
<1>6. \/ UNCHANGED << waiting, feed, left >>
      \/ /\ Waits(m) /\ TRUE \in Hands /\ waiting' = Under(m, 1)
         /\ feed' = Append(feed, User(m, 1)) /\ UNCHANGED left
      \/ Waits(m) /\ waiting' = Without(m) /\ left' = left \cup {m} /\ UNCHANGED feed
    BY DEF SendNowEnds, Hands
<1> QED BY <1>3, <1>4, <1>5, <1>6

----------------------------------------------------------------------------
(* The engine's read loop.                                                 *)

LEMMA ClosesKeeps ==
    ASSUME Inv, ReadEnd \/ StopCloses \/ Drained \/ SilenceCloses
    PROVE  Inv'
<1> USE DEF Inv, Shape
<1>1. Close /\ UNCHANGED << row, taken, back, reads >>
    BY DEF ReadEnd, StopCloses, Drained, SilenceCloses
<1>2. WaitShape' /\ FeedShape' /\ ~tx' /\ DOMAIN waiting' = {}
    BY <1>1, Closed
<1>3. EngineShape'
    BY <1>2 DEF EngineShape, ReadEnd, StopCloses, Drained, SilenceCloses, FeedShape
<1>4. CliShape'
    <2>1. out' = out \/ out' = << >>
        BY DEF ReadEnd, StopCloses, Drained, SilenceCloses
    <2>2. out' \in Seq(OutLine)
        <3>1. << >> \in Seq(OutLine) /\ out \in Seq(OutLine)
            BY EmptySeq DEF CliShape
        <3> HIDE DEF Inv, Shape
        <3> QED BY <2>1, <3>1
    <2>3. cli' = cli \/ cli' = [cli EXCEPT !.doing = "interrupted"]
        BY DEF ReadEnd, StopCloses, Drained, SilenceCloses
    <2> QED BY <1>1, <2>2, <2>3 DEF CliShape
<1>5. RowShape' /\ Given'
    <2>1. out' = out \/ out' = << >>
        BY DEF ReadEnd, StopCloses, Drained, SilenceCloses
    <2>2. \A n \in DOMAIN out' : \E k \in DOMAIN out : out'[n] = out[k]
        BY <2>1
    <2> QED BY <1>1, <2>2, GivenStays DEF RowShape
<1> QED BY <1>2, <1>3, <1>4, <1>5

\* What is cancelled by a stop was waiting, and is written before the end.
LEMMA StopKeeps ==
    ASSUME Inv, Stop
    PROVE  Inv'
<1> USE DEF Inv, Shape
<1>1. UNCHANGED << row, tx, waiting, promoting, taken, left, back, cli, reads >>
      /\ out' = << >> /\ engine = "reading" /\ engine' = "stopping"
    BY DEF Stop, inboxVars
<1>2. RowShape' /\ WaitShape' /\ CliShape' /\ EngineShape'
    BY <1>1 DEF RowShape, WaitShape, CliShape, EngineShape
<1>3. Given'
    BY <1>1, GivenStays
<1>4. CASE ~tx
    <2>1. feed' = feed
        BY <1>4 DEF Stop
    <2> QED BY <1>1, <1>2, <1>3, <2>1 DEF FeedShape
<1>5. CASE tx
    <2> DEFINE S == DOMAIN waiting
    <2>1. PICK order \in [1..Cardinality(S) -> S] :
            feed' = feed \o [n \in DOMAIN order |-> Cancel("stop", order[n], waiting[order[n]])]
        BY <1>5 DEF Stop
    <2> DEFINE more == [n \in DOMAIN order |-> Cancel("stop", order[n], waiting[order[n]])]
    <2>2. Cardinality(S) \in Nat
        BY FS_CardinalityType DEF WaitShape
    <2>3. \A n \in DOMAIN order : more[n] \in FeedLine /\ more[n] # Eof
        <3> SUFFICES ASSUME NEW n \in DOMAIN order
                     PROVE  /\ Cancel("stop", order[n], waiting[order[n]]) \in FeedLine
                            /\ Cancel("stop", order[n], waiting[order[n]]) # Eof
            OBVIOUS
        <3>1. order[n] \in Messages /\ waiting[order[n]] \in Wires
            BY DEF WaitShape
        <3> QED BY <3>1, LinesAreLines
    <2>4. more \in Seq(FeedLine) /\ Len(more) = Cardinality(S)
        <3>1. more \in [1..Cardinality(S) -> FeedLine]
            BY <2>3
        <3> QED BY <2>2, <3>1
    <2> HIDE DEF more
    <2>5. /\ feed' \in Seq(FeedLine) /\ Len(feed') = Len(feed) + Len(more)
          /\ \A n \in 1..Len(feed) + Len(more) :
                feed'[n] = IF n <= Len(feed) THEN feed[n] ELSE more[n - Len(feed)]
        BY <2>1, <2>4, ConcatProperties DEF FeedShape, more
    <2>6. \A n \in DOMAIN feed' : feed'[n] # Eof
        <3> SUFFICES ASSUME NEW n \in DOMAIN feed' PROVE feed'[n] # Eof
            OBVIOUS
        <3>1. CASE n <= Len(feed)
            BY <1>5, <2>5, <3>1 DEF FeedShape
        <3>2. CASE ~(n <= Len(feed))
            <4>1. n - Len(feed) \in 1..Cardinality(S) /\ feed'[n] = more[n - Len(feed)]
                BY <2>2, <2>4, <2>5, <3>2 DEF FeedShape
            <4> QED BY <2>3, <4>1
        <3> QED BY <3>1, <3>2
    <2>7. FeedShape'
        BY <1>1, <1>5, <2>5, <2>6 DEF FeedShape
    <2> QED BY <1>2, <1>3, <2>7
<1> QED BY <1>4, <1>5 DEF FeedShape

LEMMA ReadLineKeeps ==
    ASSUME Inv, ReadLine
    PROVE  Inv'
<1> USE DEF Inv, Shape
<1> DEFINE l == Head(out)
<1>1. l \in OutLine /\ out' \in Seq(OutLine)
      /\ \A n \in DOMAIN out' : \E k \in DOMAIN out : out'[n] = out[k]
    <2>1. out # << >> /\ out' = Tail(out)
        BY DEF ReadLine
    <2>2. /\ l \in OutLine /\ out' \in Seq(OutLine) /\ Len(out') = Len(out) - 1
          /\ \A n \in 1..Len(out') : out'[n] = out[n + 1]
        BY <2>1, HeadTailProperties DEF CliShape
    <2>3. \A n \in 1..Len(out') : n + 1 \in DOMAIN out
        BY <2>2 DEF CliShape
    <2> QED BY <2>2, <2>3
<1>2. UNCHANGED << cli, engine, reads, back >> /\ engine = "reading"
    BY <1>1, OutLineFields DEF ReadLine, OnStarted, OnCancelled, OnAnswer, OnResult, inboxVars
<1>3. CliShape'
    BY <1>1, <1>2 DEF CliShape
<1>4. EngineShape'
    BY <1>2 DEF EngineShape
<1>5. l.type \in {"started", "cancelled", "answer", "result"}
    BY <1>1, OutLineFields DEF ReadLine
<1>6. CASE l.type = "started"
    <2>1. OnStarted(l.m, l.wire) /\ l.m \in Messages
        BY <1>1, <1>6, OutLineFields DEF ReadLine
    <2>2. FeedShape'
        BY <2>1 DEF OnStarted, FeedShape
    <2>3. reads[l.m] > 0
        <3>1. l = out[1] /\ 1 \in DOMAIN out
            BY DEF ReadLine, CliShape
        <3> QED BY <1>6, <3>1 DEF Given
    <2>4. CASE ~(Waits(l.m) /\ waiting[l.m] = l.wire)
        <3>1. UNCHANGED << row, waiting, promoting, taken, left >>
            BY <2>1, <2>4 DEF OnStarted
        <3>2. RowShape' /\ WaitShape'
            BY <1>2, <3>1 DEF RowShape, WaitShape
        <3>3. Given'
            BY <1>1, <1>2, <3>1, GivenStays
        <3> QED BY <1>3, <1>4, <2>2, <3>2, <3>3
    <2>5. CASE Waits(l.m) /\ waiting[l.m] = l.wire
        <3>1. /\ waiting' = Without(l.m) /\ promoting' = promoting \ {l.m}
              /\ taken' = taken \cup {l.m} /\ left' = left
              /\ row' = [row EXCEPT ![l.m] = IF @ = "into" THEN "gone" ELSE @]
            BY <2>1, <2>5 DEF OnStarted
        <3>2. WaitShape'
            <4>1. taken' \subseteq Messages /\ left' \subseteq Messages /\ back' \subseteq Messages
                BY <1>2, <2>1, <3>1 DEF WaitShape
            <4> QED BY <3>1, <4>1, FewerWait
        <3>3. RowShape'
            BY <3>1 DEF RowShape, Places
        <3>4. \A m \in Messages : row'[m] = "gone" => reads'[m] > 0
            <4> SUFFICES ASSUME NEW m \in Messages, row'[m] = "gone" PROVE reads[m] > 0
                BY <1>2
            <4>1. CASE m = l.m
                BY <2>3, <4>1
            <4>2. CASE m # l.m
                BY <3>1, <4>2 DEF RowShape, Given, NothingLost
            <4> QED BY <4>1, <4>2
        <3>5. \A m \in taken' : reads'[m] > 0
            BY <1>2, <2>3, <3>1 DEF Given
        <3>6. \A n \in DOMAIN out' : out'[n].type = "started" => reads'[out'[n].m] > 0
            BY <1>1, <1>2 DEF Given
        <3> QED BY <1>3, <1>4, <2>2, <3>2, <3>3, <3>4, <3>5, <3>6 DEF Given, NothingLost
    <2> QED BY <2>4, <2>5
<1>7. CASE l.type \in {"cancelled", "answer", "result"}
    <2>1. /\ UNCHANGED << row, taken, promoting >>
          /\ \/ waiting' = waiting /\ left' = left
             \/ l.m \in Messages /\ waiting' = Without(l.m) /\ left' = left \cup {l.m}
                /\ l.m \notin promoting
          /\ UNCHANGED << tx, feed >> \/ (tx /\ tx' = FALSE /\ feed' = Append(feed, Eof))
        BY <1>1, <1>7, OutLineFields DEF ReadLine, OnCancelled, OnAnswer, OnResult, inboxVars
    <2>2. RowShape' /\ Given'
        BY <1>1, <1>2, <2>1, GivenStays DEF RowShape
    <2>3. FeedShape'
        <3>1. CASE UNCHANGED << tx, feed >>
            BY <3>1 DEF FeedShape
        <3>2. CASE tx /\ tx' = FALSE /\ feed' = Append(feed, Eof)
            BY <3>2, FeedEnds
        <3> QED BY <2>1, <3>1, <3>2
    <2>4. WaitShape'
        <3>1. CASE waiting' = waiting /\ left' = left
            BY <1>2, <2>1, <3>1 DEF WaitShape
        <3>2. CASE l.m \in Messages /\ waiting' = Without(l.m) /\ left' = left \cup {l.m}
                   /\ l.m \notin promoting
            <4>1. /\ promoting' \subseteq promoting \ {l.m}
                  /\ taken' \subseteq Messages /\ left' \subseteq Messages /\ back' \subseteq Messages
                BY <1>2, <2>1, <3>2 DEF WaitShape
            <4> QED BY <3>2, <4>1, FewerWait
        <3> QED BY <2>1, <3>1, <3>2
    <2> QED BY <1>3, <1>4, <2>2, <2>3, <2>4
<1> QED BY <1>5, <1>6, <1>7

LEMMA SilenceCheckedKeeps ==
    ASSUME Inv, SilenceChecked
    PROVE  Inv'
<1> USE DEF Inv, Shape
<1>1. UNCHANGED << row, tx, waiting, promoting, taken, left, back, feed, cli, out, reads >>
      /\ engine' = "closing"
    BY DEF SilenceChecked, inboxVars
<1>2. Given'
    BY <1>1, GivenStays
<1> QED BY <1>1, <1>2 DEF RowShape, WaitShape, FeedShape, CliShape, EngineShape

\* A row that leaves with the turn is one the turn took.
LEMMA TurnEndsKeeps ==
    ASSUME Inv, TurnEnds
    PROVE  Inv'
<1> USE DEF Inv, Shape
<1>1. UNCHANGED << tx, waiting, promoting, taken, left, back, feed, cli, out, reads >>
      /\ engine = "returning" /\ engine' = "over"
      /\ row' = [m \in Messages |->
                    IF row[m] # "into" THEN row[m] ELSE IF InTheChat(m) THEN "gone" ELSE "held"]
    BY DEF TurnEnds, inboxVars
<1>2. RowShape'
    BY <1>1 DEF RowShape, Places
<1>3. \A m \in Messages : row'[m] = "gone" => reads'[m] > 0
    BY <1>1 DEF Given, NothingLost, InTheChat
<1>4. Given'
    BY <1>1, <1>3 DEF Given, NothingLost
<1>5. WaitShape' /\ FeedShape' /\ CliShape' /\ EngineShape'
    BY <1>1 DEF WaitShape, FeedShape, CliShape, EngineShape
<1> QED BY <1>2, <1>4, <1>5

LEMMA SendNextKeeps ==
    ASSUME Inv, NEW m \in Messages, SendNext(m)
    PROVE  Inv'
<1> USE DEF Inv, Shape
<1>1. UNCHANGED << tx, waiting, promoting, taken, left, back, feed, cli, out, engine >>
      /\ row' = [row EXCEPT ![m] = "gone"] /\ reads' = [reads EXCEPT ![m] = @ + 1]
    BY DEF SendNext, inboxVars
<1>2. RowShape'
    BY <1>1 DEF RowShape, Places
<1>3. reads' \in [Messages -> Nat] /\ \A k \in Messages : reads[k] > 0 \/ k = m => reads'[k] > 0
    BY <1>1 DEF CliShape
<1>4. \A k \in Messages : row'[k] = "gone" => row[k] = "gone" \/ k = m
    BY <1>1 DEF RowShape
<1>5. \A n \in DOMAIN out : out[n].type = "started" => out[n].m \in Messages
    <2> TAKE n \in DOMAIN out
    <2>1. out[n] \in OutLine
        BY DEF CliShape
    <2> QED BY <2>1, OutLineFields
<1>6. Given'
    BY <1>1, <1>3, <1>4, <1>5 DEF Given, NothingLost, WaitShape
<1>7. WaitShape' /\ FeedShape' /\ CliShape' /\ EngineShape'
    BY <1>1, <1>3 DEF WaitShape, FeedShape, CliShape, EngineShape
<1> QED BY <1>2, <1>6, <1>7

----------------------------------------------------------------------------
(* The process.                                                            *)

\* Its lines reach its stdout, or nobody reads them.
LEMMA SaysKeeps ==
    ASSUME out \in Seq(OutLine), NEW lines \in Seq(OutLine), Says(lines)
    PROVE  /\ out' \in Seq(OutLine)
           /\ \A n \in DOMAIN out' :
                 \/ \E k \in DOMAIN out : out'[n] = out[k]
                 \/ \E k \in DOMAIN lines : out'[n] = lines[k]
<1>1. CASE out' = out
    BY <1>1
<1>2. CASE out' = out \o lines
    <2>1. /\ out' \in Seq(OutLine) /\ Len(out') = Len(out) + Len(lines)
          /\ \A n \in 1..Len(out) + Len(lines) :
                out'[n] = IF n <= Len(out) THEN out[n] ELSE lines[n - Len(out)]
        BY <1>2, ConcatProperties
    <2>2. ASSUME NEW n \in DOMAIN out'
          PROVE  \/ \E k \in DOMAIN out : out'[n] = out[k]
                 \/ \E k \in DOMAIN lines : out'[n] = lines[k]
        <3>1. CASE n <= Len(out)
            <4>1. n \in DOMAIN out /\ out'[n] = out[n]
                BY <2>1, <3>1
            <4> QED BY <4>1
        <3>2. CASE ~(n <= Len(out))
            <4>1. n - Len(out) \in DOMAIN lines /\ out'[n] = lines[n - Len(out)]
                BY <2>1, <3>2
            <4> QED BY <4>1
        <3> QED BY <3>1, <3>2
    <2> QED BY <2>1, <2>2
<1> QED BY <1>1, <1>2 DEF Says

\* Lines that start nothing.
LEMMA QuietStays ==
    ASSUME Inv, NEW lines \in Seq(OutLine), Says(lines),
           \A k \in DOMAIN lines : lines[k].type # "started",
           UNCHANGED << row, taken, reads >>
    PROVE  Given' /\ out' \in Seq(OutLine)
<1>1. out' \in Seq(OutLine)
      /\ \A n \in DOMAIN out' :
            \/ \E k \in DOMAIN out : out'[n] = out[k]
            \/ \E k \in DOMAIN lines : out'[n] = lines[k]
    BY SaysKeeps DEF Inv, Shape, CliShape
<1>2. \A n \in DOMAIN out' : out'[n].type = "started" => \E k \in DOMAIN out : out'[n] = out[k]
    BY <1>1
<1> QED BY <1>1, <1>2, GivenStays DEF Inv

LEMMA LineSeqs ==
    /\ \A l \in OutLine : << l >> \in Seq(OutLine) /\ DOMAIN << l >> = {1} /\ << l >>[1] = l
    /\ \A l, k \in OutLine : << l, k >> \in Seq(OutLine) /\ DOMAIN << l, k >> = {1, 2}
                             /\ << l, k >>[1] = l /\ << l, k >>[2] = k
OBVIOUS

LEMMA LineTypes ==
    /\ \A m, w : Started(m, w).type = "started" /\ Started(m, w).m = m
    /\ \A m, w : Cancelled(m, w).type # "started"
    /\ \A a, m, y : Answer(a, m, y).type # "started"
    /\ ResultLine.type # "started" /\ End.type # "started"
BY DEF Started, Cancelled, Answer, ResultLine, End

LEMMA QuietLines ==
    ASSUME NEW l \in OutLine, NEW k \in OutLine, l.type # "started", k.type # "started"
    PROVE  /\ << l >> \in Seq(OutLine) /\ \A n \in DOMAIN << l >> : << l >>[n].type # "started"
           /\ << l, k >> \in Seq(OutLine) /\ \A n \in DOMAIN << l, k >> : << l, k >>[n].type # "started"
OBVIOUS

LEMMA UnqueuedIsQueue ==
    ASSUME CliShape, NEW m, NEW w, Queued(m, w)
    PROVE  Unqueued(m, w) \in Seq(Messages \X Wires)
<1> DEFINE q == cli.queue
           at == CHOOSE n \in DOMAIN q : q[n] = << m, w >>
           Pair == Messages \X Wires
<1>1. q \in Seq(Pair)
    BY DEF CliShape
<1>2. at \in 1..Len(q)
    BY <1>1 DEF Queued
<1> HIDE DEF q, at, Pair
<1>3. SubSeq(q, 1, at - 1) \in Seq(Pair) /\ SubSeq(q, at + 1, Len(q)) \in Seq(Pair)
    <2>1. \A i \in 1..(at - 1) : q[i] \in Pair
        BY <1>1, <1>2
    <2>2. \A i \in (at + 1)..Len(q) : q[i] \in Pair
        BY <1>1, <1>2
    <2>3. at - 1 \in Int /\ at + 1 \in Int /\ Len(q) \in Int
        BY <1>1, <1>2
    <2> QED BY <2>1, <2>2, <2>3, SubSeqProperties
<1>4. SubSeq(q, 1, at - 1) \o SubSeq(q, at + 1, Len(q)) \in Seq(Pair)
    BY <1>3, ConcatProperties
<1>5. Unqueued(m, w) = SubSeq(q, 1, at - 1) \o SubSeq(q, at + 1, Len(q))
    BY DEF Unqueued, q, at
<1> QED BY <1>4, <1>5 DEF Pair

LEMMA CliReadsKeeps ==
    ASSUME Inv, CliReads
    PROVE  Inv'
<1> USE DEF Inv, Shape
<1> DEFINE l == Head(feed)
<1>1. UNCHANGED << row, tx, waiting, promoting, taken, left, back, engine, reads >>
      /\ feed # << >> /\ feed' = Tail(feed)
    BY DEF CliReads, inboxVars
<1>2. /\ l \in FeedLine /\ feed' \in Seq(FeedLine) /\ Len(feed') = Len(feed) - 1
      /\ \A n \in 1..Len(feed') : feed'[n] = feed[n + 1]
    BY <1>1, HeadTailProperties DEF FeedShape
<1>3. FeedShape'
    <2>1. ASSUME NEW n \in DOMAIN feed', feed'[n] = Eof PROVE ~tx' /\ n = Len(feed')
        <3>1. n + 1 \in DOMAIN feed /\ feed[n + 1] = Eof
            BY <1>2, <2>1 DEF FeedShape
        <3>2. ~tx /\ n + 1 = Len(feed)
            BY <3>1 DEF FeedShape
        <3> QED BY <1>1, <1>2, <3>2 DEF FeedShape
    <2> QED BY <1>1, <1>2, <2>1 DEF FeedShape
<1>4. RowShape' /\ WaitShape' /\ EngineShape'
    BY <1>1 DEF RowShape, WaitShape, EngineShape
<1>5. SUFFICES CliShape' /\ Given'
    BY <1>3, <1>4
<1>6. CASE l.type = "user" /\ UNCHANGED out
           /\ cli' = [cli EXCEPT !.queue = Append(@, << l.m, l.wire >>)]
    <2>1. << l.m, l.wire >> \in Messages \X Wires
        BY <1>2, <1>6, FeedLineFields
    <2>2. Append(cli.queue, << l.m, l.wire >>) \in Seq(Messages \X Wires)
        BY <2>1, AppendProperties DEF CliShape
    <2>3. CliShape'
        BY <1>1, <1>6, <2>2 DEF CliShape
    <2> QED BY <1>1, <1>6, <2>3, GivenStays
<1>7. CASE l.type = "cancel" /\ Queued(l.m, l.wire)
           /\ cli' = [cli EXCEPT !.queue = Unqueued(l.m, l.wire)]
           /\ Says(<< Cancelled(l.m, l.wire), Answer(l.ask, l.m, TRUE) >>)
    <2> DEFINE gone == Cancelled(l.m, l.wire)
               yes  == Answer(l.ask, l.m, TRUE)
    <2>1. gone \in OutLine /\ yes \in OutLine /\ gone.type # "started" /\ yes.type # "started"
        <3>1. l.m \in Messages /\ l.wire \in Wires /\ l.ask \in Asks \cup {"stop"}
            BY <1>2, <1>7, FeedLineFields
        <3>2. gone \in OutLine /\ yes \in OutLine
            BY <3>1, LinesAreLines
        <3>3. gone.type # "started"
            BY DEF Cancelled
        <3>4. yes.type # "started"
            BY DEF Answer
        <3> QED BY <3>2, <3>3, <3>4
    <2>2. Says(<< gone, yes >>)
        BY <1>7
    <2> HIDE DEF gone, yes
    <2>3. Given' /\ out' \in Seq(OutLine)
        <3>1. << gone, yes >> \in Seq(OutLine)
              /\ \A n \in DOMAIN << gone, yes >> : << gone, yes >>[n].type # "started"
            BY <2>1, QuietLines
        <3> QED BY <1>1, <2>2, <3>1, QuietStays
    <2>4. Unqueued(l.m, l.wire) \in Seq(Messages \X Wires)
        BY <1>7, UnqueuedIsQueue
    <2> QED BY <1>1, <1>7, <2>3, <2>4 DEF CliShape
<1>8. CASE l.type = "cancel" /\ Says(<< Answer(l.ask, l.m, FALSE) >>) /\ UNCHANGED cli
    <2> DEFINE no == Answer(l.ask, l.m, FALSE)
    <2>1. no \in OutLine /\ no.type # "started"
        <3>1. l.m \in Messages /\ l.ask \in Asks \cup {"stop"}
            BY <1>2, <1>8, FeedLineFields
        <3>2. no \in OutLine
            BY <3>1, LinesAreLines
        <3>3. no.type # "started"
            BY DEF Answer
        <3> QED BY <3>2, <3>3
    <2>2. Says(<< no >>)
        BY <1>8
    <2> HIDE DEF no
    <2>3. Given' /\ out' \in Seq(OutLine)
        <3>1. << no >> \in Seq(OutLine) /\ \A n \in DOMAIN << no >> : << no >>[n].type # "started"
            BY <2>1, QuietLines
        <3> QED BY <1>1, <2>2, <3>1, QuietStays
    <2> QED BY <1>1, <1>8, <2>3 DEF CliShape
<1>9. CASE cli' = [cli EXCEPT !.eof = TRUE] /\ UNCHANGED out
    <2>1. CliShape'
        BY <1>1, <1>9 DEF CliShape
    <2> QED BY <1>1, <1>9, <2>1, GivenStays
<1> QED BY <1>6, <1>7, <1>8, <1>9 DEF CliReads

\* The one step that gives a message to the model says that it did.
LEMMA CliTakesKeeps ==
    ASSUME Inv, CliTakes
    PROVE  Inv'
<1> USE DEF Inv, Shape
<1> DEFINE m == Head(cli.queue)[1]
           w == Head(cli.queue)[2]
<1>1. /\ UNCHANGED << row, tx, waiting, promoting, taken, left, back, feed, engine >>
      /\ cli.queue # << >>
      /\ cli' = [cli EXCEPT !.queue = Tail(@), !.doing = "busy"]
      /\ reads' = [reads EXCEPT ![m] = @ + 1]
      /\ Says(<< Started(m, w) >>)
    BY DEF CliTakes, inboxVars
<1>2. Head(cli.queue) \in Messages \X Wires /\ Tail(cli.queue) \in Seq(Messages \X Wires)
    BY <1>1, HeadTailProperties DEF CliShape
<1>3. m \in Messages /\ w \in Wires
    BY <1>2
<1>4. reads' \in [Messages -> Nat] /\ \A k \in Messages : reads[k] > 0 \/ k = m => reads'[k] > 0
    BY <1>1, <1>3 DEF CliShape
<1> HIDE DEF m, w
<1> DEFINE lines == << Started(m, w) >>
<1>5. lines \in Seq(OutLine) /\ \A k \in DOMAIN lines : lines[k] = Started(m, w)
    BY <1>3, LinesAreLines, LineSeqs
<1> HIDE DEF lines
<1>6. /\ out' \in Seq(OutLine)
      /\ \A n \in DOMAIN out' :
            \/ \E k \in DOMAIN out : out'[n] = out[k]
            \/ \E k \in DOMAIN lines : out'[n] = lines[k]
    BY <1>1, <1>5, SaysKeeps DEF CliShape, lines
<1>7. CliShape'
    BY <1>1, <1>2, <1>4, <1>6 DEF CliShape
<1>8. \A n \in DOMAIN out' : out'[n].type = "started" => reads'[out'[n].m] > 0
    <2> SUFFICES ASSUME NEW n \in DOMAIN out', out'[n].type = "started"
                 PROVE  reads'[out'[n].m] > 0
        OBVIOUS
    <2>1. CASE \E k \in DOMAIN out : out'[n] = out[k]
        <3>1. PICK k \in DOMAIN out : out'[n] = out[k]
            BY <2>1
        <3>2. out[k] \in OutLine
            BY DEF CliShape
        <3>3. out[k].m \in Messages /\ reads[out[k].m] > 0
            BY <3>1, <3>2, OutLineFields DEF Given
        <3> QED BY <1>4, <3>1, <3>3
    <2>2. CASE \E k \in DOMAIN lines : out'[n] = lines[k]
        <3>1. out'[n] = Started(m, w)
            BY <1>5, <2>2
        <3>2. out'[n].m = m
            BY <3>1, LineTypes
        <3> QED BY <1>3, <1>4, <3>2
    <2> QED BY <1>6, <2>1, <2>2
<1>9. Given'
    BY <1>1, <1>4, <1>8 DEF Given, NothingLost, WaitShape
<1>10. RowShape' /\ WaitShape' /\ FeedShape' /\ EngineShape'
    BY <1>1 DEF RowShape, WaitShape, FeedShape, EngineShape
<1> QED BY <1>7, <1>9, <1>10

LEMMA CliEndsKeeps ==
    ASSUME Inv, CliFinishes \/ CliExits \/ CliDies
    PROVE  Inv'
<1> USE DEF Inv, Shape
<1>1. /\ UNCHANGED << row, tx, waiting, promoting, taken, left, back, feed, engine, reads >>
      /\ \/ cli' = [cli EXCEPT !.doing = "idle"]
         \/ cli' = [cli EXCEPT !.doing = "exited", !.queue = << >>]
      /\ \E l \in {ResultLine, End} : Says(<< l >>)
    BY DEF CliFinishes, CliExits, CliDies, Exits, inboxVars
<1>2. Given' /\ out' \in Seq(OutLine)
    <2>1. PICK l \in {ResultLine, End} : Says(<< l >>)
        BY <1>1
    <2>2. << l >> \in Seq(OutLine) /\ \A k \in DOMAIN << l >> : << l >>[k].type # "started"
        BY LinesAreLines, LineTypes, QuietLines
    <2> QED BY <1>1, <2>1, <2>2, QuietStays
<1>3. CliShape'
    <2>1. << >> \in Seq(Messages \X Wires)
        OBVIOUS
    <2> QED BY <1>1, <1>2, <2>1 DEF CliShape
<1>4. RowShape' /\ WaitShape' /\ FeedShape' /\ EngineShape'
    BY <1>1 DEF RowShape, WaitShape, FeedShape, EngineShape
<1> QED BY <1>2, <1>3, <1>4

----------------------------------------------------------------------------

LEMMA InvHoldsAtFirst == Init => Inv
<1> SUFFICES ASSUME Init PROVE Inv
    OBVIOUS
<1> USE DEF Init
<1>1. RowShape
    BY DEF RowShape, Places
<1>2. WaitShape
    BY NoneWait, FS_EmptySet DEF WaitShape
<1>3. FeedShape
    BY DEF FeedShape
<1>4. CliShape
    <2>1. << >> \in Seq(Messages \X Wires) /\ << >> \in Seq(OutLine)
        OBVIOUS
    <2> QED BY <2>1 DEF CliShape
<1>5. EngineShape
    BY DEF EngineShape
<1>6. Given
    BY DEF Given, NothingLost
<1> QED BY <1>1, <1>2, <1>3, <1>4, <1>5, <1>6 DEF Inv, Shape

LEMMA InvIsKept == Inv /\ [Next]_vars => Inv'
<1> SUFFICES ASSUME Inv, [Next]_vars PROVE Inv'
    OBVIOUS
<1>1. ASSUME NEW m \in Messages, Command(m) PROVE Inv'
    BY <1>1, InjectKeeps, TakeBackKeeps, TakeBackEndsKeeps, SendNowKeeps, SendNowEndsKeeps DEF Command
<1>2. ASSUME NEW m \in Messages, SendNext(m) PROVE Inv'
    BY <1>2, SendNextKeeps
<1>3. CASE ReadLine
    BY <1>3, ReadLineKeeps
<1>4. CASE ReadEnd \/ StopCloses \/ Drained \/ SilenceCloses
    BY <1>4, ClosesKeeps
<1>5. CASE Stop
    BY <1>5, StopKeeps
<1>6. CASE SilenceChecked
    BY <1>6, SilenceCheckedKeeps
<1>7. CASE TurnEnds
    BY <1>7, TurnEndsKeeps
<1>8. CASE CliReads
    BY <1>8, CliReadsKeeps
<1>9. CASE CliTakes
    BY <1>9, CliTakesKeeps
<1>10. CASE CliFinishes \/ CliExits \/ CliDies
    BY <1>10, CliEndsKeeps
<1>11. CASE UNCHANGED vars
    BY <1>11 DEF vars, inboxVars, Inv, Shape, RowShape, WaitShape, FeedShape, CliShape,
                 EngineShape, Given, NothingLost
<1> QED BY <1>1, <1>2, <1>3, <1>4, <1>5, <1>6, <1>7, <1>8, <1>9, <1>10, <1>11 DEF Next

LEMMA InvIsTypes == Inv => TypeOK
<1> SUFFICES ASSUME Inv PROVE TypeOK
    OBVIOUS
<1> USE DEF Inv, Shape
<1>1. row \in [Messages -> {"typed", "held", "into", "box", "gone"}]
    BY DEF RowShape, Places
<1>2. /\ DOMAIN waiting \subseteq Messages /\ \A m \in DOMAIN waiting : waiting[m] \in {0, 1}
      /\ promoting \subseteq DOMAIN waiting /\ taken \cup left \cup back \subseteq Messages
    BY DEF WaitShape, Wires
<1>3. /\ ~tx => \A n \in 1..(Len(feed) - 1) : feed[n] # Eof
      /\ tx => \A n \in DOMAIN feed : feed[n] # Eof
    BY DEF FeedShape
<1>4. engine = "over" => ~tx /\ waiting = << >>
    <2>1. engine = "over" => ~tx /\ waiting \in [{} -> Wires]
        BY DEF EngineShape, WaitShape
    <2> QED BY <2>1, EmptyIsEmpty
<1> QED BY <1>1, <1>2, <1>3, <1>4 DEF TypeOK, EngineShape

LEMMA InvAlways == Spec => []Inv
BY InvHoldsAtFirst, InvIsKept, PTL DEF Spec

\* The inbox's variables hold what they are for: what waits has a wire and is a
\* message, nothing follows the end of the feed (close(), inbox.rs), and a turn
\* that is over has no feed and nothing waiting.
THEOREM TypesHold == Spec => []TypeOK
BY InvAlways, InvIsTypes, PTL

\* Nothing he typed is lost, whatever stops, dies, or is asked at once: a row
\* that left the window was given to the model (inbox.rs: "Nothing he typed is
\* lost on any path").
THEOREM NothingHeTypedIsLost == Spec => []NothingLost
<1>1. Inv => NothingLost
    BY DEF Inv, Given
<1> QED BY <1>1, InvAlways, PTL

(***************************************************************************)
(* Where a message may still come from, in a turn that is neither stopped  *)
(* nor dies: its row, its line in the feed, its line in the process's      *)
(* queue, or a send now that will write it again.  It is in one place at   *)
(* most, in none once it was read, and in none of the last three once its  *)
(* take back was granted.                                                  *)
(***************************************************************************)

Fed(m)     == \E n \in DOMAIN feed : feed[n].type = "user" /\ feed[n].m = m
InLine(m)  == \E n \in DOMAIN cli.queue : cli.queue[n][1] = m
SaidGone(m)    == \E n \in DOMAIN out : out[n].type = "cancelled" /\ out[n].m = m
SaidStarted(m) == \E n \in DOMAIN out : out[n].type = "started" /\ out[n].m = m

SaidYes(a, m)  == \E n \in DOMAIN out : out[n] = Answer(a, m, TRUE)

\* The answer that grants a cancel was read, or is about to be.
Granted(a, m) == asks[a][m] = "yes" \/ (asks[a][m] = "out" /\ SaidYes(a, m))

TakenBack(m) == Granted("take_back", m)
Resending(m) == Waits(m) /\ Granted("send_now", m)
Nowhere(m)   == ~Fed(m) /\ ~InLine(m) /\ reads[m] = 0 /\ ~Resending(m)

RowOnce(m) ==
    /\ row[m] \in {"typed", "held", "box"} => Nowhere(m)
    /\ row[m] \in {"typed", "held"} =>
          ~Waits(m) /\ m \notin left /\ ~SaidGone(m) /\ \A a \in Asks : asks[a][m] = "none"
    /\ row[m] = "into" /\ reads[m] > 0 => SaidStarted(m)

LineOnce(m) ==
    /\ Fed(m) => ~InLine(m) /\ reads[m] = 0 /\ ~Resending(m) /\ ~TakenBack(m) /\ ~SaidGone(m)
    /\ InLine(m) => reads[m] = 0 /\ ~Resending(m) /\ ~TakenBack(m) /\ ~SaidGone(m)
    /\ reads[m] > 0 => ~Resending(m) /\ ~TakenBack(m) /\ ~SaidGone(m)
    /\ Resending(m) => ~TakenBack(m)
    /\ reads[m] <= 1

InboxOnce(m) ==
    /\ Waits(m) => row[m] = "into"
    /\ m \in left => ~Waits(m) /\ Nowhere(m)
    /\ asks["send_now"][m] \in {"out", "yes"} /\ Waits(m) => m \in promoting
    /\ asks["send_now"][m] = "yes" => ~SaidGone(m)

\* A line is under the wire the inbox has for its message, and there is one.
FedOnce ==
    \A n \in DOMAIN feed : feed[n].type = "user" =>
        /\ Waits(feed[n].m) /\ waiting[feed[n].m] = feed[n].wire
        /\ \A k \in DOMAIN feed : feed[k].type = "user" /\ feed[k].m = feed[n].m => k = n

QueuedOnce ==
    \A n \in DOMAIN cli.queue :
        /\ Waits(cli.queue[n][1]) /\ waiting[cli.queue[n][1]] = cli.queue[n][2]
        /\ \A k \in DOMAIN cli.queue : cli.queue[k][1] = cli.queue[n][1] => k = n

StartedOnce ==
    \A n \in DOMAIN out : out[n].type = "started" =>
        /\ Waits(out[n].m) /\ waiting[out[n].m] = out[n].wire
        /\ \A k \in DOMAIN out : out[k].type = "started" /\ out[k].m = out[n].m => k = n

\* The lifecycle line of a cancelled line comes before the answer.
GoneFirst ==
    \A n, k \in DOMAIN out :
        /\ out[n].type = "cancelled" /\ out[k] = Answer("send_now", out[n].m, TRUE)
        /\ asks["send_now"][out[n].m] = "out"
        => n < k

AskStates == {"none", "out", "yes", "no", "dropped", "his", "delivered", "done"}

\* Nothing is answered, nor a cancel on its way, before it is asked.
AskedFirst ==
    /\ asks \in [Asks -> [Messages -> AskStates]]
    /\ \A n \in DOMAIN feed : feed[n].type = "cancel" /\ feed[n].ask \in Asks =>
          asks[feed[n].ask][feed[n].m] # "none"
    /\ \A a \in Asks, m \in Messages : SaidYes(a, m) => asks[a][m] # "none"

\* The feed ends when nothing waits, and the process when it has read that.
Ends ==
    /\ cli.doing \in {"busy", "idle", "exited"}
    /\ ~tx => DOMAIN waiting = {}
    /\ cli.eof => ~tx /\ feed = << >>
    /\ cli.doing = "exited" => cli.eof /\ cli.queue = << >>
    /\ \A n \in DOMAIN out : out[n].type = "end" => cli.doing = "exited" /\ n = Len(out)
    /\ engine \in {"reading", "returning"}
    /\ engine = "returning" => out = << >> /\ cli.doing = "exited" /\ left = {}

MessageOnce(m) == RowOnce(m) /\ LineOnce(m) /\ InboxOnce(m)

Running ==
    /\ \A m \in Messages : MessageOnce(m)
    /\ FedOnce /\ QueuedOnce /\ StartedOnce /\ GoneFirst /\ AskedFirst /\ Ends

Over ==
    /\ cli.doing = "exited"
    /\ \A m \in Messages :
          /\ reads[m] <= 1 /\ row[m] # "into"
          /\ row[m] \in {"typed", "held", "box"} => reads[m] = 0

Once == Undisturbed => IF engine = "over" THEN Over ELSE Running

----------------------------------------------------------------------------
(* What a step does to the lines of the two pipes and of the queue.        *)

LEMMA LineKinds ==
    /\ \A m, w : User(m, w).type = "user" /\ User(m, w).m = m /\ User(m, w).wire = w
    /\ \A a, m, w : Cancel(a, m, w).type = "cancel" /\ Cancel(a, m, w).ask = a /\ Cancel(a, m, w).m = m
    /\ Eof.type = "eof"
    /\ \A m, w : Started(m, w).type = "started" /\ Started(m, w).m = m /\ Started(m, w).wire = w
    /\ \A m, w : Cancelled(m, w).type = "cancelled" /\ Cancelled(m, w).m = m
    /\ \A a, m, y : Answer(a, m, y).type = "answer" /\ Answer(a, m, y).ask = a
                    /\ Answer(a, m, y).m = m /\ Answer(a, m, y).yes = y
    /\ ResultLine.type = "result" /\ End.type = "end"
BY DEF User, Cancel, Eof, Started, Cancelled, Answer, ResultLine, End

\* Nothing of a message changed that could bring it to the model again.
Still(m) ==
    /\ Fed(m)' => Fed(m)
    /\ InLine(m)' => InLine(m)
    /\ SaidGone(m)' => SaidGone(m)
    /\ SaidStarted(m) => SaidStarted(m)'
    /\ \A a \in Asks : Granted(a, m)' => Granted(a, m)
    /\ \A a \in Asks : asks'[a][m] = asks[a][m]
    /\ reads'[m] = reads[m] /\ row'[m] = row[m]
    /\ Waits(m)' <=> Waits(m)
    /\ m \in left' => m \in left
    /\ m \in promoting => m \in promoting'

LEMMA StillOnce ==
    ASSUME NEW m \in Messages, MessageOnce(m), Still(m)
    PROVE  MessageOnce(m)'
BY DEF MessageOnce, RowOnce, LineOnce, InboxOnce, Nowhere, Resending, TakenBack, Still, Asks

\* What the inbox has for a message with a line stays.
Holds(m) == Waits(m) => Waits(m)' /\ waiting'[m] = waiting[m]

LEMMA FeedSame ==
    ASSUME FedOnce, feed' = feed, \A m \in Messages : Fed(m) => Holds(m), FeedShape
    PROVE  FedOnce' /\ \A m \in Messages : (Fed(m)' <=> Fed(m))
<1>1. \A n \in DOMAIN feed : feed[n].type = "user" => feed[n].m \in Messages
    BY FeedLineFields DEF FeedShape
<1> QED BY <1>1 DEF FedOnce, Fed, Holds

\* A line that is not a message.
LEMMA FeedMore ==
    ASSUME FedOnce, FeedShape, NEW l \in FeedLine, feed' = Append(feed, l), l.type # "user",
           \A m \in Messages : Fed(m) => Holds(m)
    PROVE  FedOnce' /\ \A m \in Messages : (Fed(m)' <=> Fed(m))
<1>1. /\ Len(feed') = Len(feed) + 1 /\ feed' \in Seq(FeedLine)
      /\ \A n \in 1..Len(feed) : feed'[n] = feed[n]
      /\ feed'[Len(feed) + 1] = l
    BY AppendProperties DEF FeedShape
<1>2. /\ \A n \in DOMAIN feed : n \in DOMAIN feed' /\ feed'[n] = feed[n]
      /\ \A n \in DOMAIN feed' : feed'[n].type = "user" => n \in DOMAIN feed
    BY <1>1 DEF FeedShape
<1>3. \A n \in DOMAIN feed : feed[n].type = "user" => feed[n].m \in Messages
    BY FeedLineFields DEF FeedShape
<1>4. \A m \in Messages : (Fed(m)' <=> Fed(m))
    BY <1>2 DEF Fed
<1>5. FedOnce'
    <2> SUFFICES ASSUME NEW n \in DOMAIN feed', feed'[n].type = "user"
                 PROVE  /\ feed'[n].m \in DOMAIN waiting' /\ waiting'[feed'[n].m] = feed'[n].wire
                        /\ \A k \in DOMAIN feed' : feed'[k].type = "user" /\ feed'[k].m = feed'[n].m => k = n
        BY DEF FedOnce, Waits
    <2>1. n \in DOMAIN feed /\ feed'[n] = feed[n] /\ feed[n].m \in Messages /\ Fed(feed[n].m)
        BY <1>2, <1>3 DEF Fed
    <2>2. feed[n].m \in DOMAIN waiting' /\ waiting'[feed[n].m] = feed[n].wire
        BY <2>1 DEF FedOnce, Holds, Waits
    <2>3. \A k \in DOMAIN feed' : feed'[k].type = "user" /\ feed'[k].m = feed'[n].m => k = n
        BY <1>2, <2>1 DEF FedOnce
    <2> QED BY <2>1, <2>2, <2>3
<1> QED BY <1>4, <1>5

\* A message's line.
LEMMA FeedUser ==
    ASSUME FedOnce, FeedShape, NEW m \in Messages, NEW w \in Wires, feed' = Append(feed, User(m, w)),
           ~Fed(m), Waits(m)', waiting'[m] = w,
           \A k \in Messages \ {m} : Fed(k) => Holds(k)
    PROVE  FedOnce' /\ \A k \in Messages \ {m} : (Fed(k)' <=> Fed(k))
<1> DEFINE l == User(m, w)
<1>0. l \in FeedLine /\ l.type = "user" /\ l.m = m /\ l.wire = w
    BY LinesAreLines, LineKinds
<1>a. feed' = Append(feed, l)
    OBVIOUS
<1> HIDE DEF l
<1>1. /\ Len(feed') = Len(feed) + 1 /\ feed' \in Seq(FeedLine)
      /\ \A n \in 1..Len(feed) : feed'[n] = feed[n]
      /\ feed'[Len(feed) + 1] = l
    BY <1>0, <1>a, AppendProperties DEF FeedShape
<1> DEFINE new == Len(feed) + 1
<1>2. /\ \A n \in DOMAIN feed : n \in DOMAIN feed' /\ feed'[n] = feed[n] /\ n # new
      /\ \A n \in DOMAIN feed' : n \in DOMAIN feed \/ n = new
      /\ new \in DOMAIN feed' /\ feed'[new] = l
    BY <1>1 DEF FeedShape
<1> HIDE DEF new
<1>3. \A n \in DOMAIN feed : feed[n].type = "user" => feed[n].m \in Messages \ {m}
    BY FeedLineFields DEF FeedShape, Fed
<1>4. \A k \in Messages \ {m} : (Fed(k)' <=> Fed(k))
    BY <1>0, <1>2 DEF Fed
<1>5. FedOnce'
    <2> SUFFICES ASSUME NEW n \in DOMAIN feed', feed'[n].type = "user"
                 PROVE  /\ feed'[n].m \in DOMAIN waiting' /\ waiting'[feed'[n].m] = feed'[n].wire
                        /\ \A k \in DOMAIN feed' : feed'[k].type = "user" /\ feed'[k].m = feed'[n].m => k = n
        BY DEF FedOnce, Waits
    <2>1. CASE n \in DOMAIN feed
        <3>1. feed'[n] = feed[n] /\ feed[n].m \in Messages \ {m} /\ Fed(feed[n].m)
            BY <1>2, <1>3, <2>1 DEF Fed
        <3>2. feed[n].m \in DOMAIN waiting' /\ waiting'[feed[n].m] = feed[n].wire
            BY <2>1, <3>1 DEF FedOnce, Holds, Waits
        <3>3. \A k \in DOMAIN feed' : feed'[k].type = "user" /\ feed'[k].m = feed'[n].m => k = n
            BY <1>0, <1>2, <2>1, <3>1 DEF FedOnce
        <3> QED BY <3>1, <3>2, <3>3
    <2>2. CASE n = new
        BY <1>0, <1>2, <1>3, <2>2 DEF Waits
    <2> QED BY <1>2, <2>1, <2>2
<1> QED BY <1>4, <1>5

\* The process reads a line.
LEMMA FeedLess ==
    ASSUME FedOnce, FeedShape, feed # << >>, feed' = Tail(feed), UNCHANGED waiting
    PROVE  /\ FedOnce'
           /\ \A m \in Messages : Fed(m)' => Fed(m)
           /\ \A m \in Messages :
                Head(feed).type = "user" /\ Head(feed).m = m =>
                    Fed(m) /\ ~Fed(m)' /\ Waits(m) /\ waiting[m] = Head(feed).wire
<1>1. /\ feed' \in Seq(FeedLine) /\ Len(feed') = Len(feed) - 1
      /\ \A n \in 1..Len(feed') : feed'[n] = feed[n + 1]
      /\ Head(feed) = feed[1] /\ 1 \in DOMAIN feed
    BY HeadTailProperties DEF FeedShape
<1>2. \A n \in DOMAIN feed' : n + 1 \in DOMAIN feed /\ feed'[n] = feed[n + 1] /\ n + 1 # 1 /\ n \in Int
    BY <1>1 DEF FeedShape
<1>3. FedOnce'
    <2> SUFFICES ASSUME NEW n \in DOMAIN feed', feed'[n].type = "user"
                 PROVE  /\ feed'[n].m \in DOMAIN waiting' /\ waiting'[feed'[n].m] = feed'[n].wire
                        /\ \A k \in DOMAIN feed' : feed'[k].type = "user" /\ feed'[k].m = feed'[n].m => k = n
        BY DEF FedOnce, Waits
    <2>1. feed'[n].m \in DOMAIN waiting' /\ waiting'[feed'[n].m] = feed'[n].wire
        BY <1>2 DEF FedOnce, Waits
    <2>2. ASSUME NEW k \in DOMAIN feed', feed'[k].type = "user", feed'[k].m = feed'[n].m PROVE k = n
        <3>1. k + 1 = n + 1
            BY <1>2, <2>2 DEF FedOnce
        <3> QED BY <1>2, <3>1
    <2> QED BY <2>1, <2>2
<1>4. \A m \in Messages : Fed(m)' => Fed(m)
    BY <1>2 DEF Fed
<1>5. ASSUME NEW m \in Messages, Head(feed).type = "user", Head(feed).m = m
      PROVE  Fed(m) /\ ~Fed(m)' /\ Waits(m) /\ waiting[m] = Head(feed).wire
    <2>1. Fed(m) /\ Waits(m) /\ waiting[m] = Head(feed).wire
        BY <1>1, <1>5 DEF Fed, FedOnce
    <2>2. ASSUME NEW n \in DOMAIN feed', feed'[n].type = "user", feed'[n].m = m PROVE FALSE
        <3>1. n + 1 = 1
            BY <1>1, <1>2, <1>5, <2>2 DEF FedOnce
        <3> QED BY <1>2, <3>1
    <2> QED BY <2>1, <2>2 DEF Fed
<1> QED BY <1>3, <1>4, <1>5

LEMMA QueueSame ==
    ASSUME QueuedOnce, CliShape, cli'.queue = cli.queue, \A m \in Messages : InLine(m) => Holds(m)
    PROVE  QueuedOnce' /\ \A m \in Messages : (InLine(m)' <=> InLine(m))
<1>1. \A n \in DOMAIN cli.queue : cli.queue[n][1] \in Messages
    <2>1. cli.queue \in Seq(Messages \X Wires)
        BY DEF CliShape
    <2> QED BY <2>1
<1> QED BY <1>1 DEF QueuedOnce, InLine, Holds, Waits

LEMMA QueueMore ==
    ASSUME QueuedOnce, CliShape, NEW m \in Messages, NEW w \in Wires,
           cli'.queue = Append(cli.queue, << m, w >>), ~InLine(m), Waits(m), waiting[m] = w,
           UNCHANGED waiting
    PROVE  QueuedOnce' /\ \A k \in Messages \ {m} : (InLine(k)' <=> InLine(k))
<1> DEFINE q == cli.queue
           r == cli'.queue
           l == << m, w >>
           new == Len(q) + 1
<1>0. l[1] = m /\ l[2] = w
    OBVIOUS
<1>1. /\ Len(r) = Len(q) + 1 /\ DOMAIN r = 1..Len(q) + 1 /\ DOMAIN q = 1..Len(q) /\ Len(q) \in Nat
      /\ \A n \in 1..Len(q) : r[n] = q[n]
      /\ r[new] = l
    <2>1. q \in Seq(Messages \X Wires)
        BY DEF CliShape
    <2> HIDE DEF q
    <2>2. r = Append(q, l) /\ l \in Messages \X Wires
        BY DEF q
    <2> HIDE DEF r, l
    <2> QED BY <2>1, <2>2, AppendProperties
<1>2. /\ \A n \in DOMAIN q : n \in DOMAIN r /\ r[n] = q[n] /\ n # new
      /\ \A n \in DOMAIN r : n \in DOMAIN q \/ n = new
      /\ new \in DOMAIN r /\ r[new] = l
    BY <1>1
<1>3. \A n \in DOMAIN q : q[n][1] # m
    BY DEF InLine
<1>4. \A n \in DOMAIN q : Waits(q[n][1]) /\ waiting[q[n][1]] = q[n][2]
                          /\ \A k \in DOMAIN q : q[k][1] = q[n][1] => k = n
    BY DEF QueuedOnce
<1>5. \A k \in Messages : InLine(k)' <=> \E n \in DOMAIN r : r[n][1] = k
    BY DEF InLine
<1>6. \A k \in Messages : InLine(k) <=> \E n \in DOMAIN q : q[n][1] = k
    BY DEF InLine
<1>7. QueuedOnce' <=> \A n \in DOMAIN r :
            /\ r[n][1] \in DOMAIN waiting' /\ waiting'[r[n][1]] = r[n][2]
            /\ \A k \in DOMAIN r : r[k][1] = r[n][1] => k = n
    BY DEF QueuedOnce, Waits
<1> HIDE DEF q, r, l, new
<1>8. \A k \in Messages \ {m} : (InLine(k)' <=> InLine(k))
    BY <1>0, <1>2, <1>5, <1>6
<1>9. ASSUME NEW n \in DOMAIN r
      PROVE  /\ r[n][1] \in DOMAIN waiting' /\ waiting'[r[n][1]] = r[n][2]
             /\ \A k \in DOMAIN r : r[k][1] = r[n][1] => k = n
    <2>1. CASE n \in DOMAIN q
        BY <1>0, <1>2, <1>3, <1>4, <2>1 DEF Waits
    <2>2. CASE n = new
        BY <1>0, <1>2, <1>3, <2>2 DEF Waits
    <2> QED BY <1>2, <2>1, <2>2
<1> QED BY <1>7, <1>8, <1>9

\* One line leaves the queue.
LEMMA QueueLess ==
    ASSUME QueuedOnce, CliShape, NEW at \in DOMAIN cli.queue, cli'.queue \in Seq(Messages \X Wires),
           Len(cli'.queue) = Len(cli.queue) - 1,
           \A n \in 1..Len(cli'.queue) :
                cli'.queue[n] = IF n < at THEN cli.queue[n] ELSE cli.queue[n + 1],
           UNCHANGED waiting
    PROVE  /\ QueuedOnce'
           /\ \A m \in Messages : InLine(m)' => InLine(m)
           /\ \A m \in Messages : m = cli.queue[at][1] =>
                InLine(m) /\ ~InLine(m)' /\ Waits(m) /\ waiting[m] = cli.queue[at][2]
<1> DEFINE q == cli.queue
           r == cli'.queue
<1>1. /\ q \in Seq(Messages \X Wires) /\ r \in Seq(Messages \X Wires)
      /\ Len(r) = Len(q) - 1 /\ at \in DOMAIN q
      /\ \A n \in 1..Len(r) : r[n] = IF n < at THEN q[n] ELSE q[n + 1]
    BY DEF CliShape
<1>2. DOMAIN q = 1..Len(q) /\ DOMAIN r = 1..Len(r) /\ Len(q) \in Nat /\ Len(r) \in Nat
    BY <1>1
<1>3. at \in 1..Len(q)
    BY <1>1, <1>2
<1>4. \A n \in DOMAIN q : Waits(q[n][1]) /\ waiting[q[n][1]] = q[n][2]
                          /\ \A k \in DOMAIN q : q[k][1] = q[n][1] => k = n
    BY DEF QueuedOnce
<1>5. \A k \in Messages : InLine(k)' <=> \E n \in DOMAIN r : r[n][1] = k
    BY DEF InLine
<1>6. \A k \in Messages : InLine(k) <=> \E n \in DOMAIN q : q[n][1] = k
    BY DEF InLine
<1>7. QueuedOnce' <=> \A n \in DOMAIN r :
            /\ r[n][1] \in DOMAIN waiting' /\ waiting'[r[n][1]] = r[n][2]
            /\ \A k \in DOMAIN r : r[k][1] = r[n][1] => k = n
    BY DEF QueuedOnce, Waits
<1> HIDE DEF q, r
<1>8. \A n \in DOMAIN r : \E j \in DOMAIN q :
            r[n] = q[j] /\ j # at /\ j = IF n < at THEN n ELSE n + 1
    <2> TAKE n \in DOMAIN r
    <2>0. n \in 1..Len(r) /\ Len(r) = Len(q) - 1 /\ Len(q) \in Nat /\ at \in 1..Len(q)
        BY <1>1, <1>2, <1>3
    <2>1. CASE n < at
        <3>1. n \in 1..Len(q) /\ n # at
            BY <2>0, <2>1
        <3>2. r[n] = q[n]
            BY <1>1, <2>0, <2>1
        <3> QED BY <1>2, <2>1, <3>1, <3>2
    <2>2. CASE ~(n < at)
        <3>1. n + 1 \in 1..Len(q) /\ n + 1 # at
            BY <2>0, <2>2
        <3>2. r[n] = q[n + 1]
            BY <1>1, <2>0, <2>2
        <3> QED BY <1>2, <2>2, <3>1, <3>2
    <2> QED BY <2>1, <2>2
<1>9. ASSUME NEW n \in DOMAIN r
      PROVE  /\ r[n][1] \in DOMAIN waiting' /\ waiting'[r[n][1]] = r[n][2]
             /\ \A k \in DOMAIN r : r[k][1] = r[n][1] => k = n
    <2>1. PICK j \in DOMAIN q : r[n] = q[j] /\ j # at /\ j = IF n < at THEN n ELSE n + 1
        BY <1>8
    <2>2. ASSUME NEW k \in DOMAIN r, r[k][1] = r[n][1] PROVE k = n
        <3>1. PICK i \in DOMAIN q : r[k] = q[i] /\ i # at /\ i = IF k < at THEN k ELSE k + 1
            BY <1>8
        <3>2. i = j
            BY <1>4, <2>1, <2>2, <3>1
        <3>3. n \in Nat /\ k \in Nat /\ at \in Nat
            BY <1>2, <1>3
        <3> QED BY <2>1, <3>1, <3>2, <3>3
    <2> QED BY <1>4, <2>1, <2>2 DEF Waits
<1>10. \A k \in Messages : InLine(k)' => InLine(k)
    BY <1>5, <1>6, <1>8
<1>11. ASSUME NEW m \in Messages, m = q[at][1]
       PROVE  InLine(m) /\ ~InLine(m)' /\ Waits(m) /\ waiting[m] = q[at][2]
    <2>0. at \in DOMAIN q
        BY <1>2, <1>3
    <2>1. InLine(m) /\ Waits(m) /\ waiting[m] = q[at][2]
        BY <2>0, <1>4, <1>6, <1>11
    <2>2. ASSUME NEW n \in DOMAIN r, r[n][1] = m PROVE FALSE
        <3>1. PICK j \in DOMAIN q : r[n] = q[j] /\ j # at /\ j = IF n < at THEN n ELSE n + 1
            BY <1>8
        <3> QED BY <2>0, <1>4, <1>11, <2>2, <3>1
    <2> QED BY <1>5, <2>1, <2>2
<1> QED BY <1>7, <1>9, <1>10, <1>11 DEF q

----------------------------------------------------------------------------

LEMMA StartedAreMessages ==
    ASSUME CliShape
    PROVE  \A n \in DOMAIN out : out[n].type \in {"started", "cancelled"} => out[n].m \in Messages
<1>1. \A n \in DOMAIN out : out[n] \in OutLine
    BY DEF CliShape
<1> QED BY <1>1, OutLineFields

\* A send now's cancel that is out was out, or nothing answers it yet.
Asked ==
    \A m \in Messages : asks'["send_now"][m] = "out" =>
        asks["send_now"][m] = "out" \/ ~SaidYes("send_now", m)

LEMMA OutSame ==
    ASSUME StartedOnce, GoneFirst, CliShape, out' = out,
           \A m \in Messages : SaidStarted(m) => Holds(m), Asked
    PROVE  /\ StartedOnce' /\ GoneFirst'
           /\ \A m \in Messages : (SaidStarted(m)' <=> SaidStarted(m)) /\ (SaidGone(m)' <=> SaidGone(m))
           /\ \A a \in Asks, m \in Messages : (SaidYes(a, m)' <=> SaidYes(a, m))
<1>1. StartedOnce'
    BY StartedAreMessages DEF StartedOnce, SaidStarted, Holds, Waits
<1>2. GoneFirst'
    BY StartedAreMessages DEF GoneFirst, Asked, SaidYes, Answer
<1> QED BY <1>1, <1>2 DEF SaidStarted, SaidGone, SaidYes

\* The engine reads a line.
LEMMA OutLess ==
    ASSUME StartedOnce, GoneFirst, CliShape, out # << >>, out' = Tail(out), Asked
    PROVE  /\ GoneFirst'
           /\ \A n \in DOMAIN out' : n + 1 \in DOMAIN out /\ out'[n] = out[n + 1] /\ n \in Nat \ {0}
           /\ \A m \in Messages :
                /\ SaidGone(m)' => SaidGone(m)
                /\ SaidStarted(m)' => SaidStarted(m)
                /\ Head(out).type = "started" /\ Head(out).m = m =>
                      ~SaidStarted(m)' /\ SaidStarted(m) /\ Waits(m) /\ waiting[m] = Head(out).wire
                /\ ~(Head(out).type = "started" /\ Head(out).m = m) => (SaidStarted(m)' <=> SaidStarted(m))
                /\ Head(out).type = "cancelled" /\ Head(out).m = m => SaidGone(m)
                /\ Head(out) = Answer("send_now", m, TRUE) /\ asks["send_now"][m] = "out" => ~SaidGone(m)
           /\ \A a \in Asks, m \in Messages :
                /\ SaidYes(a, m)' => SaidYes(a, m)
                /\ Head(out) = Answer(a, m, TRUE) => SaidYes(a, m)
<1> DEFINE h == Head(out)
<1>1. /\ out' \in Seq(OutLine) /\ Len(out') = Len(out) - 1 /\ out \in Seq(OutLine)
      /\ \A n \in 1..Len(out') : out'[n] = out[n + 1]
      /\ h = out[1] /\ 1 \in DOMAIN out
    BY HeadTailProperties DEF CliShape
<1> HIDE DEF h
<1>2. \A n \in DOMAIN out' : n + 1 \in DOMAIN out /\ out'[n] = out[n + 1] /\ n + 1 # 1 /\ n \in Nat \ {0}
    BY <1>1
<1>3. \A j \in DOMAIN out : j = 1 \/ \E n \in DOMAIN out' : j = n + 1
    <2> TAKE j \in DOMAIN out
    <2>1. CASE j # 1
        <3>1. j - 1 \in DOMAIN out' /\ j = (j - 1) + 1
            BY <1>1, <2>1
        <3> QED BY <3>1
    <2> QED BY <2>1
<1>4. GoneFirst'
    <2> SUFFICES ASSUME NEW n \in DOMAIN out', NEW k \in DOMAIN out',
                        out'[n].type = "cancelled", out'[k] = Answer("send_now", out'[n].m, TRUE),
                        asks'["send_now"][out'[n].m] = "out"
                 PROVE  n < k
        BY DEF GoneFirst, Answer
    <2>1. out'[n].m \in Messages
        BY <1>2, StartedAreMessages
    <2>3. out[n + 1].type = "cancelled" /\ out[k + 1] = Answer("send_now", out[n + 1].m, TRUE)
          /\ out[n + 1].m = out'[n].m /\ n + 1 \in DOMAIN out /\ k + 1 \in DOMAIN out
        BY <1>2
    <2>4. asks["send_now"][out[n + 1].m] = "out"
        BY <2>1, <2>3 DEF Asked, SaidYes
    <2>2. n + 1 < k + 1
        BY <2>3, <2>4 DEF GoneFirst
    <2> QED BY <1>2, <2>2
<1>5. ASSUME NEW m \in Messages
      PROVE  /\ SaidGone(m)' => SaidGone(m)
             /\ SaidStarted(m)' => SaidStarted(m)
             /\ h.type = "started" /\ h.m = m =>
                   ~SaidStarted(m)' /\ SaidStarted(m) /\ Waits(m) /\ waiting[m] = h.wire
             /\ ~(h.type = "started" /\ h.m = m) => (SaidStarted(m)' <=> SaidStarted(m))
             /\ h.type = "cancelled" /\ h.m = m => SaidGone(m)
             /\ h = Answer("send_now", m, TRUE) /\ asks["send_now"][m] = "out" => ~SaidGone(m)
    <2>1. SaidGone(m)' => SaidGone(m)
        BY <1>2 DEF SaidGone
    <2>2. SaidStarted(m)' => SaidStarted(m)
        BY <1>2 DEF SaidStarted
    <2>3. ASSUME h.type = "started", h.m = m
          PROVE  ~SaidStarted(m)' /\ SaidStarted(m) /\ Waits(m) /\ waiting[m] = h.wire
        <3>1. SaidStarted(m) /\ Waits(m) /\ waiting[m] = h.wire
            BY <1>1, <2>3 DEF SaidStarted, StartedOnce
        <3>2. ASSUME NEW n \in DOMAIN out', out'[n].type = "started", out'[n].m = m PROVE FALSE
            BY <1>1, <1>2, <2>3, <3>2 DEF StartedOnce
        <3> QED BY <3>1, <3>2 DEF SaidStarted
    <2>4. ASSUME ~(h.type = "started" /\ h.m = m), SaidStarted(m) PROVE SaidStarted(m)'
        BY <1>1, <1>2, <1>3, <2>4 DEF SaidStarted
    <2>a. ~(h.type = "started" /\ h.m = m) => (SaidStarted(m)' <=> SaidStarted(m))
        BY <2>2, <2>4
    <2>5. h.type = "cancelled" /\ h.m = m => SaidGone(m)
        BY <1>1 DEF SaidGone
    <2>6. ASSUME h = Answer("send_now", m, TRUE), asks["send_now"][m] = "out", SaidGone(m) PROVE FALSE
        <3>1. PICK n \in DOMAIN out : out[n].type = "cancelled" /\ out[n].m = m
            BY <2>6 DEF SaidGone
        <3>2. n < 1
            BY <1>1, <2>6, <3>1 DEF GoneFirst
        <3> QED BY <1>1, <3>2
    <2> QED BY <2>1, <2>2, <2>3, <2>a, <2>5, <2>6
<1>6. \A a \in Asks, m \in Messages :
            /\ SaidYes(a, m)' => SaidYes(a, m)
            /\ h = Answer(a, m, TRUE) => SaidYes(a, m)
    BY <1>1, <1>2 DEF SaidYes, Answer
<1> QED BY <1>2, <1>4, <1>5, <1>6 DEF h

LEMMA OutLessStarted ==
    ASSUME StartedOnce, CliShape, \A n \in DOMAIN out' : n + 1 \in DOMAIN out /\ out'[n] = out[n + 1] /\ n \in Nat \ {0},
           \A m \in Messages : SaidStarted(m)' => Holds(m)
    PROVE  StartedOnce'
<1> SUFFICES ASSUME NEW n \in DOMAIN out', out'[n].type = "started"
             PROVE  /\ out'[n].m \in DOMAIN waiting' /\ waiting'[out'[n].m] = out'[n].wire
                    /\ \A k \in DOMAIN out' : out'[k].type = "started" /\ out'[k].m = out'[n].m => k = n
    BY DEF StartedOnce, Waits
<1>1. PICK m \in Messages : out'[n].m = m
    BY StartedAreMessages
<1>2. SaidStarted(m)' /\ Waits(m) /\ waiting[m] = out'[n].wire
    BY <1>1 DEF SaidStarted, StartedOnce
<1>3. m \in DOMAIN waiting' /\ waiting'[m] = waiting[m]
    BY <1>2 DEF Holds, Waits
<1>4. ASSUME NEW k \in DOMAIN out', out'[k].type = "started", out'[k].m = m PROVE k = n
    <2>1. k + 1 = n + 1
        BY <1>1, <1>4 DEF StartedOnce
    <2> QED BY <2>1
<1> QED BY <1>1, <1>2, <1>3, <1>4

\* The process writes lines.
LEMMA Written ==
    ASSUME CliShape, NEW lines \in Seq(OutLine), out' = out \o lines
    PROVE  /\ Len(out) \in Nat /\ Len(out') = Len(out) + Len(lines)
           /\ \A n \in DOMAIN out : n \in DOMAIN out' /\ out'[n] = out[n] /\ n <= Len(out) /\ n \in Nat
           /\ \A n \in DOMAIN out' :
                n \in DOMAIN out \/ \E i \in DOMAIN lines : n = Len(out) + i /\ out'[n] = lines[i]
           /\ \A i \in DOMAIN lines :
                i \in Nat \ {0} /\ Len(out) + i \in DOMAIN out' /\ out'[Len(out) + i] = lines[i]
<1>1. out \in Seq(OutLine)
    BY DEF CliShape
<1>2. /\ out' \in Seq(OutLine) /\ Len(out') = Len(out) + Len(lines)
      /\ \A n \in 1..Len(out) + Len(lines) :
            out'[n] = IF n <= Len(out) THEN out[n] ELSE lines[n - Len(out)]
    BY <1>1, ConcatProperties
<1>3. Len(out) \in Nat /\ Len(lines) \in Nat /\ DOMAIN out = 1..Len(out)
      /\ DOMAIN lines = 1..Len(lines) /\ DOMAIN out' = 1..Len(out) + Len(lines)
    BY <1>1, <1>2
<1>4. ASSUME NEW n \in DOMAIN out
      PROVE  n \in DOMAIN out' /\ out'[n] = out[n] /\ n <= Len(out) /\ n \in Nat
    BY <1>2, <1>3
<1>5. ASSUME NEW i \in DOMAIN lines
      PROVE  i \in Nat \ {0} /\ Len(out) + i \in DOMAIN out' /\ out'[Len(out) + i] = lines[i]
    <2>1. i \in 1..Len(lines) /\ Len(out) + i \in 1..Len(out) + Len(lines)
          /\ ~(Len(out) + i <= Len(out)) /\ (Len(out) + i) - Len(out) = i
        BY <1>3
    <2> QED BY <1>2, <1>3, <2>1
<1>6. ASSUME NEW n \in DOMAIN out'
      PROVE  n \in DOMAIN out \/ \E i \in DOMAIN lines : n = Len(out) + i /\ out'[n] = lines[i]
    <2>1. CASE n <= Len(out)
        BY <1>3, <2>1
    <2>2. CASE ~(n <= Len(out))
        <3>1. n - Len(out) \in DOMAIN lines /\ n = Len(out) + (n - Len(out))
            BY <1>3, <2>2
        <3>2. out'[n] = lines[n - Len(out)]
            BY <1>2, <1>3, <2>2
        <3> QED BY <3>1, <3>2
    <2> QED BY <2>1, <2>2
<1> QED BY <1>2, <1>3, <1>4, <1>5, <1>6

\* Lines that start nothing, cancel nothing and grant nothing.
LEMMA OutQuiet ==
    ASSUME StartedOnce, GoneFirst, CliShape, NEW lines \in Seq(OutLine), Says(lines),
           \A i \in DOMAIN lines : /\ lines[i].type \notin {"started", "cancelled"}
                                   /\ \A a \in Asks, m \in Messages : lines[i] # Answer(a, m, TRUE),
           UNCHANGED << waiting, asks >>
    PROVE  /\ StartedOnce' /\ GoneFirst'
           /\ \A m \in Messages : (SaidStarted(m)' <=> SaidStarted(m)) /\ (SaidGone(m)' <=> SaidGone(m))
           /\ \A a \in Asks, m \in Messages : (SaidYes(a, m)' <=> SaidYes(a, m))
<1>1. CASE out' = out
    BY <1>1, OutSame DEF Asked, Holds, Waits
<1>2. CASE out' = out \o lines
    <2>1. /\ \A n \in DOMAIN out : n \in DOMAIN out' /\ out'[n] = out[n]
          /\ \A n \in DOMAIN out' :
                n \in DOMAIN out \/ /\ out'[n].type \notin {"started", "cancelled"}
                                    /\ \A a \in Asks, m \in Messages : out'[n] # Answer(a, m, TRUE)
        <3>1. /\ \A n \in DOMAIN out : n \in DOMAIN out' /\ out'[n] = out[n]
              /\ \A n \in DOMAIN out' :
                    n \in DOMAIN out \/ \E i \in DOMAIN lines : n = Len(out) + i /\ out'[n] = lines[i]
            BY <1>2, Written
        <3>2. ASSUME NEW n \in DOMAIN out', n \notin DOMAIN out
              PROVE  /\ out'[n].type \notin {"started", "cancelled"}
                     /\ \A a \in Asks, m \in Messages : out'[n] # Answer(a, m, TRUE)
            <4>1. PICK i \in DOMAIN lines : out'[n] = lines[i]
                BY <3>1, <3>2
            <4> QED BY <4>1
        <3> QED BY <3>1, <3>2
    <2>2. StartedOnce'
        BY <2>1 DEF StartedOnce, Waits
    <2>3. GoneFirst'
        <3>1. \A n \in DOMAIN out : out[n].type = "cancelled" => out[n].m \in Messages
            BY StartedAreMessages
        <3> QED BY <2>1, <3>1 DEF GoneFirst, Asks, Answer
    <2>4. \A m \in Messages : SaidStarted(m)' <=> SaidStarted(m)
        BY <2>1 DEF SaidStarted
    <2>5. \A m \in Messages : SaidGone(m)' <=> SaidGone(m)
        BY <2>1 DEF SaidGone
    <2>6. \A a \in Asks, m \in Messages : (SaidYes(a, m)' <=> SaidYes(a, m))
        BY <2>1 DEF SaidYes, Answer
    <2> QED BY <2>2, <2>3, <2>4, <2>5, <2>6
<1> QED BY <1>1, <1>2 DEF Says

\* The line of a message the model was given.
LEMMA OutStarted ==
    ASSUME StartedOnce, GoneFirst, CliShape, NEW m \in Messages, NEW w \in Wires,
           Says(<< Started(m, w) >>), engine = "reading",
           ~SaidStarted(m), Waits(m), waiting[m] = w, UNCHANGED << waiting, asks >>
    PROVE  /\ StartedOnce' /\ GoneFirst' /\ SaidStarted(m)'
           /\ \A k \in Messages \ {m} : (SaidStarted(k)' <=> SaidStarted(k))
           /\ \A k \in Messages : (SaidGone(k)' <=> SaidGone(k))
           /\ \A a \in Asks, k \in Messages : (SaidYes(a, k)' <=> SaidYes(a, k))
<1> DEFINE lines == << Started(m, w) >>
           l == Started(m, w)
           new == Len(out) + 1
<1>1. l \in OutLine /\ l.type = "started" /\ l.m = m /\ l.wire = w
      /\ \A a \in Asks, k \in Messages : l # Answer(a, k, TRUE)
    <2>1. \A a \in Asks, k \in Messages : Answer(a, k, TRUE).type = "answer"
        BY DEF Answer
    <2>2. l \in OutLine /\ l.type = "started" /\ l.m = m /\ l.wire = w
        BY LinesAreLines, LineKinds
    <2> HIDE DEF l
    <2> QED BY <2>1, <2>2
<1>2. lines \in Seq(OutLine) /\ DOMAIN lines = {1} /\ lines[1] = l
    BY <1>1, LineSeqs
<1>3. out' = out \o lines
    BY DEF Says
<1> HIDE DEF l, lines
<1>4. /\ \A n \in DOMAIN out : n \in DOMAIN out' /\ out'[n] = out[n] /\ n <= Len(out) /\ n \in Nat
      /\ \A n \in DOMAIN out' : n \in DOMAIN out \/ n = new
      /\ new \in DOMAIN out' /\ out'[new] = l /\ new \notin DOMAIN out
    <2>1. /\ Len(out) \in Nat
          /\ \A n \in DOMAIN out : n \in DOMAIN out' /\ out'[n] = out[n] /\ n <= Len(out) /\ n \in Nat
          /\ \A n \in DOMAIN out' :
                n \in DOMAIN out \/ \E i \in DOMAIN lines : n = Len(out) + i /\ out'[n] = lines[i]
          /\ \A i \in DOMAIN lines :
                i \in Nat \ {0} /\ Len(out) + i \in DOMAIN out' /\ out'[Len(out) + i] = lines[i]
        BY <1>2, <1>3, Written
    <2>2. \A n \in DOMAIN out' : n \in DOMAIN out \/ n = new
        BY <1>2, <2>1
    <2>3. new \in DOMAIN out' /\ out'[new] = l
        BY <1>2, <2>1
    <2>4. new \notin DOMAIN out
        BY <2>1
    <2> QED BY <2>1, <2>2, <2>3, <2>4
<1> HIDE DEF new
<1>5. StartedOnce'
    <2>1. \A n \in DOMAIN out : out[n].type = "started" => out[n].m # m
        BY DEF SaidStarted
    <2>2. ASSUME NEW n \in DOMAIN out', out'[n].type = "started"
          PROVE  /\ out'[n].m \in DOMAIN waiting' /\ waiting'[out'[n].m] = out'[n].wire
                 /\ \A k \in DOMAIN out' : out'[k].type = "started" /\ out'[k].m = out'[n].m => k = n
        <3>1. CASE n \in DOMAIN out
            BY <1>1, <1>4, <2>1, <2>2, <3>1 DEF StartedOnce, Waits
        <3>2. CASE n = new
            BY <1>1, <1>4, <2>1, <3>2 DEF Waits
        <3> QED BY <1>4, <3>1, <3>2
    <2> QED BY <2>2 DEF StartedOnce, Waits
<1>6. GoneFirst'
    <2>1. \A n \in DOMAIN out : out[n].type = "cancelled" => out[n].m \in Messages
        BY StartedAreMessages
    <2> QED BY <1>1, <1>4, <2>1 DEF GoneFirst, Asks, Answer
<1>7. \A k \in Messages \ {m} : SaidStarted(k)' <=> SaidStarted(k)
    BY <1>1, <1>4 DEF SaidStarted
<1>8. \A k \in Messages : SaidGone(k)' <=> SaidGone(k)
    BY <1>1, <1>4 DEF SaidGone
<1>9. \A a \in Asks, k \in Messages : (SaidYes(a, k)' <=> SaidYes(a, k))
    BY <1>1, <1>4 DEF SaidYes, Answer
<1>10. SaidStarted(m)'
    BY <1>1, <1>4 DEF SaidStarted
<1> QED BY <1>5, <1>6, <1>7, <1>8, <1>9, <1>10

\* The two lines of a cancel that was granted.
LEMMA OutGone ==
    ASSUME StartedOnce, GoneFirst, CliShape, NEW m \in Messages, NEW w \in Wires,
           NEW ask \in Asks \cup {"stop"},
           Says(<< Cancelled(m, w), Answer(ask, m, TRUE) >>), engine = "reading",
           ~Granted("send_now", m), UNCHANGED << waiting, asks >>
    PROVE  /\ StartedOnce' /\ GoneFirst' /\ SaidGone(m)'
           /\ \A k \in Messages : (SaidStarted(k)' <=> SaidStarted(k))
           /\ \A k \in Messages \ {m} : (SaidGone(k)' <=> SaidGone(k))
           /\ \A a \in Asks, k \in Messages : SaidYes(a, k)' => SaidYes(a, k) \/ (a = ask /\ k = m)
           /\ \A a \in Asks, k \in Messages : SaidYes(a, k) \/ (a = ask /\ k = m) => SaidYes(a, k)'
<1> DEFINE g == Cancelled(m, w)
           y == Answer(ask, m, TRUE)
           lines == << g, y >>
           one == Len(out) + 1
           two == Len(out) + 2
<1>1. /\ g \in OutLine /\ g.type = "cancelled" /\ g.m = m
      /\ y \in OutLine /\ y.type = "answer"
      /\ \A a \in Asks, k \in Messages : g # Answer(a, k, TRUE)
      /\ \A a \in Asks, k \in Messages : y = Answer(a, k, TRUE) <=> a = ask /\ k = m
    <2>1. g \in OutLine /\ g.type = "cancelled" /\ g.m = m
        BY LinesAreLines, LineKinds
    <2>2. y.type = "answer" /\ y.ask = ask /\ y.m = m
        BY DEF Answer
    <2>5. y \in OutLine
        BY LinesAreLines
    <2>3. \A a \in Asks, k \in Messages :
            /\ Answer(a, k, TRUE).type = "answer"
            /\ Answer(a, k, TRUE).ask = a /\ Answer(a, k, TRUE).m = k
        BY DEF Answer
    <2>4. \A a \in Asks, k \in Messages : a = ask /\ k = m => y = Answer(a, k, TRUE)
        OBVIOUS
    <2> HIDE DEF g, y
    <2>6. ASSUME NEW a \in Asks, NEW k \in Messages, y = Answer(a, k, TRUE)
          PROVE  a = ask /\ k = m
        <3>1. Answer(a, k, TRUE).ask = a /\ Answer(a, k, TRUE).m = k
            BY <2>3
        <3> QED BY <2>2, <2>6, <3>1, Zenon
    <2>7. \A a \in Asks, k \in Messages : g # Answer(a, k, TRUE)
        BY <2>1, <2>3
    <2> QED BY <2>1, <2>2, <2>4, <2>5, <2>6, <2>7
<1>2. lines \in Seq(OutLine) /\ DOMAIN lines = {1, 2} /\ lines[1] = g /\ lines[2] = y
    <2> HIDE DEF g, y
    <2> QED BY <1>1, LineSeqs
<1>3. out' = out \o lines
    BY DEF Says
<1> HIDE DEF g, y, lines
<1>4. /\ \A n \in DOMAIN out : n \in DOMAIN out' /\ out'[n] = out[n] /\ n < one /\ n < two
      /\ \A n \in DOMAIN out' : n \in DOMAIN out \/ n = one \/ n = two
      /\ one \in DOMAIN out' /\ out'[one] = g
      /\ two \in DOMAIN out' /\ out'[two] = y /\ one < two /\ one # two
    <2>1. /\ Len(out) \in Nat
          /\ \A n \in DOMAIN out : n \in DOMAIN out' /\ out'[n] = out[n] /\ n <= Len(out) /\ n \in Nat
          /\ \A n \in DOMAIN out' :
                n \in DOMAIN out \/ \E i \in DOMAIN lines : n = Len(out) + i /\ out'[n] = lines[i]
          /\ \A i \in DOMAIN lines : Len(out) + i \in DOMAIN out' /\ out'[Len(out) + i] = lines[i]
        BY <1>2, <1>3, Written
    <2>2. \A n \in DOMAIN out : n < one /\ n < two
        BY <2>1
    <2>3. one \in DOMAIN out' /\ out'[one] = g /\ two \in DOMAIN out' /\ out'[two] = y
        BY <1>2, <2>1
    <2>4. \A n \in DOMAIN out' : n \in DOMAIN out \/ n = one \/ n = two
        BY <1>2, <2>1
    <2>5. one < two /\ one # two
        BY <2>1
    <2> QED BY <2>1, <2>2, <2>3, <2>4, <2>5
<1> HIDE DEF one, two
<1>5. StartedOnce'
    BY <1>1, <1>4 DEF StartedOnce, Waits
<1>6. GoneFirst'
    <2>1. \A n \in DOMAIN out : out[n].type = "cancelled" => out[n].m \in Messages
        BY StartedAreMessages
    <2> SUFFICES ASSUME NEW n \in DOMAIN out', NEW k \in DOMAIN out', NEW j \in Messages,
                        out'[n].type = "cancelled", out'[n].m = j,
                        out'[k] = Answer("send_now", j, TRUE), asks["send_now"][j] = "out"
                 PROVE  n < k
        BY <1>1, <1>4, <2>1 DEF GoneFirst, Answer
    <2>2. CASE k = two
        <3>1. n # two
            BY <1>1, <1>4, <2>2
        <3> QED BY <1>4, <2>2, <3>1
    <2>3. k # one
        BY <1>1, <1>4 DEF Asks
    <2>4. CASE k \in DOMAIN out
        <3>1. out[k] = Answer("send_now", j, TRUE) /\ SaidYes("send_now", j)
            BY <1>4, <2>4 DEF SaidYes
        <3>2. j # m
            BY <3>1 DEF Granted
        <3>3. n \in DOMAIN out
            BY <1>1, <1>4, <3>2
        <3> QED BY <1>4, <2>4, <3>1, <3>3 DEF GoneFirst
    <2> QED BY <1>4, <2>2, <2>3, <2>4
<1>7. \A k \in Messages : SaidStarted(k)' <=> SaidStarted(k)
    BY <1>1, <1>4 DEF SaidStarted
<1>8. \A k \in Messages \ {m} : SaidGone(k)' <=> SaidGone(k)
    BY <1>1, <1>4 DEF SaidGone
<1>9. \A a \in Asks, k \in Messages : SaidYes(a, k)' => SaidYes(a, k) \/ (a = ask /\ k = m)
    BY <1>1, <1>4 DEF SaidYes, Answer
<1>10. \A a \in Asks, k \in Messages : SaidYes(a, k) \/ (a = ask /\ k = m) => SaidYes(a, k)'
    BY <1>1, <1>4 DEF SaidYes, Answer
<1>11. SaidGone(m)'
    BY <1>1, <1>4 DEF SaidGone
<1> QED BY <1>5, <1>6, <1>7, <1>8, <1>9, <1>10, <1>11

----------------------------------------------------------------------------
(* The steps of a turn that is neither stopped nor dies.                   *)

LEMMA UnderHolds ==
    ASSUME NEW m, NEW w, waiting' = Under(m, w)
    PROVE  /\ Waits(m)' /\ waiting'[m] = w
           /\ \A k \in Messages \ {m} : (Waits(k)' <=> Waits(k)) /\ Holds(k)
BY DEF Under, Waits, Holds

LEMMA WithoutHolds ==
    ASSUME NEW m, waiting' = Without(m)
    PROVE  /\ ~Waits(m)'
           /\ \A k \in Messages \ {m} : (Waits(k)' <=> Waits(k)) /\ Holds(k)
BY DEF Without, Waits, Holds

LEMMA SameHolds ==
    ASSUME UNCHANGED waiting
    PROVE  \A k \in Messages : (Waits(k)' <=> Waits(k)) /\ Holds(k)
BY DEF Waits, Holds

\* An ask is set.
LEMMA AskSet ==
    ASSUME AskedFirst, NEW a \in Asks, NEW m \in Messages, NEW v \in {"out", "yes", "no", "his", "delivered", "done"},
           asks' = [asks EXCEPT ![a][m] = v],
           v = "out" => asks[a][m] = "none",
           \A b \in Asks, k \in Messages : SaidYes(b, k)' => SaidYes(b, k)
    PROVE  /\ asks' \in [Asks -> [Messages -> AskStates]]
           /\ asks'[a][m] = v
           /\ \A b \in Asks, k \in Messages : b # a \/ k # m => asks'[b][k] = asks[b][k]
           /\ \A b \in Asks, k \in Messages : b # a \/ k # m => (Granted(b, k)' => Granted(b, k))
           /\ v \notin {"out", "yes"} => ~Granted(a, m)'
           /\ \A b \in Asks, k \in Messages : SaidYes(b, k)' => asks'[b][k] # "none"
           /\ Asked
<1> USE DEF AskedFirst, AskStates
<1>1. /\ asks' \in [Asks -> [Messages -> AskStates]]
      /\ asks'[a][m] = v
      /\ \A b \in Asks, k \in Messages : b # a \/ k # m => asks'[b][k] = asks[b][k]
    OBVIOUS
<1>2. \A b \in Asks, k \in Messages : b # a \/ k # m => (Granted(b, k)' => Granted(b, k))
    BY <1>1 DEF Granted
<1>3. v \notin {"out", "yes"} => ~Granted(a, m)'
    BY <1>1 DEF Granted
<1>4. ASSUME NEW b \in Asks, NEW k \in Messages, SaidYes(b, k)' PROVE asks'[b][k] # "none"
    <2>1. CASE b = a /\ k = m
        BY <1>1, <2>1
    <2>2. CASE b # a \/ k # m
        BY <1>1, <1>4, <2>2
    <2> QED BY <2>1, <2>2
<1>5. Asked
    <2> SUFFICES ASSUME NEW k \in Messages, asks'["send_now"][k] = "out", SaidYes("send_now", k)
                 PROVE  asks["send_now"][k] = "out"
        BY DEF Asked
    <2>1. CASE a = "send_now" /\ k = m
        BY <1>1, <2>1 DEF Asks
    <2>2. CASE ~(a = "send_now" /\ k = m)
        BY <1>1, <2>2 DEF Asks
    <2> QED BY <2>1, <2>2
<1> QED BY <1>1, <1>2, <1>3, <1>4, <1>5

LEMMA AskSame ==
    ASSUME AskedFirst, UNCHANGED asks,
           \A b \in Asks, k \in Messages : SaidYes(b, k)' => SaidYes(b, k)
    PROVE  /\ \A b \in Asks, k \in Messages : Granted(b, k)' => Granted(b, k)
           /\ \A b \in Asks, k \in Messages : SaidYes(b, k)' => asks'[b][k] # "none"
           /\ Asked
BY DEF AskedFirst, Granted, Asked

\* The cancels in the feed after a line that is none is written.
LEMMA FeedAsked ==
    ASSUME AskedFirst, FeedShape,
           \/ feed' = feed
           \/ \E l \in FeedLine : /\ feed' = Append(feed, l)
                                  /\ l.type = "cancel" /\ l.ask \in Asks => asks'[l.ask][l.m] # "none",
           asks' \in [Asks -> [Messages -> AskStates]],
           \A b \in Asks, k \in Messages : SaidYes(b, k)' => asks'[b][k] # "none",
           \A b \in Asks, k \in Messages : asks[b][k] # "none" => asks'[b][k] # "none"
    PROVE  AskedFirst'
<1>1. \A n \in DOMAIN feed : feed[n].type = "cancel" => feed[n].m \in Messages
    BY FeedLineFields DEF FeedShape
<1>2. ASSUME NEW n \in DOMAIN feed', feed'[n].type = "cancel", feed'[n].ask \in Asks
      PROVE  asks'[feed'[n].ask][feed'[n].m] # "none"
    <2>1. CASE n \in DOMAIN feed /\ feed'[n] = feed[n]
        <3>1. feed[n].m \in Messages /\ asks[feed[n].ask][feed[n].m] # "none"
            BY <1>1, <1>2, <2>1 DEF AskedFirst
        <3> QED BY <1>2, <2>1, <3>1
    <2>2. CASE ~(n \in DOMAIN feed /\ feed'[n] = feed[n])
        <3>1. PICK l \in FeedLine : feed' = Append(feed, l)
                    /\ (l.type = "cancel" /\ l.ask \in Asks => asks'[l.ask][l.m] # "none")
            BY <2>2
        <3>2. feed'[n] = l
            <4>1. /\ Len(feed') = Len(feed) + 1 /\ feed' \in Seq(FeedLine)
                  /\ \A j \in 1..Len(feed) : feed'[j] = feed[j]
                  /\ feed'[Len(feed) + 1] = l
                BY <3>1, AppendProperties DEF FeedShape
            <4>2. n = Len(feed) + 1
                BY <2>2, <4>1 DEF FeedShape
            <4> QED BY <4>1, <4>2
        <3> QED BY <1>2, <3>1, <3>2
    <2> QED BY <2>1, <2>2
<1> QED BY <1>2 DEF AskedFirst

\* The feed takes a line while it is open, and only then.
LEMMA HandsOpen ==
    ASSUME Ends, FeedShape
    PROVE  (tx => Hands = {TRUE}) /\ (~tx => Hands = {FALSE})
BY DEF Ends, FeedShape, Hands

LEMMA WaitingIsOpen ==
    ASSUME Ends, NEW m, Waits(m)
    PROVE  tx /\ ~cli.eof /\ cli.doing # "exited" /\ engine = "reading"
BY DEF Ends, Waits

\* What a step that leaves a message's queue and out lines alone needs.
LEMMA RestSame ==
    ASSUME Running, Inv, UNCHANGED << cli, out >>,
           \A k \in Messages : InLine(k) \/ SaidStarted(k) => Holds(k), Asked
    PROVE  /\ QueuedOnce' /\ StartedOnce' /\ GoneFirst'
           /\ \A k \in Messages : (InLine(k)' <=> InLine(k)) /\ (SaidStarted(k)' <=> SaidStarted(k))
                                  /\ (SaidGone(k)' <=> SaidGone(k))
           /\ \A b \in Asks, k \in Messages : (SaidYes(b, k)' <=> SaidYes(b, k))
BY QueueSame, OutSame DEF Running, Inv, Shape

LEMMA EndsStay ==
    ASSUME Ends, UNCHANGED << cli, out, engine, left >>,
           ~tx' => DOMAIN waiting' = {}, tx' => tx, feed' = feed \/ tx
    PROVE  Ends'
BY DEF Ends

\* A command that writes no message's line.
LEMMA CommandLines ==
    ASSUME Inv, Running, UNCHANGED << cli, out >>, Asked,
           \A k \in Messages : Fed(k) \/ InLine(k) \/ SaidStarted(k) => Holds(k),
           feed' = feed \/ \E l \in FeedLine : feed' = Append(feed, l) /\ l.type # "user"
    PROVE  /\ FedOnce' /\ QueuedOnce' /\ StartedOnce' /\ GoneFirst'
           /\ \A k \in Messages : (Fed(k)' <=> Fed(k)) /\ (InLine(k)' <=> InLine(k))
                   /\ (SaidStarted(k)' <=> SaidStarted(k)) /\ (SaidGone(k)' <=> SaidGone(k))
           /\ \A b \in Asks, k \in Messages : (SaidYes(b, k)' <=> SaidYes(b, k))
<1>1. FedOnce' /\ \A k \in Messages : (Fed(k)' <=> Fed(k))
    <2>1. CASE feed' = feed
        BY <2>1, FeedSame DEF Running, Inv, Shape
    <2>2. CASE \E l \in FeedLine : feed' = Append(feed, l) /\ l.type # "user"
        <3>1. PICK l \in FeedLine : feed' = Append(feed, l) /\ l.type # "user"
            BY <2>2
        <3> QED BY <3>1, FeedMore DEF Running, Inv, Shape
    <2> QED BY <2>1, <2>2
<1> QED BY <1>1, RestSame

LEMMA CommandOnce ==
    ASSUME Inv, Running, NEW m \in Messages, UNCHANGED << cli, out, engine, reads >>, Asked,
           \A k \in Messages : Fed(k) \/ InLine(k) \/ SaidStarted(k) => Holds(k),
           \/ feed' = feed
           \/ tx /\ \E l \in FeedLine : /\ feed' = Append(feed, l) /\ l.type # "user"
                                        /\ l.type = "cancel" /\ l.ask \in Asks => asks'[l.ask][l.m] # "none",
           asks' \in [Asks -> [Messages -> AskStates]],
           \A b \in Asks, k \in Messages : SaidYes(b, k)' => asks'[b][k] # "none",
           \A b \in Asks, k \in Messages : asks[b][k] # "none" => asks'[b][k] # "none",
           \A k \in Messages \ {m} :
                /\ row'[k] = row[k] /\ (Waits(k)' <=> Waits(k))
                /\ k \in promoting => k \in promoting'
                /\ \A b \in Asks : asks'[b][k] = asks[b][k] /\ (Granted(b, k)' => Granted(b, k)),
           left' = left, ~tx' => DOMAIN waiting' = {}, tx' => tx,
           MessageOnce(m)'
    PROVE  Running'
<1>0. /\ feed' = feed \/ \E l \in FeedLine : feed' = Append(feed, l) /\ l.type # "user"
      /\ \/ feed' = feed
         \/ \E l \in FeedLine : /\ feed' = Append(feed, l)
                                /\ l.type = "cancel" /\ l.ask \in Asks => asks'[l.ask][l.m] # "none"
      /\ feed' = feed \/ tx
    <2>1. CASE feed' = feed
        BY <2>1
    <2>2. CASE feed' # feed
        <3>1. PICK l \in FeedLine : /\ feed' = Append(feed, l) /\ l.type # "user" /\ tx
                                    /\ l.type = "cancel" /\ l.ask \in Asks => asks'[l.ask][l.m] # "none"
            BY <2>2
        <3> QED BY <3>1
    <2> QED BY <2>1, <2>2
<1>1. /\ FedOnce' /\ QueuedOnce' /\ StartedOnce' /\ GoneFirst'
      /\ \A k \in Messages : (Fed(k)' <=> Fed(k)) /\ (InLine(k)' <=> InLine(k))
              /\ (SaidStarted(k)' <=> SaidStarted(k)) /\ (SaidGone(k)' <=> SaidGone(k))
    BY <1>0, CommandLines
<1> USE DEF Running
<1>2. AskedFirst'
    <2>1. FeedShape
        BY DEF Inv, Shape
    <2> QED BY <1>0, <2>1, FeedAsked
<1>3. \A k \in Messages : MessageOnce(k)'
    <2> SUFFICES ASSUME NEW k \in Messages \ {m} PROVE MessageOnce(k)'
        OBVIOUS
    <2>1. Still(k)
        BY <1>1 DEF Still
    <2> QED BY <2>1, StillOnce
<1>4. Ends'
    BY <1>0, EndsStay
<1> QED BY <1>1, <1>2, <1>3, <1>4

LEMMA InjectOnce ==
    ASSUME Inv, Running, NEW m \in Messages, Inject(m)
    PROVE  Running'
<1> USE DEF Running
<1>0. FeedShape /\ RowShape /\ WaitShape
    BY DEF Inv, Shape
<1>1. UNCHANGED << tx, promoting, left, asks, cli, out, engine, reads >> /\ row[m] \in {"typed", "held"}
    BY DEF Inject
<1>2. /\ ~Waits(m) /\ m \notin left /\ ~SaidGone(m) /\ \A a \in Asks : asks[a][m] = "none"
      /\ ~Fed(m) /\ ~InLine(m) /\ reads[m] = 0
    BY <1>1 DEF MessageOnce, RowOnce, Nowhere
<1>3. CASE tx
    <2>1. /\ waiting' = Under(m, 0) /\ feed' = Append(feed, User(m, 0))
          /\ row' = [row EXCEPT ![m] = "into"]
        <3>1. Hands = {TRUE}
            BY <1>0, <1>3, HandsOpen
        <3>2. PICK sent \in Hands :
                IF sent
                THEN /\ waiting' = Under(m, 0)
                     /\ feed' = Append(feed, User(m, 0))
                     /\ row' = [row EXCEPT ![m] = "into"]
                ELSE /\ row' = [row EXCEPT ![m] = "held"]
                     /\ UNCHANGED << waiting, feed >>
            BY DEF Inject
        <3> QED BY <3>1, <3>2
    <2>2. /\ Waits(m)' /\ waiting'[m] = 0
          /\ \A k \in Messages \ {m} : (Waits(k)' <=> Waits(k)) /\ Holds(k)
        BY <2>1, UnderHolds
    <2>3. ~SaidStarted(m)
        BY <1>2 DEF SaidStarted, StartedOnce
    <2>4. /\ QueuedOnce' /\ StartedOnce' /\ GoneFirst'
          /\ \A k \in Messages : (InLine(k)' <=> InLine(k)) /\ (SaidStarted(k)' <=> SaidStarted(k))
                                 /\ (SaidGone(k)' <=> SaidGone(k))
          /\ \A b \in Asks, k \in Messages : (SaidYes(b, k)' <=> SaidYes(b, k))
        BY <1>1, <1>2, <2>2, <2>3, RestSame DEF Asked
    <2>5. FedOnce' /\ \A k \in Messages \ {m} : (Fed(k)' <=> Fed(k))
        BY <1>0, <1>2, <2>1, <2>2, FeedUser DEF Wires
    <2>6. /\ \A b \in Asks, k \in Messages : Granted(b, k)' => Granted(b, k)
          /\ \A b \in Asks, k \in Messages : SaidYes(b, k)' => asks'[b][k] # "none"
        BY <1>1, <2>4, AskSame
    <2>7. AskedFirst'
        <3>1. User(m, 0) \in FeedLine /\ User(m, 0).type = "user"
            BY LinesAreLines, LineKinds DEF Wires
        <3>2. asks' \in [Asks -> [Messages -> AskStates]]
            BY <1>1 DEF AskedFirst
        <3>3. \E l \in FeedLine : feed' = Append(feed, l)
                    /\ (l.type = "cancel" /\ l.ask \in Asks => asks'[l.ask][l.m] # "none")
            BY <2>1, <3>1
        <3> QED BY <1>0, <1>1, <2>6, <3>2, <3>3, FeedAsked
    <2>8. \A k \in Messages \ {m} : MessageOnce(k)'
        <3> TAKE k \in Messages \ {m}
        <3>1. row'[k] = row[k]
            BY <1>0, <2>1 DEF RowShape
        <3>2. Still(k)
            BY <1>1, <2>2, <2>4, <2>5, <2>6, <3>1 DEF Still
        <3> QED BY <3>2, StillOnce
    <2>9. MessageOnce(m)'
        <3>1. row'[m] = "into"
            BY <1>0, <2>1 DEF RowShape
        <3>2. ~InLine(m)' /\ ~SaidGone(m)' /\ reads'[m] = 0 /\ m \notin left'
            BY <1>1, <1>2, <2>4
        <3>3. \A a \in Asks : asks'[a][m] = "none" /\ ~Granted(a, m)'
            BY <1>1, <1>2, <2>6 DEF Granted
        <3> QED BY <3>1, <3>2, <3>3 DEF MessageOnce, RowOnce, LineOnce, InboxOnce, Resending, TakenBack, Asks
    <2>10. Ends'
        BY <1>1, <1>3, EndsStay
    <2> QED BY <2>4, <2>5, <2>7, <2>8, <2>9, <2>10
<1>4. CASE ~tx
    <2>1. row' = [row EXCEPT ![m] = "held"] /\ UNCHANGED << waiting, feed >>
        BY <1>0, <1>4, HandsOpen DEF Inject
    <2>2. \A k \in Messages : (Waits(k)' <=> Waits(k)) /\ Holds(k)
        BY <2>1, SameHolds
    <2>4. /\ QueuedOnce' /\ StartedOnce' /\ GoneFirst'
          /\ \A k \in Messages : (InLine(k)' <=> InLine(k)) /\ (SaidStarted(k)' <=> SaidStarted(k))
                                 /\ (SaidGone(k)' <=> SaidGone(k))
          /\ \A b \in Asks, k \in Messages : (SaidYes(b, k)' <=> SaidYes(b, k))
        BY <1>1, <2>2, RestSame DEF Asked
    <2>5. FedOnce' /\ \A k \in Messages : (Fed(k)' <=> Fed(k))
        BY <1>0, <2>1, <2>2, FeedSame
    <2>6. /\ \A b \in Asks, k \in Messages : Granted(b, k)' => Granted(b, k)
          /\ \A b \in Asks, k \in Messages : SaidYes(b, k)' => asks'[b][k] # "none"
        BY <1>1, <2>4, AskSame
    <2>7. AskedFirst'
        BY <1>1, <2>1, <2>6 DEF AskedFirst
    <2>8. \A k \in Messages \ {m} : MessageOnce(k)'
        <3> TAKE k \in Messages \ {m}
        <3>1. row'[k] = row[k]
            BY <1>0, <2>1 DEF RowShape
        <3>2. Still(k)
            BY <1>1, <2>2, <2>4, <2>5, <2>6, <3>1 DEF Still
        <3> QED BY <3>2, StillOnce
    <2>9. MessageOnce(m)'
        <3>1. row'[m] = "held"
            BY <1>0, <2>1 DEF RowShape
        <3>2. ~InLine(m)' /\ ~SaidGone(m)' /\ reads'[m] = 0 /\ m \notin left' /\ ~Fed(m)' /\ ~Waits(m)'
            BY <1>1, <1>2, <2>2, <2>4, <2>5
        <3>3. \A a \in Asks : asks'[a][m] = "none" /\ ~Granted(a, m)'
            BY <1>1, <1>2, <2>6 DEF Granted
        <3> QED BY <3>1, <3>2, <3>3 DEF MessageOnce, RowOnce, LineOnce, InboxOnce, Resending, TakenBack, Nowhere, Asks
    <2>10. Ends'
        BY <1>1, <2>1, EndsStay DEF Ends
    <2> QED BY <2>4, <2>5, <2>7, <2>8, <2>9, <2>10
<1> QED BY <1>3, <1>4 DEF Inv, Shape, FeedShape

\* What a take back says.
LEMMA SaidAsks ==
    ASSUME Running, RowShape, NEW m \in Messages, NEW what \in {"his", "delivered"}, TakeBackSays(m, what),
           UNCHANGED out
    PROVE  /\ asks' \in [Asks -> [Messages -> AskStates]]
           /\ asks'["take_back"][m] = what /\ ~TakenBack(m)'
           /\ \A b \in Asks, k \in Messages :
                b # "take_back" \/ k # m => asks'[b][k] = asks[b][k] /\ (Granted(b, k)' => Granted(b, k))
           /\ \A b \in Asks, k \in Messages : SaidYes(b, k)' => asks'[b][k] # "none"
           /\ Asked
           /\ \A k \in Messages \ {m} : row'[k] = row[k]
           /\ row'[m] = IF what = "his" /\ row[m] \in {"into", "held"} THEN "box" ELSE row[m]
<1>1. asks' = [asks EXCEPT !["take_back"][m] = what] /\ "take_back" \in Asks
      /\ what \in {"out", "yes", "no", "his", "delivered", "done"} /\ what \notin {"out", "yes"}
    BY DEF TakeBackSays, Asks
<1>2. \A b \in Asks, k \in Messages : SaidYes(b, k)' => SaidYes(b, k)
    BY DEF SaidYes
<1>3. /\ \A k \in Messages \ {m} : row'[k] = row[k]
      /\ row'[m] = IF what = "his" /\ row[m] \in {"into", "held"} THEN "box" ELSE row[m]
    BY DEF TakeBackSays, RowShape
<1>4. /\ asks' \in [Asks -> [Messages -> AskStates]]
      /\ asks'["take_back"][m] = what
      /\ \A b \in Asks, k \in Messages : b # "take_back" \/ k # m => asks'[b][k] = asks[b][k]
      /\ \A b \in Asks, k \in Messages :
            b # "take_back" \/ k # m => (Granted(b, k)' => Granted(b, k))
      /\ ~Granted("take_back", m)'
      /\ \A b \in Asks, k \in Messages : SaidYes(b, k)' => asks'[b][k] # "none"
      /\ Asked
    <2>1. AskedFirst /\ (what = "out" => asks["take_back"][m] = "none")
        BY DEF Running
    <2> QED BY <1>1, <1>2, <2>1, AskSet
<1> QED BY <1>3, <1>4 DEF TakenBack

LEMMA TakeBackOnce ==
    ASSUME Inv, Running, NEW m \in Messages, TakeBack(m) \/ TakeBackUnregistered(m)
    PROVE  Running'
<1>0. FeedShape /\ RowShape /\ WaitShape
    BY DEF Inv, Shape
<1>1. /\ UNCHANGED << tx, waiting, promoting, left, cli, out, engine, reads >>
      /\ row[m] = "into" /\ asks["take_back"][m] = "none"
    BY DEF TakeBack, TakeBackUnregistered, inboxVars
<1>2. /\ \A k \in Messages : (Waits(k)' <=> Waits(k)) /\ Holds(k)
      /\ MessageOnce(m) /\ Ends /\ AskedFirst /\ ~SaidYes("take_back", m)
    BY <1>1, SameHolds DEF Running, AskedFirst, Asks
<1>3. CASE Waits(m) /\ m \notin left /\ TakeBack(m)
    <2>1. /\ feed' = Append(feed, Cancel("take_back", m, waiting[m])) /\ UNCHANGED row
          /\ asks' = [asks EXCEPT !["take_back"][m] = "out"] /\ tx
        <3>1. tx /\ Hands = {TRUE}
            BY <1>0, <1>2, <1>3, WaitingIsOpen, HandsOpen
        <3>2. PICK sent \in Hands :
                IF sent
                THEN /\ feed' = Append(feed, Cancel("take_back", m, waiting[m]))
                     /\ asks' = [asks EXCEPT !["take_back"][m] = "out"]
                     /\ UNCHANGED row
                ELSE TakeBackSays(m, "his") /\ UNCHANGED feed
            BY <1>3 DEF TakeBack
        <3> QED BY <3>1, <3>2
    <2>2. \A b \in Asks, k \in Messages : SaidYes(b, k)' <=> SaidYes(b, k)
        BY <1>1 DEF SaidYes
    <2>3. /\ asks' \in [Asks -> [Messages -> AskStates]]
          /\ asks'["take_back"][m] = "out"
          /\ \A b \in Asks, k \in Messages :
               b # "take_back" \/ k # m => asks'[b][k] = asks[b][k] /\ (Granted(b, k)' => Granted(b, k))
          /\ \A b \in Asks, k \in Messages : SaidYes(b, k)' => asks'[b][k] # "none"
          /\ Asked
        <3>1. /\ "take_back" \in Asks /\ "out" \in {"out", "yes", "no", "his", "delivered", "done"}
              /\ \A b \in Asks, k \in Messages : SaidYes(b, k)' => SaidYes(b, k)
              /\ AskedFirst /\ ("out" = "out" => asks["take_back"][m] = "none")
            BY <1>1, <1>2, <2>2 DEF Asks
        <3>2. asks' = [asks EXCEPT !["take_back"][m] = "out"]
            BY <2>1
        <3>3. /\ asks' \in [Asks -> [Messages -> AskStates]]
              /\ asks'["take_back"][m] = "out"
              /\ \A b \in Asks, k \in Messages :
                    b # "take_back" \/ k # m => asks'[b][k] = asks[b][k]
              /\ \A b \in Asks, k \in Messages :
                    b # "take_back" \/ k # m => (Granted(b, k)' => Granted(b, k))
              /\ \A b \in Asks, k \in Messages : SaidYes(b, k)' => asks'[b][k] # "none"
              /\ Asked
            BY <3>1, <3>2, AskSet
        <3> QED BY <3>3
    <2>4. ~TakenBack(m)'
        BY <1>2, <2>2, <2>3 DEF TakenBack, Granted, Asks
    <2>5. \E l \in FeedLine : /\ feed' = Append(feed, l) /\ l.type # "user"
                              /\ l.type = "cancel" /\ l.ask \in Asks => asks'[l.ask][l.m] # "none"
        <3>1. waiting[m] \in Wires
            BY <1>0, <1>3 DEF WaitShape, Waits
        <3>2. Cancel("take_back", m, waiting[m]) \in FeedLine
            BY <3>1, LinesAreLines DEF Asks
        <3> QED BY <2>1, <2>3, <3>2, LineKinds
    <2>6. /\ \A k \in Messages : (Fed(k)' <=> Fed(k)) /\ (InLine(k)' <=> InLine(k))
                  /\ (SaidStarted(k)' <=> SaidStarted(k)) /\ (SaidGone(k)' <=> SaidGone(k))
        <3>1. \E l \in FeedLine : feed' = Append(feed, l) /\ l.type # "user"
            BY <2>5
        <3> QED BY <1>1, <1>2, <2>3, <3>1, CommandLines
    <2>7. MessageOnce(m)'
        <3>1. /\ \A b \in Asks : Granted(b, m)' => Granted(b, m)
              /\ asks'["send_now"][m] = asks["send_now"][m]
            BY <2>3, <2>4 DEF TakenBack, Asks
        <3> QED BY <1>1, <1>2, <2>1, <2>6, <3>1
            DEF MessageOnce, RowOnce, LineOnce, InboxOnce, Nowhere, Resending, TakenBack, Asks
    <2>8. /\ \A b \in Asks, k \in Messages : asks[b][k] # "none" => asks'[b][k] # "none"
          /\ \A k \in Messages \ {m} :
                \A b \in Asks : asks'[b][k] = asks[b][k] /\ (Granted(b, k)' => Granted(b, k))
        BY <1>1, <2>3
    <2>9. ~tx' => DOMAIN waiting' = {}
        BY <1>1, <2>1
    <2> QED BY <1>1, <1>2, <2>1, <2>3, <2>5, <2>7, <2>8, <2>9, CommandOnce
<1>4. CASE ~(Waits(m) /\ m \notin left /\ TakeBack(m))
    <2>1. PICK what \in {"his", "delivered"} :
            /\ TakeBackSays(m, what) /\ UNCHANGED feed
            /\ what = "his" => m \in left \/ engine = "returning"
        BY <1>4 DEF TakeBack, TakeBackUnregistered
    <2>2. /\ asks' \in [Asks -> [Messages -> AskStates]]
          /\ asks'["take_back"][m] = what /\ ~TakenBack(m)'
          /\ \A b \in Asks, k \in Messages :
               b # "take_back" \/ k # m => asks'[b][k] = asks[b][k] /\ (Granted(b, k)' => Granted(b, k))
          /\ \A b \in Asks, k \in Messages : SaidYes(b, k)' => asks'[b][k] # "none"
          /\ Asked
          /\ \A k \in Messages \ {m} : row'[k] = row[k]
          /\ row'[m] = IF what = "his" /\ row[m] \in {"into", "held"} THEN "box" ELSE row[m]
        BY <1>0, <1>1, <2>1, SaidAsks
    <2>3. /\ \A k \in Messages : (Fed(k)' <=> Fed(k)) /\ (InLine(k)' <=> InLine(k))
                  /\ (SaidStarted(k)' <=> SaidStarted(k)) /\ (SaidGone(k)' <=> SaidGone(k))
        BY <1>1, <1>2, <2>1, <2>2, CommandLines
    <2>4. MessageOnce(m)'
        <3>1. /\ \A b \in Asks : Granted(b, m)' => Granted(b, m)
              /\ asks'["send_now"][m] = asks["send_now"][m] /\ asks'["take_back"][m] # "none"
            BY <2>2 DEF TakenBack, Asks
        <3>2. CASE what = "delivered"
            <4>1. row'[m] = "into"
                BY <1>1, <2>2, <3>2
            <4> QED BY <1>1, <1>2, <2>3, <3>1, <4>1
                DEF MessageOnce, RowOnce, LineOnce, InboxOnce, Nowhere, Resending, TakenBack, Asks
        <3>3. CASE what = "his"
            <4>1. row'[m] = "box"
                BY <1>1, <2>2, <3>3
            <4>2. Nowhere(m) /\ ~Waits(m)
                <5>1. CASE m \in left
                    BY <1>2, <5>1 DEF MessageOnce, InboxOnce
                <5>2. CASE engine = "returning"
                    <6>1. ~Waits(m) /\ cli.queue = << >> /\ feed = << >> /\ out = << >>
                        BY <1>2, <5>2 DEF Ends, Waits
                    <6>2. ~Fed(m) /\ ~InLine(m) /\ ~SaidStarted(m)
                        BY <6>1 DEF Fed, InLine, SaidStarted
                    <6>3. reads[m] = 0
                        BY <1>1, <1>2, <6>2 DEF MessageOnce, RowOnce, LineOnce, Inv, Shape, CliShape
                    <6> QED BY <6>1, <6>2, <6>3 DEF Nowhere, Resending
                <5> QED BY <2>1, <3>3, <5>1, <5>2
            <4> QED BY <1>1, <1>2, <2>3, <3>1, <4>1, <4>2
                DEF MessageOnce, RowOnce, LineOnce, InboxOnce, Nowhere, Resending, TakenBack, Asks
        <3> QED BY <3>2, <3>3
    <2>5. /\ \A b \in Asks, k \in Messages : asks[b][k] # "none" => asks'[b][k] # "none"
          /\ \A k \in Messages \ {m} :
                \A b \in Asks : asks'[b][k] = asks[b][k] /\ (Granted(b, k)' => Granted(b, k))
        BY <1>1, <2>2
    <2>6. ~tx' => DOMAIN waiting' = {}
        BY <1>1, <1>2 DEF Ends
    <2> QED BY <1>1, <1>2, <2>1, <2>2, <2>4, <2>5, <2>6, CommandOnce
<1> QED BY <1>3, <1>4

\* A message whose take back was granted has no line, and cannot get one.
LEMMA TakenBackIsNowhere ==
    ASSUME Running, NEW m \in Messages, TakenBack(m), CliShape
    PROVE  Nowhere(m)
BY DEF Running, MessageOnce, LineOnce, Nowhere, CliShape

LEMMA TakeBackEndsOnce ==
    ASSUME Inv, Running, NEW m \in Messages, TakeBackEnds(m)
    PROVE  Running'
<1>0. FeedShape /\ RowShape /\ WaitShape /\ CliShape /\ Given
    BY DEF Inv, Shape
<1>1. UNCHANGED << left, cli, out, engine, reads >> /\ asks["take_back"][m] # "none"
    BY DEF TakeBackEnds, Settled
<1>2. MessageOnce(m) /\ Ends
    BY DEF Running
<1>3. PICK what \in {"his", "delivered"} : TakeBackSays(m, what)
    BY DEF TakeBackEnds
<1>4. /\ asks' \in [Asks -> [Messages -> AskStates]]
      /\ asks'["take_back"][m] = what /\ ~TakenBack(m)'
      /\ \A b \in Asks, k \in Messages :
           b # "take_back" \/ k # m => asks'[b][k] = asks[b][k] /\ (Granted(b, k)' => Granted(b, k))
      /\ \A b \in Asks, k \in Messages : SaidYes(b, k)' => asks'[b][k] # "none"
      /\ Asked
      /\ \A k \in Messages \ {m} : row'[k] = row[k]
      /\ row'[m] = IF what = "his" /\ row[m] \in {"into", "held"} THEN "box" ELSE row[m]
    BY <1>0, <1>1, <1>3, SaidAsks
<1>5. /\ \A b \in Asks, k \in Messages : asks[b][k] # "none" => asks'[b][k] # "none"
      /\ \A k \in Messages \ {m} :
            \A b \in Asks : asks'[b][k] = asks[b][k] /\ (Granted(b, k)' => Granted(b, k))
    BY <1>1, <1>4
<1>6. /\ \A b \in Asks : Granted(b, m)' => Granted(b, m)
      /\ asks'["send_now"][m] = asks["send_now"][m] /\ asks'["take_back"][m] # "none"
    BY <1>4 DEF TakenBack, Asks
<1>7. CASE TakeBackYes(m)
    <2>1. waiting' = Without(m) /\ promoting' = promoting \ {m} /\ CloseIfIdle(Without(m))
        BY <1>7 DEF TakeBackEnds
    <2>2. Nowhere(m) /\ ~SaidStarted(m)
        <3>1. TakenBack(m)
            BY <1>7 DEF TakenBack, Granted, TakeBackYes
        <3>2. Nowhere(m)
            BY <1>0, <3>1, TakenBackIsNowhere
        <3>3. \A n \in DOMAIN out : out[n].type = "started" => reads[out[n].m] > 0
            BY <1>0 DEF Given
        <3> QED BY <3>2, <3>3 DEF Nowhere, SaidStarted
    <2>3. ~Waits(m)' /\ \A k \in Messages \ {m} : (Waits(k)' <=> Waits(k)) /\ Holds(k)
        BY <2>1, WithoutHolds
    <2>4. \A k \in Messages : Fed(k) \/ InLine(k) \/ SaidStarted(k) => Holds(k)
        BY <2>2, <2>3 DEF Nowhere
    <2>5. \/ UNCHANGED << tx, feed >>
          \/ tx /\ tx' = FALSE /\ feed' = Append(feed, Eof) /\ waiting' = << >>
        BY <2>1 DEF CloseIfIdle
    <2>6. \/ feed' = feed
          \/ tx /\ \E l \in FeedLine : /\ feed' = Append(feed, l) /\ l.type # "user"
                                       /\ l.type = "cancel" /\ l.ask \in Asks => asks'[l.ask][l.m] # "none"
        BY <2>5, LinesAreLines, LineKinds
    <2>7. (~tx' => DOMAIN waiting' = {}) /\ (tx' => tx)
        <3>1. DOMAIN waiting' \subseteq DOMAIN waiting
            BY <2>1 DEF Without
        <3>2. waiting' = << >> => DOMAIN waiting' = {}
            BY NoneWait
        <3>3. ~tx => DOMAIN waiting = {}
            BY <1>2 DEF Ends
        <3>4. CASE UNCHANGED << tx, feed >>
            BY <3>1, <3>3, <3>4
        <3>5. CASE tx /\ tx' = FALSE /\ waiting' = << >>
            BY <3>2, <3>5
        <3> QED BY <2>5, <3>4, <3>5
    <2>8. MessageOnce(m)'
        <3>1. /\ (Fed(m)' <=> Fed(m)) /\ (InLine(m)' <=> InLine(m))
              /\ (SaidStarted(m)' <=> SaidStarted(m)) /\ (SaidGone(m)' <=> SaidGone(m))
            <4>1. feed' = feed \/ \E l \in FeedLine : feed' = Append(feed, l) /\ l.type # "user"
                BY <2>5, LinesAreLines, LineKinds
            <4> QED BY <1>1, <1>4, <2>4, <4>1, CommandLines
        <3>2. row'[m] \notin {"typed", "held"}
            BY <1>2, <1>1, <1>4, <2>3, <1>3, <1>7
               DEF MessageOnce, RowOnce, TakeBackEnds, TakeBackSays, RowShape, Asks
        <3> QED BY <1>1, <1>2, <1>6, <2>2, <2>3, <3>1, <3>2
            DEF MessageOnce, RowOnce, LineOnce, InboxOnce, Nowhere, Resending, TakenBack, Asks
    <2>9. \A k \in Messages \ {m} :
            /\ row'[k] = row[k] /\ (Waits(k)' <=> Waits(k))
            /\ k \in promoting => k \in promoting'
            /\ \A b \in Asks : asks'[b][k] = asks[b][k] /\ (Granted(b, k)' => Granted(b, k))
        BY <1>4, <1>5, <2>1, <2>3
    <2> QED BY <1>1, <1>4, <1>5, <2>4, <2>6, <2>7, <2>8, <2>9, CommandOnce
<1>8. CASE ~TakeBackYes(m)
    <2>1. /\ UNCHANGED << tx, waiting, promoting, feed >>
          /\ what = "his" => m \in left
        BY <1>3, <1>4, <1>8 DEF TakeBackEnds, TakeBackSays, Running, AskedFirst, Asks
    <2>2. \A k \in Messages : (Waits(k)' <=> Waits(k)) /\ Holds(k)
        BY <2>1, SameHolds
    <2>3. /\ (Fed(m)' <=> Fed(m)) /\ (InLine(m)' <=> InLine(m))
          /\ (SaidStarted(m)' <=> SaidStarted(m)) /\ (SaidGone(m)' <=> SaidGone(m))
        BY <1>1, <1>4, <2>1, <2>2, CommandLines
    <2>4. MessageOnce(m)'
        <3>1. row'[m] \notin {"typed", "held"} /\ (row'[m] = "into" => row[m] = "into")
              /\ (row'[m] = "box" => row[m] = "box" \/ m \in left) /\ (row[m] = "into" => row'[m] = "into" \/ m \in left)
            BY <1>1, <1>2, <1>4, <2>1 DEF MessageOnce, RowOnce, Asks
        <3> QED BY <1>1, <1>2, <1>6, <2>1, <2>2, <2>3, <3>1
            DEF MessageOnce, RowOnce, LineOnce, InboxOnce, Nowhere, Resending, TakenBack, Asks
    <2>5. (~tx' => DOMAIN waiting' = {}) /\ (tx' => tx)
        BY <1>2, <2>1 DEF Ends
    <2>6. \A k \in Messages \ {m} :
            /\ row'[k] = row[k] /\ (Waits(k)' <=> Waits(k))
            /\ k \in promoting => k \in promoting'
            /\ \A b \in Asks : asks'[b][k] = asks[b][k] /\ (Granted(b, k)' => Granted(b, k))
        BY <1>4, <1>5, <2>1, <2>2
    <2> QED BY <1>1, <1>4, <1>5, <2>1, <2>2, <2>4, <2>5, <2>6, CommandOnce
<1> QED BY <1>7, <1>8

LEMMA SendNowOnce ==
    ASSUME Inv, Running, NEW m \in Messages, SendNow(m)
    PROVE  Running'
<1>0. FeedShape /\ RowShape /\ WaitShape /\ CliShape
    BY DEF Inv, Shape
<1>1. /\ UNCHANGED << row, tx, waiting, left, cli, out, engine, reads >>
      /\ row[m] = "into" /\ asks["send_now"][m] = "none"
    BY DEF SendNow
<1>2. /\ MessageOnce(m) /\ Ends /\ AskedFirst /\ ~SaidYes("send_now", m)
      /\ \A k \in Messages : (Waits(k)' <=> Waits(k)) /\ Holds(k)
    BY <1>1, SameHolds DEF Running, AskedFirst, Asks
<1>3. PICK v \in {"out", "done"} :
        /\ asks' = [asks EXCEPT !["send_now"][m] = v]
        /\ v = "out" => /\ Waits(m) /\ feed' = Append(feed, Cancel("send_now", m, waiting[m]))
                        /\ promoting' = promoting \cup {m}
        /\ v = "done" => UNCHANGED << feed, promoting >>
    <2>1. PICK sent \in Hands :
            IF Waits(m) /\ m \notin left /\ sent
            THEN /\ feed' = Append(feed, Cancel("send_now", m, waiting[m]))
                 /\ asks' = [asks EXCEPT !["send_now"][m] = "out"]
                 /\ promoting' = promoting \cup {m}
            ELSE /\ asks' = [asks EXCEPT !["send_now"][m] = "done"]
                 /\ UNCHANGED << feed, promoting >>
        BY DEF SendNow
    <2>2. CASE Waits(m) /\ m \notin left /\ sent
        <3> WITNESS "out" \in {"out", "done"}
        <3> QED BY <2>1, <2>2
    <2>3. CASE ~(Waits(m) /\ m \notin left /\ sent)
        <3> WITNESS "done" \in {"out", "done"}
        <3> QED BY <2>1, <2>3
    <2> QED BY <2>2, <2>3
<1>4. /\ asks' \in [Asks -> [Messages -> AskStates]]
      /\ asks'["send_now"][m] = v
      /\ \A b \in Asks, k \in Messages : b # "send_now" \/ k # m => asks'[b][k] = asks[b][k]
      /\ \A b \in Asks, k \in Messages : b # "send_now" \/ k # m => (Granted(b, k)' => Granted(b, k))
      /\ \A b \in Asks, k \in Messages : SaidYes(b, k)' => asks'[b][k] # "none"
      /\ Asked
    <2>1. /\ "send_now" \in Asks /\ v \in {"out", "yes", "no", "his", "delivered", "done"}
          /\ \A b \in Asks, k \in Messages : SaidYes(b, k)' => SaidYes(b, k)
          /\ AskedFirst /\ (v = "out" => asks["send_now"][m] = "none")
        BY <1>1, <1>2 DEF Asks, SaidYes
    <2>2. asks' = [asks EXCEPT !["send_now"][m] = v]
        BY <1>3
    <2>3. /\ \A b \in Asks, k \in Messages : SaidYes(b, k)' => SaidYes(b, k)
          /\ AskedFirst /\ "send_now" \in Asks
        BY <2>1
    <2>4. CASE v = "out"
        <3>1. asks' = [asks EXCEPT !["send_now"][m] = "out"]
              /\ "out" \in {"out", "yes", "no", "his", "delivered", "done"}
              /\ ("out" = "out" => asks["send_now"][m] = "none")
            BY <1>1, <2>2, <2>4
        <3>2. /\ asks' \in [Asks -> [Messages -> AskStates]]
              /\ asks'["send_now"][m] = "out"
              /\ \A b \in Asks, k \in Messages : b # "send_now" \/ k # m => asks'[b][k] = asks[b][k]
              /\ \A b \in Asks, k \in Messages : b # "send_now" \/ k # m => (Granted(b, k)' => Granted(b, k))
              /\ \A b \in Asks, k \in Messages : SaidYes(b, k)' => asks'[b][k] # "none"
              /\ Asked
            BY <2>3, <3>1, AskSet
        <3> QED BY <2>4, <3>2
    <2>5. CASE v = "done"
        <3>1. asks' = [asks EXCEPT !["send_now"][m] = "done"]
              /\ "done" \in {"out", "yes", "no", "his", "delivered", "done"}
              /\ ("done" = "out" => asks["send_now"][m] = "none")
            BY <2>2, <2>5
        <3>2. /\ asks' \in [Asks -> [Messages -> AskStates]]
              /\ asks'["send_now"][m] = "done"
              /\ \A b \in Asks, k \in Messages : b # "send_now" \/ k # m => asks'[b][k] = asks[b][k]
              /\ \A b \in Asks, k \in Messages : b # "send_now" \/ k # m => (Granted(b, k)' => Granted(b, k))
              /\ \A b \in Asks, k \in Messages : SaidYes(b, k)' => asks'[b][k] # "none"
              /\ Asked
            BY <2>3, <3>1, AskSet
        <3> QED BY <2>5, <3>2
    <2> QED BY <2>4, <2>5
<1>5. ~Granted("send_now", m)'
    BY <1>1, <1>2, <1>4 DEF Granted, SaidYes
<1>6. \/ feed' = feed
      \/ tx /\ \E l \in FeedLine : /\ feed' = Append(feed, l) /\ l.type # "user"
                                   /\ l.type = "cancel" /\ l.ask \in Asks => asks'[l.ask][l.m] # "none"
    <2>1. CASE v = "out"
        <3>1. waiting[m] \in Wires /\ tx
            BY <1>0, <1>2, <1>3, <2>1, WaitingIsOpen DEF WaitShape, Waits
        <3>2. Cancel("send_now", m, waiting[m]) \in FeedLine
            BY <3>1, LinesAreLines DEF Asks
        <3>3. /\ Cancel("send_now", m, waiting[m]).type = "cancel"
              /\ Cancel("send_now", m, waiting[m]).ask = "send_now"
              /\ Cancel("send_now", m, waiting[m]).m = m
            BY DEF Cancel
        <3>4. asks'["send_now"][m] # "none"
            BY <1>4, <2>1
        <3> DEFINE l == Cancel("send_now", m, waiting[m])
        <3>5. l \in FeedLine /\ feed' = Append(feed, l) /\ l.type # "user"
              /\ (l.type = "cancel" /\ l.ask \in Asks => asks'[l.ask][l.m] # "none")
            BY <1>3, <2>1, <3>2, <3>3, <3>4
        <3> HIDE DEF l
        <3> QED BY <3>1, <3>5
    <2> QED BY <1>3, <2>1
<1>7. /\ (Fed(m)' <=> Fed(m)) /\ (InLine(m)' <=> InLine(m))
      /\ (SaidStarted(m)' <=> SaidStarted(m)) /\ (SaidGone(m)' <=> SaidGone(m))
    <2>1. feed' = feed \/ \E l \in FeedLine : feed' = Append(feed, l) /\ l.type # "user"
        BY <1>6
    <2> QED BY <1>1, <1>2, <1>4, <2>1, CommandLines
<1>8. MessageOnce(m)'
    <2>1. Granted("take_back", m)' => Granted("take_back", m)
        BY <1>4 DEF Asks
    <2>2. asks'["send_now"][m] \in {"out", "yes"} => m \in promoting'
        BY <1>3, <1>4
    <2>3. asks'["send_now"][m] # "yes"
        BY <1>4
    <2> QED BY <1>1, <1>2, <1>5, <1>7, <2>1, <2>2, <2>3
        DEF MessageOnce, RowOnce, LineOnce, InboxOnce, Nowhere, Resending, TakenBack, Asks
<1>9. /\ \A b \in Asks, k \in Messages : asks[b][k] # "none" => asks'[b][k] # "none"
      /\ \A k \in Messages \ {m} :
            /\ row'[k] = row[k] /\ (Waits(k)' <=> Waits(k))
            /\ k \in promoting => k \in promoting'
            /\ \A b \in Asks : asks'[b][k] = asks[b][k] /\ (Granted(b, k)' => Granted(b, k))
    <2>1. \A k \in Messages \ {m} : k \in promoting => k \in promoting'
        BY <1>3
    <2> QED BY <1>1, <1>2, <1>3, <1>4, <2>1
<1>10. (~tx' => DOMAIN waiting' = {}) /\ (tx' => tx)
    BY <1>1, <1>2 DEF Ends
<1> QED BY <1>1, <1>2, <1>4, <1>6, <1>8, <1>9, <1>10, CommandOnce

LEMMA SendNowEndsOnce ==
    ASSUME Inv, Running, NEW m \in Messages, SendNowEnds(m)
    PROVE  Running'
<1>0. FeedShape /\ RowShape /\ WaitShape /\ CliShape
    BY DEF Inv, Shape
<1>1. /\ UNCHANGED << row, tx, cli, out, engine, reads >>
      /\ asks["send_now"][m] # "none" /\ promoting' = promoting \ {m}
      /\ asks' = [asks EXCEPT !["send_now"][m] = "done"]
    BY DEF SendNowEnds, Settled
<1>2. MessageOnce(m) /\ Ends /\ AskedFirst
    BY DEF Running
<1>4. /\ asks' \in [Asks -> [Messages -> AskStates]]
      /\ asks'["send_now"][m] = "done"
      /\ \A b \in Asks, k \in Messages : b # "send_now" \/ k # m => asks'[b][k] = asks[b][k]
      /\ \A b \in Asks, k \in Messages : b # "send_now" \/ k # m => (Granted(b, k)' => Granted(b, k))
      /\ ~Granted("send_now", m)'
      /\ \A b \in Asks, k \in Messages : SaidYes(b, k)' => asks'[b][k] # "none"
      /\ Asked
    <2>1. /\ "send_now" \in Asks /\ "done" \in {"out", "yes", "no", "his", "delivered", "done"}
          /\ \A b \in Asks, k \in Messages : SaidYes(b, k)' => SaidYes(b, k)
          /\ "done" \notin {"out", "yes"} /\ ("done" = "out" => asks["send_now"][m] = "none")
        BY <1>1 DEF Asks, SaidYes
    <2>2. /\ asks' \in [Asks -> [Messages -> AskStates]]
          /\ asks'["send_now"][m] = "done"
          /\ \A b \in Asks, k \in Messages : b # "send_now" \/ k # m => asks'[b][k] = asks[b][k]
          /\ \A b \in Asks, k \in Messages : b # "send_now" \/ k # m => (Granted(b, k)' => Granted(b, k))
          /\ "done" \notin {"out", "yes"} => ~Granted("send_now", m)'
          /\ \A b \in Asks, k \in Messages : SaidYes(b, k)' => asks'[b][k] # "none"
          /\ Asked
        BY <1>1, <1>2, <2>1, AskSet
    <2> QED BY <2>1, <2>2
<1>5. /\ \A b \in Asks, k \in Messages : asks[b][k] # "none" => asks'[b][k] # "none"
      /\ \A k \in Messages \ {m} :
            \A b \in Asks : asks'[b][k] = asks[b][k] /\ (Granted(b, k)' => Granted(b, k))
    BY <1>1, <1>4
<1>6. Granted("take_back", m)' => Granted("take_back", m)
    BY <1>4 DEF Asks
<1>7. CASE Waits(m) /\ Resend(m)
    <2>1. waiting' = Under(m, 1) /\ feed' = Append(feed, User(m, 1)) /\ UNCHANGED left /\ tx
        <3>1. tx /\ Hands = {TRUE}
            BY <1>0, <1>2, <1>7, WaitingIsOpen, HandsOpen
        <3>2. PICK sent \in Hands :
                IF sent
                THEN /\ waiting' = Under(m, 1)
                     /\ feed' = Append(feed, User(m, 1))
                     /\ UNCHANGED left
                ELSE /\ waiting' = Without(m)
                     /\ left' = left \cup {m}
                     /\ UNCHANGED feed
            BY <1>7 DEF SendNowEnds
        <3> QED BY <3>1, <3>2
    <2>2. /\ Waits(m)' /\ waiting'[m] = 1
          /\ \A k \in Messages \ {m} : (Waits(k)' <=> Waits(k)) /\ Holds(k)
        BY <2>1, UnderHolds
    <2>3. /\ ~Fed(m) /\ ~InLine(m) /\ reads[m] = 0 /\ ~TakenBack(m) /\ ~SaidGone(m)
          /\ row[m] = "into" /\ m \notin left
        <3>1. Resending(m) /\ asks["send_now"][m] = "yes"
            BY <1>7 DEF Resending, Granted, Resend
        <3> QED BY <1>0, <1>2, <1>7, <3>1 DEF MessageOnce, LineOnce, InboxOnce, CliShape
    <2>4. ~SaidStarted(m)
        BY <2>3 DEF SaidStarted, Inv, Given
    <2>5. FedOnce' /\ \A k \in Messages \ {m} : (Fed(k)' <=> Fed(k))
        BY <1>0, <2>1, <2>2, <2>3, FeedUser DEF Wires, Running
    <2>6. /\ QueuedOnce' /\ StartedOnce' /\ GoneFirst'
          /\ \A k \in Messages : (InLine(k)' <=> InLine(k)) /\ (SaidStarted(k)' <=> SaidStarted(k))
                                 /\ (SaidGone(k)' <=> SaidGone(k))
        BY <1>1, <1>4, <2>2, <2>3, <2>4, RestSame
    <2>7. AskedFirst'
        <3>1. User(m, 1) \in FeedLine /\ User(m, 1).type = "user"
            BY LinesAreLines, LineKinds DEF Wires
        <3>2. \E l \in FeedLine : feed' = Append(feed, l)
                    /\ (l.type = "cancel" /\ l.ask \in Asks => asks'[l.ask][l.m] # "none")
            BY <2>1, <3>1
        <3> QED BY <1>0, <1>2, <1>4, <1>5, <3>2, FeedAsked
    <2>8. \A k \in Messages \ {m} : MessageOnce(k)'
        <3> TAKE k \in Messages \ {m}
        <3>1. k \in promoting => k \in promoting'
            BY <1>1
        <3>2. Still(k)
            BY <1>1, <1>5, <2>1, <2>2, <2>5, <2>6, <3>1 DEF Still
        <3> QED BY <3>2, StillOnce DEF Running
    <2>9. MessageOnce(m)'
        BY <1>1, <1>2, <1>4, <1>6, <2>1, <2>2, <2>3, <2>6
           DEF MessageOnce, RowOnce, LineOnce, InboxOnce, Nowhere, Resending, TakenBack, Asks
    <2>10. Ends'
        BY <1>1, <1>2, <2>1, EndsStay
    <2> QED BY <2>5, <2>6, <2>7, <2>8, <2>9, <2>10 DEF Running
<1>8. CASE ~(Waits(m) /\ Resend(m))
    <2>1. UNCHANGED << waiting, feed, left >>
        BY <1>8 DEF SendNowEnds
    <2>2. \A k \in Messages : (Waits(k)' <=> Waits(k)) /\ Holds(k)
        BY <2>1, SameHolds
    <2>3. /\ (Fed(m)' <=> Fed(m)) /\ (InLine(m)' <=> InLine(m))
          /\ (SaidStarted(m)' <=> SaidStarted(m)) /\ (SaidGone(m)' <=> SaidGone(m))
        BY <1>1, <1>4, <2>1, <2>2, CommandLines
    <2>4. MessageOnce(m)'
        <3>1. row[m] \notin {"typed", "held"}
            BY <1>1, <1>2 DEF MessageOnce, RowOnce, Asks
        <3> QED BY <1>1, <1>2, <1>4, <1>6, <2>1, <2>2, <2>3, <3>1
            DEF MessageOnce, RowOnce, LineOnce, InboxOnce, Nowhere, Resending, TakenBack, Asks
    <2>5. (~tx' => DOMAIN waiting' = {}) /\ (tx' => tx)
        BY <1>1, <1>2, <2>1 DEF Ends
    <2>6. \A k \in Messages \ {m} :
            /\ row'[k] = row[k] /\ (Waits(k)' <=> Waits(k))
            /\ k \in promoting => k \in promoting'
            /\ \A b \in Asks : asks'[b][k] = asks[b][k] /\ (Granted(b, k)' => Granted(b, k))
        BY <1>1, <1>5, <2>2
    <2> QED BY <1>1, <1>4, <1>5, <2>1, <2>2, <2>4, <2>5, <2>6, CommandOnce
<1> QED BY <1>7, <1>8

----------------------------------------------------------------------------

\* The engine reads a line that writes no message's line.
LEMMA ReadLines ==
    ASSUME Inv, Running, out # << >>, out' = Tail(out), UNCHANGED cli, Asked,
           \A k \in Messages : Fed(k) \/ InLine(k) \/ SaidStarted(k)' => Holds(k),
           feed' = feed \/ feed' = Append(feed, Eof)
    PROVE  /\ FedOnce' /\ QueuedOnce' /\ StartedOnce' /\ GoneFirst'
           /\ \A k \in Messages : (Fed(k)' <=> Fed(k)) /\ (InLine(k)' <=> InLine(k))
                                  /\ (SaidGone(k)' => SaidGone(k))
           /\ \A b \in Asks, k \in Messages : SaidYes(b, k)' => SaidYes(b, k)
<1>0. FeedShape /\ CliShape
    BY DEF Inv, Shape
<1>1. FedOnce' /\ \A k \in Messages : (Fed(k)' <=> Fed(k))
    <2>1. CASE feed' = feed
        BY <1>0, <2>1, FeedSame DEF Running
    <2>2. CASE feed' = Append(feed, Eof)
        <3>1. Eof \in FeedLine /\ Eof.type # "user"
            BY LinesAreLines, LineKinds
        <3> QED BY <1>0, <2>2, <3>1, FeedMore DEF Running
    <2> QED BY <2>1, <2>2
<1>2. QueuedOnce' /\ \A k \in Messages : (InLine(k)' <=> InLine(k))
    BY <1>0, QueueSame DEF Running
<1>3. /\ GoneFirst'
      /\ \A n \in DOMAIN out' : n + 1 \in DOMAIN out /\ out'[n] = out[n + 1] /\ n \in Nat \ {0}
      /\ \A k \in Messages : SaidGone(k)' => SaidGone(k)
      /\ \A b \in Asks, k \in Messages : SaidYes(b, k)' => SaidYes(b, k)
    BY <1>0, OutLess DEF Running
<1>4. StartedOnce'
    BY <1>0, <1>3, OutLessStarted DEF Running
<1> QED BY <1>1, <1>2, <1>3, <1>4

LEMMA EndsRead ==
    ASSUME Ends, out # << >>, out' = Tail(out), CliShape, UNCHANGED << cli, engine >>, engine = "reading",
           ~tx' => DOMAIN waiting' = {}, tx' => tx, feed' = feed \/ tx
    PROVE  Ends'
<1>1. /\ Len(out') = Len(out) - 1 /\ out \in Seq(OutLine) /\ out' \in Seq(OutLine)
      /\ \A n \in 1..Len(out') : out'[n] = out[n + 1]
    BY HeadTailProperties DEF CliShape
<1>2. \A n \in DOMAIN out' : n + 1 \in DOMAIN out /\ out'[n] = out[n + 1]
    BY <1>1
<1>3. ASSUME NEW n \in DOMAIN out', out'[n].type = "end"
      PROVE  cli.doing = "exited" /\ n = Len(out')
    <2>1. cli.doing = "exited" /\ n + 1 = Len(out)
        BY <1>2, <1>3 DEF Ends
    <2>2. n \in Int /\ Len(out) \in Int
        BY <1>1
    <2> QED BY <1>1, <2>1, <2>2
<1> QED BY <1>3 DEF Ends

\* A line is read that concerns the messages of S.
LEMMA ReadStep ==
    ASSUME Inv, Running, NEW S \in SUBSET Messages,
           out # << >>, out' = Tail(out), UNCHANGED << cli, engine, reads >>, engine = "reading", Asked,
           \A k \in Messages : Fed(k) \/ InLine(k) \/ SaidStarted(k)' => Holds(k),
           feed' = feed \/ (tx /\ feed' = Append(feed, Eof)),
           asks' \in [Asks -> [Messages -> AskStates]],
           \A b \in Asks, k \in Messages : asks[b][k] # "none" => asks'[b][k] # "none",
           \A k \in Messages \ S :
                /\ row'[k] = row[k] /\ (Waits(k)' <=> Waits(k))
                /\ k \in promoting => k \in promoting'
                /\ k \in left' => k \in left
                /\ SaidStarted(k) => SaidStarted(k)'
                /\ \A b \in Asks : asks'[b][k] = asks[b][k],
           ~tx' => DOMAIN waiting' = {}, tx' => tx,
           \A k \in S : MessageOnce(k)'
    PROVE  Running'
<1>0. FeedShape /\ CliShape
    BY DEF Inv, Shape
<1>1. /\ FedOnce' /\ QueuedOnce' /\ StartedOnce' /\ GoneFirst'
      /\ \A k \in Messages : (Fed(k)' <=> Fed(k)) /\ (InLine(k)' <=> InLine(k))
                             /\ (SaidGone(k)' => SaidGone(k))
      /\ \A b \in Asks, k \in Messages : SaidYes(b, k)' => SaidYes(b, k)
    BY ReadLines
<1>2. AskedFirst'
    <2>1. Eof \in FeedLine /\ Eof.type # "cancel"
        BY LinesAreLines, LineKinds
    <2>2. \A b \in Asks, k \in Messages : SaidYes(b, k)' => asks'[b][k] # "none"
        BY <1>1 DEF Running, AskedFirst
    <2>3. \/ feed' = feed
          \/ \E l \in FeedLine : /\ feed' = Append(feed, l)
                                 /\ l.type = "cancel" /\ l.ask \in Asks => asks'[l.ask][l.m] # "none"
        <3>1. CASE feed' = feed
            BY <3>1
        <3>2. CASE feed' = Append(feed, Eof)
            BY <2>1, <3>2
        <3> QED BY <3>1, <3>2
    <2> QED BY <1>0, <2>2, <2>3, FeedAsked DEF Running
<1>3. ASSUME NEW k \in Messages PROVE MessageOnce(k)'
    <2>1. CASE k \notin S
        <3>1. \A b \in Asks : Granted(b, k)' => Granted(b, k)
            BY <1>1, <2>1 DEF Granted
        <3>2. Still(k)
            BY <1>1, <2>1, <3>1 DEF Still
        <3> QED BY <3>2, StillOnce DEF Running
    <2> QED BY <2>1
<1>4. Ends'
    BY <1>0, EndsRead DEF Running
<1> QED BY <1>1, <1>2, <1>3, <1>4 DEF Running

LEMMA StartedOnceRead ==
    ASSUME Inv, Running, engine = "reading", out # << >>, out' = Tail(out),
           UNCHANGED << cli, engine, reads >>,
           NEW m, NEW w, Head(out).type = "started", Head(out).m = m, Head(out).wire = w, OnStarted(m, w)
    PROVE  Running'
<1>0. FeedShape /\ RowShape /\ WaitShape /\ CliShape /\ Given
    BY DEF Inv, Shape
<1>1. UNCHANGED << tx, left, asks, feed >>
    BY DEF OnStarted
<1>2. Asked
    BY <1>1 DEF Asked
<1>3. m \in Messages
    <2>1. Head(out) \in OutLine
        BY <1>0, HeadTailProperties DEF CliShape
    <2> QED BY <2>1, OutLineFields
<1>4. /\ SaidStarted(m) /\ ~SaidStarted(m)' /\ Waits(m) /\ waiting[m] = w
      /\ \A k \in Messages \ {m} : SaidStarted(k)' <=> SaidStarted(k)
    BY <1>0, <1>2, <1>3, OutLess DEF Running
<1>5. waiting' = Without(m) /\ promoting' = promoting \ {m}
      /\ row' = [row EXCEPT ![m] = IF @ = "into" THEN "gone" ELSE @]
    BY <1>4 DEF OnStarted
<1>6. MessageOnce(m) /\ reads[m] > 0 /\ row[m] = "into" /\ m \notin left
    <2>1. MessageOnce(m) /\ row[m] = "into" /\ m \notin left
        BY <1>3, <1>4 DEF Running, MessageOnce, InboxOnce
    <2> QED BY <1>0, <1>4, <2>1 DEF SaidStarted, Given
<1>7. ~Fed(m) /\ ~InLine(m) /\ ~TakenBack(m) /\ ~SaidGone(m) /\ reads[m] <= 1
    BY <1>0, <1>3, <1>6 DEF MessageOnce, LineOnce, CliShape
<1>8. ~Waits(m)' /\ \A k \in Messages \ {m} : (Waits(k)' <=> Waits(k)) /\ Holds(k)
    BY <1>5, WithoutHolds
<1>9. \A k \in Messages : Fed(k) \/ InLine(k) \/ SaidStarted(k)' => Holds(k)
    BY <1>4, <1>7, <1>8
<1>10. MessageOnce(m)'
    <2>1. /\ (Fed(m)' <=> Fed(m)) /\ (InLine(m)' <=> InLine(m)) /\ (SaidGone(m)' => SaidGone(m))
          /\ \A b \in Asks : SaidYes(b, m)' => SaidYes(b, m)
        BY <1>1, <1>2, <1>3, <1>9, ReadLines
    <2>2. ~TakenBack(m)'
        BY <1>1, <1>7, <2>1 DEF TakenBack, Granted, Asks
    <2>3. row'[m] = "gone"
        BY <1>0, <1>3, <1>5, <1>6 DEF RowShape
    <2> QED BY <1>1, <1>6, <1>7, <1>8, <2>1, <2>2, <2>3
        DEF MessageOnce, RowOnce, LineOnce, InboxOnce, Resending
<1>11. \A k \in Messages \ {m} : row'[k] = row[k] /\ (k \in promoting => k \in promoting')
    BY <1>0, <1>5 DEF RowShape
<1>12. DOMAIN waiting' \subseteq DOMAIN waiting
    BY <1>5 DEF Without
<1>13. (~tx' => DOMAIN waiting' = {}) /\ (tx' => tx)
    BY <1>1, <1>12 DEF Running, Ends
<1>14. {m} \in SUBSET Messages /\ \A k \in {m} : MessageOnce(k)'
    BY <1>3, <1>10
<1>15. asks' \in [Asks -> [Messages -> AskStates]]
    BY <1>1 DEF Running, AskedFirst
<1> QED BY <1>1, <1>2, <1>4, <1>8, <1>9, <1>11, <1>13, <1>14, <1>15, ReadStep

LEMMA CancelledOnceRead ==
    ASSUME Inv, Running, engine = "reading", out # << >>, out' = Tail(out),
           UNCHANGED << cli, engine, reads >>,
           NEW m, NEW w, Head(out).type = "cancelled", Head(out).m = m, OnCancelled(m, w)
    PROVE  Running'
<1>0. FeedShape /\ RowShape /\ WaitShape /\ CliShape /\ Given
    BY DEF Inv, Shape
<1>1. UNCHANGED << row, tx, promoting, asks, feed >>
    BY DEF OnCancelled
<1>2. Asked
    BY <1>1 DEF Asked
<1>3. m \in Messages
    <2>1. Head(out) \in OutLine
        BY <1>0, HeadTailProperties DEF CliShape
    <2> QED BY <2>1, OutLineFields
<1>4. SaidGone(m) /\ \A k \in Messages : SaidStarted(k)' <=> SaidStarted(k)
    BY <1>0, <1>2, <1>3, OutLess DEF Running
<1>5. /\ MessageOnce(m) /\ ~Fed(m) /\ ~InLine(m) /\ reads[m] = 0 /\ asks["send_now"][m] # "yes"
      /\ row[m] \notin {"typed", "held"}
    BY <1>0, <1>3, <1>4 DEF Running, MessageOnce, RowOnce, LineOnce, InboxOnce, CliShape
<1>6. ~SaidStarted(m)
    BY <1>5 DEF SaidStarted, Inv, Given
<1>7. asks' \in [Asks -> [Messages -> AskStates]]
    BY <1>1 DEF Running, AskedFirst
<1>8. CASE waiting' = Without(m) /\ left' = left \cup {m} /\ Waits(m)
    <2>1. ~Waits(m)' /\ \A k \in Messages \ {m} : (Waits(k)' <=> Waits(k)) /\ Holds(k)
        BY <1>8, WithoutHolds
    <2>2. \A k \in Messages : Fed(k) \/ InLine(k) \/ SaidStarted(k)' => Holds(k)
        BY <1>4, <1>5, <1>6, <2>1
    <2>3. /\ (Fed(m)' <=> Fed(m)) /\ (InLine(m)' <=> InLine(m)) /\ (SaidGone(m)' => SaidGone(m))
        BY <1>1, <1>2, <1>3, <2>2, ReadLines
    <2>4. MessageOnce(m)'
        <3>1. row'[m] = "into"
            BY <1>1, <1>5, <1>8 DEF MessageOnce, InboxOnce
        <3>2. Nowhere(m)'
            BY <1>5, <2>1, <2>3 DEF Nowhere, Resending
        <3> QED BY <1>1, <1>5, <2>1, <2>3, <3>1, <3>2
            DEF MessageOnce, RowOnce, LineOnce, InboxOnce, Resending
    <2>5. \A k \in Messages \ {m} :
                /\ row'[k] = row[k] /\ (Waits(k)' <=> Waits(k))
                /\ k \in promoting => k \in promoting'
                /\ k \in left' => k \in left
                /\ SaidStarted(k) => SaidStarted(k)'
                /\ \A b \in Asks : asks'[b][k] = asks[b][k]
        BY <1>1, <1>4, <1>8, <2>1
    <2>6. DOMAIN waiting' \subseteq DOMAIN waiting
        BY <1>8 DEF Without
    <2>7. (~tx' => DOMAIN waiting' = {}) /\ (tx' => tx)
        BY <1>1, <2>6 DEF Running, Ends
    <2>8. {m} \in SUBSET Messages /\ \A k \in {m} : MessageOnce(k)'
        BY <1>3, <2>4
    <2> QED BY <1>1, <1>2, <1>7, <2>2, <2>5, <2>7, <2>8, ReadStep
<1>9. CASE UNCHANGED << waiting, left >>
    <2>1. \A k \in Messages : (Waits(k)' <=> Waits(k)) /\ Holds(k)
        BY <1>9, SameHolds
    <2>2. (~tx' => DOMAIN waiting' = {}) /\ (tx' => tx)
        BY <1>1, <1>9 DEF Running, Ends
    <2>3. \A k \in Messages :
                /\ row'[k] = row[k] /\ (Waits(k)' <=> Waits(k))
                /\ k \in promoting => k \in promoting'
                /\ k \in left' => k \in left
                /\ SaidStarted(k) => SaidStarted(k)'
                /\ \A b \in Asks : asks'[b][k] = asks[b][k]
        BY <1>1, <1>4, <1>9, <2>1
    <2>4. {} \in SUBSET Messages /\ (\A k \in {} : MessageOnce(k)') /\ Messages \ {} = Messages
        OBVIOUS
    <2> QED BY <1>1, <1>2, <1>7, <2>1, <2>2, <2>3, <2>4, ReadStep
<1> QED BY <1>8, <1>9 DEF OnCancelled

LEMMA AnswerLine ==
    ASSUME NEW l \in OutLine, l.type = "answer"
    PROVE  \E a \in Asks \cup {"stop"}, m \in Messages, y \in BOOLEAN : l = Answer(a, m, y)
<1>1. \A m, w : Started(m, w).type = "started" /\ Cancelled(m, w).type = "cancelled"
    BY DEF Started, Cancelled
<1>2. ResultLine.type = "result" /\ End.type = "end"
    BY DEF ResultLine, End
<1>3. /\ l \notin {Started(m, w) : m \in Messages, w \in Wires}
      /\ l \notin {Cancelled(m, w) : m \in Messages, w \in Wires}
      /\ l \notin {ResultLine, End}
    BY <1>1, <1>2
<1>4. l \in {Answer(a, m, y) : a \in Asks \cup {"stop"}, m \in Messages, y \in BOOLEAN}
    BY <1>3 DEF OutLine
<1> HIDE DEF Answer
<1> QED BY <1>4

LEMMA AnswerOnceRead ==
    ASSUME Inv, Running, engine = "reading", out # << >>, out' = Tail(out),
           UNCHANGED << cli, engine, reads >>,
           Head(out).type = "answer", OnAnswer(Head(out).ask, Head(out).m, Head(out).yes)
    PROVE  Running'
<1>0. FeedShape /\ RowShape /\ WaitShape /\ CliShape /\ Given
    BY DEF Inv, Shape
<1>1. UNCHANGED << row, tx, waiting, promoting, left, feed >>
    BY DEF OnAnswer, inboxVars
<1>2. PICK a \in Asks \cup {"stop"}, m \in Messages, y \in BOOLEAN :
            Head(out) = Answer(a, m, y) /\ OnAnswer(a, m, y)
    <2>1. Head(out) \in OutLine
        BY <1>0, HeadTailProperties DEF CliShape
    <2>2. PICK a \in Asks \cup {"stop"}, m \in Messages, y \in BOOLEAN : Head(out) = Answer(a, m, y)
        BY <2>1, AnswerLine
    <2>3. Answer(a, m, y).ask = a /\ Answer(a, m, y).m = m /\ Answer(a, m, y).yes = y
        BY DEF Answer
    <2>4. Head(out).ask = a /\ Head(out).m = m /\ Head(out).yes = y
        BY <2>2, <2>3, Zenon
    <2>5. OnAnswer(a, m, y)
        BY <2>4, Zenon
    <2> QED BY <2>2, <2>5
<1>3. \A k \in Messages : (Waits(k)' <=> Waits(k)) /\ Holds(k)
    BY <1>1, SameHolds
<1>4. (~tx' => DOMAIN waiting' = {}) /\ (tx' => tx)
    BY <1>1 DEF Running, Ends
<1>5. MessageOnce(m) /\ asks \in [Asks -> [Messages -> AskStates]]
    BY DEF Running, AskedFirst
<1>6. CASE a \in Asks /\ asks[a][m] = "out"
    <2> DEFINE v == IF y THEN "yes" ELSE "no"
    <2>1. asks' = [asks EXCEPT ![a][m] = v] /\ v \in {"yes", "no"} /\ v \in AskStates
        BY <1>2, <1>6 DEF OnAnswer, AskStates
    <2>2. /\ asks' \in [Asks -> [Messages -> AskStates]] /\ asks'[a][m] = v
          /\ \A b \in Asks, k \in Messages : b # a \/ k # m => asks'[b][k] = asks[b][k]
        <3> HIDE DEF v
        <3> QED BY <1>5, <1>6, <2>1
    <2>3. Asked /\ \A b \in Asks, k \in Messages : asks[b][k] # "none" => asks'[b][k] # "none"
        <3>1. v # "none" /\ v # "out"
            OBVIOUS
        <3> HIDE DEF v
        <3>2. \A b \in Asks, k \in Messages : asks'[b][k] = "out" => asks[b][k] = "out"
            BY <2>2, <3>1
        <3>3. Asked
            BY <3>2 DEF Asked, Asks
        <3> QED BY <2>2, <3>1, <3>3
    <2>4. /\ \A k \in Messages : SaidStarted(k)' <=> SaidStarted(k)
          /\ Head(out) = Answer("send_now", m, TRUE) /\ asks["send_now"][m] = "out" => ~SaidGone(m)
          /\ \A b \in Asks : Head(out) = Answer(b, m, TRUE) => SaidYes(b, m)
          /\ \A b \in Asks, k \in Messages : SaidYes(b, k)' => SaidYes(b, k)
          /\ SaidGone(m)' => SaidGone(m)
        <3>1. Head(out).type # "started"
            BY LineKinds
        <3> QED BY <1>0, <2>3, <3>1, OutLess DEF Running
    <2>5. \A b \in Asks : Granted(b, m)' => Granted(b, m)
        <3> TAKE b \in Asks
        <3>1. CASE b = a /\ y
            <4>1. Head(out) = Answer(a, m, TRUE)
                BY <1>2, <3>1
            <4> QED BY <1>6, <2>4, <3>1, <4>1 DEF Granted
        <3>2. CASE b = a /\ ~y
            <4>1. asks'[b][m] = "no"
                BY <2>2, <3>2
            <4> QED BY <4>1 DEF Granted
        <3>3. CASE b # a
            BY <2>2, <2>4, <3>3 DEF Granted
        <3> QED BY <3>1, <3>2, <3>3
    <2>6. \A k \in Messages : Fed(k) \/ InLine(k) \/ SaidStarted(k)' => Holds(k)
        BY <1>3
    <2>7. (Fed(m)' <=> Fed(m)) /\ (InLine(m)' <=> InLine(m))
        BY <1>1, <2>3, <2>6, ReadLines
    <2>8. MessageOnce(m)'
        <3>1. row[m] \notin {"typed", "held"}
            BY <1>5, <1>6 DEF MessageOnce, RowOnce
        <3>2. asks'["send_now"][m] \in {"out", "yes"} => asks["send_now"][m] \in {"out", "yes"}
            BY <1>6, <2>2 DEF Asks
        <3>3. asks'["send_now"][m] = "yes" => ~SaidGone(m)'
            <4>1. CASE a = "send_now" /\ y
                <5>1. Head(out) = Answer("send_now", m, TRUE)
                    BY <1>2, <4>1
                <5> QED BY <1>6, <2>4, <4>1, <5>1
            <4>2. CASE a = "send_now" /\ ~y
                BY <2>2, <4>2
            <4>3. CASE a # "send_now"
                <5>1. asks'["send_now"][m] = asks["send_now"][m]
                    BY <2>2, <4>3 DEF Asks
                <5> QED BY <1>5, <2>4, <5>1 DEF MessageOnce, InboxOnce
            <4> QED BY <4>1, <4>2, <4>3
        <3> HIDE DEF v
        <3> QED BY <1>1, <1>3, <1>5, <2>4, <2>5, <2>7, <3>1, <3>2, <3>3
            DEF MessageOnce, RowOnce, LineOnce, InboxOnce, Nowhere, Resending, TakenBack, Asks
    <2>9. \A k \in Messages \ {m} :
                /\ row'[k] = row[k] /\ (Waits(k)' <=> Waits(k))
                /\ k \in promoting => k \in promoting'
                /\ k \in left' => k \in left
                /\ SaidStarted(k) => SaidStarted(k)'
                /\ \A b \in Asks : asks'[b][k] = asks[b][k]
        BY <1>1, <1>3, <2>2, <2>4
    <2>10. {m} \in SUBSET Messages /\ \A k \in {m} : MessageOnce(k)'
        BY <2>8
    <2> HIDE DEF v
    <2> QED BY <1>1, <1>4, <2>2, <2>3, <2>6, <2>9, <2>10, ReadStep
<1>7. CASE ~(a \in Asks /\ asks[a][m] = "out")
    <2>1. asks' = asks
        <3>1. CASE a \in Asks
            BY <1>2, <1>7, <3>1 DEF OnAnswer
        <3>2. CASE a \notin Asks
            <4>1. \A v : [asks EXCEPT ![a][m] = v] = asks
                BY <1>5, <3>2
            <4> QED BY <1>2, <4>1 DEF OnAnswer
        <3> QED BY <3>1, <3>2
    <2>2. Asked
        BY <2>1 DEF Asked
    <2>3. \A k \in Messages : SaidStarted(k)' <=> SaidStarted(k)
        BY <1>0, <2>2, OutLess DEF Running
    <2>4. \A k \in Messages :
                /\ row'[k] = row[k] /\ (Waits(k)' <=> Waits(k))
                /\ k \in promoting => k \in promoting'
                /\ k \in left' => k \in left
                /\ SaidStarted(k) => SaidStarted(k)'
                /\ \A b \in Asks : asks'[b][k] = asks[b][k]
        BY <1>1, <1>3, <2>1, <2>3
    <2>5. {} \in SUBSET Messages /\ (\A k \in {} : MessageOnce(k)') /\ Messages \ {} = Messages
        OBVIOUS
    <2>6. \A k \in Messages : Fed(k) \/ InLine(k) \/ SaidStarted(k)' => Holds(k)
        BY <1>3
    <2> QED BY <1>1, <1>4, <1>5, <2>1, <2>2, <2>4, <2>5, <2>6, ReadStep
<1> QED BY <1>6, <1>7

LEMMA ResultOnceRead ==
    ASSUME Inv, Running, engine = "reading", out # << >>, out' = Tail(out),
           UNCHANGED << cli, engine, reads >>, Head(out).type = "result", OnResult
    PROVE  Running'
<1>0. CliShape
    BY DEF Inv, Shape
<1>1. UNCHANGED << row, waiting, promoting, left, asks >>
    BY DEF OnResult
<1>2. Asked
    BY <1>1 DEF Asked
<1>3. \A k \in Messages : (Waits(k)' <=> Waits(k)) /\ Holds(k)
    BY <1>1, SameHolds
<1>4. \A k \in Messages : SaidStarted(k)' <=> SaidStarted(k)
    BY <1>0, <1>2, OutLess DEF Running
<1>5. feed' = feed \/ (tx /\ feed' = Append(feed, Eof))
    BY DEF OnResult
<1>6. (~tx' => DOMAIN waiting' = {}) /\ (tx' => tx)
    <2>1. waiting = << >> => DOMAIN waiting = {}
        BY NoneWait
    <2> QED BY <1>1, <2>1 DEF OnResult, Running, Ends
<1>7. \A k \in Messages :
            /\ row'[k] = row[k] /\ (Waits(k)' <=> Waits(k))
            /\ k \in promoting => k \in promoting'
            /\ k \in left' => k \in left
            /\ SaidStarted(k) => SaidStarted(k)'
            /\ \A b \in Asks : asks'[b][k] = asks[b][k]
    BY <1>1, <1>3, <1>4
<1>8. {} \in SUBSET Messages /\ (\A k \in {} : MessageOnce(k)') /\ Messages \ {} = Messages
    OBVIOUS
<1>9. asks' \in [Asks -> [Messages -> AskStates]]
    BY <1>1 DEF Running, AskedFirst
<1>10. \A k \in Messages : Fed(k) \/ InLine(k) \/ SaidStarted(k)' => Holds(k)
    BY <1>3
<1> QED BY <1>1, <1>2, <1>5, <1>6, <1>7, <1>8, <1>9, <1>10, ReadStep

LEMMA ReadLineOnce ==
    ASSUME Inv, Running, ReadLine
    PROVE  Running'
<1>1. /\ engine = "reading" /\ out # << >> /\ out' = Tail(out)
      /\ UNCHANGED << cli, engine, reads >>
    BY DEF ReadLine
<1>2. Head(out).type \in {"started", "cancelled", "answer", "result", "end"}
    <2>1. Head(out) \in OutLine
        BY <1>1, HeadTailProperties DEF Inv, Shape, CliShape
    <2> QED BY <2>1, OutLineFields
<1>3. CASE Head(out).type = "started"
    <2>1. OnStarted(Head(out).m, Head(out).wire)
        BY <1>3 DEF ReadLine
    <2> QED BY <1>1, <1>3, <2>1, StartedOnceRead
<1>4. CASE Head(out).type = "cancelled"
    <2>1. OnCancelled(Head(out).m, Head(out).wire)
        BY <1>4 DEF ReadLine
    <2> QED BY <1>1, <1>4, <2>1, CancelledOnceRead
<1>5. CASE Head(out).type = "answer"
    <2>1. OnAnswer(Head(out).ask, Head(out).m, Head(out).yes)
        BY <1>5 DEF ReadLine
    <2> QED BY <1>1, <1>5, <2>1, AnswerOnceRead
<1>6. CASE Head(out).type = "result"
    <2>1. OnResult
        BY <1>6 DEF ReadLine
    <2> QED BY <1>1, <1>6, <2>1, ResultOnceRead
<1> QED BY <1>2, <1>3, <1>4, <1>5, <1>6 DEF ReadLine

\* The end of the output is its only line: the process had nothing left.
LEMMA ReadEndOnce ==
    ASSUME Inv, Running, ReadEnd
    PROVE  Running'
<1>0. FeedShape /\ CliShape /\ Ends /\ AskedFirst
    BY DEF Inv, Shape, Running
<1>1. /\ out # << >> /\ Head(out).type = "end" /\ Close /\ out' = << >> /\ engine' = "returning"
      /\ UNCHANGED << row, cli, reads >>
    BY DEF ReadEnd
<1>2. DOMAIN out = {1} /\ out[1].type = "end" /\ cli.doing = "exited"
    <2>1. 1 \in DOMAIN out /\ Head(out) = out[1] /\ DOMAIN out = 1..Len(out)
        BY <1>0, <1>1 DEF CliShape
    <2>2. cli.doing = "exited" /\ 1 = Len(out)
        BY <1>0, <1>1, <2>1 DEF Ends
    <2>3. 1..1 = {1}
        OBVIOUS
    <2>4. DOMAIN out = {1}
        BY <2>1, <2>2, <2>3
    <2>5. out[1].type = "end"
        BY <1>1, <2>1, Zenon
    <2> QED BY <2>2, <2>4, <2>5
<1>3. ~tx /\ DOMAIN waiting = {} /\ feed = << >> /\ cli.queue = << >>
    BY <1>0, <1>2 DEF Ends
<1>4. /\ tx' = FALSE /\ feed' = << >> /\ left' = {} /\ waiting' = << >> /\ promoting' = {}
      /\ asks' = [a \in Asks |-> [m \in Messages |->
                   IF asks[a][m] = "out" THEN "dropped" ELSE asks[a][m]]]
    BY <1>1, <1>3 DEF Close
<1>5. DOMAIN waiting' = {}
    BY <1>4, NoneWait
<1>6. asks' \in [Asks -> [Messages -> AskStates]]
    BY <1>0, <1>4 DEF AskedFirst, AskStates
<1>7. \A m \in Messages :
        /\ ~Fed(m)' /\ ~InLine(m)' /\ ~SaidGone(m)' /\ ~SaidStarted(m)' /\ ~Waits(m)' /\ m \notin left'
        /\ ~SaidStarted(m)
        /\ \A a \in Asks : ~SaidYes(a, m)'
    <2>1. DOMAIN feed' = {} /\ DOMAIN out' = {} /\ DOMAIN cli'.queue = {}
        BY <1>1, <1>3, <1>4
    <2> QED BY <1>2, <1>4, <1>5, <2>1 DEF Fed, InLine, SaidGone, SaidStarted, SaidYes, Waits
<1>8. ASSUME NEW m \in Messages PROVE MessageOnce(m)'
    <2>1. \A a \in Asks :
            /\ asks[a][m] = "none" => asks'[a][m] = "none"
            /\ asks'[a][m] = "yes" => asks[a][m] = "yes"
        BY <1>4
    <2>2. TakenBack(m)' => TakenBack(m)
        BY <1>7, <2>1 DEF TakenBack, Granted, Asks
    <2>3. MessageOnce(m)
        BY DEF Running
    <2>4. asks'["send_now"][m] = "yes" => asks["send_now"][m] = "yes"
        BY <2>1 DEF Asks
    <2> QED BY <1>1, <1>7, <2>1, <2>2, <2>3, <2>4
        DEF MessageOnce, RowOnce, LineOnce, InboxOnce, Nowhere, Resending
<1>9. FedOnce' /\ QueuedOnce' /\ StartedOnce' /\ GoneFirst' /\ AskedFirst'
    <2>1. DOMAIN feed' = {} /\ DOMAIN out' = {} /\ DOMAIN cli'.queue = {}
        BY <1>1, <1>3, <1>4
    <2> QED BY <1>6, <1>7, <2>1 DEF FedOnce, QueuedOnce, StartedOnce, GoneFirst, AskedFirst
<1>10. Ends'
    <2>1. DOMAIN out' = {}
        BY <1>1
    <2> QED BY <1>0, <1>1, <1>2, <1>4, <1>5, <2>1 DEF Ends
<1> QED BY <1>8, <1>9, <1>10 DEF Running

LEMMA TurnEndsOnce ==
    ASSUME Inv, Running, TurnEnds
    PROVE  Over'
<1>1. out = << >> /\ cli.doing = "exited" /\ UNCHANGED << cli, reads >>
    BY DEF TurnEnds, Running, Ends
<1>2. ASSUME NEW m \in Messages
      PROVE  /\ reads'[m] <= 1 /\ row'[m] # "into"
             /\ row'[m] \in {"typed", "held", "box"} => reads'[m] = 0
    <2>1. row'[m] = IF row[m] # "into" THEN row[m] ELSE IF InTheChat(m) THEN "gone" ELSE "held"
        BY DEF TurnEnds
    <2>2. MessageOnce(m) /\ reads[m] \in Nat /\ ~SaidStarted(m)
        BY <1>1 DEF Running, Inv, Shape, CliShape, SaidStarted
    <2> QED BY <1>1, <2>1, <2>2 DEF MessageOnce, RowOnce, LineOnce, Nowhere
<1> QED BY <1>1, <1>2 DEF Over

----------------------------------------------------------------------------
(* The process.                                                            *)

\* While the process is there the engine reads.
LEMMA ThereIsReading ==
    ASSUME Running, cli.doing # "exited"
    PROVE  engine = "reading" /\ \A n \in DOMAIN out : out[n].type # "end"
BY DEF Running, Ends

\* It writes lines that do not end its output.
LEMMA EndsWritten ==
    ASSUME Ends, CliShape, cli.doing # "exited", NEW lines \in Seq(OutLine),
           Says(lines) \/ UNCHANGED out, \A i \in DOMAIN lines : lines[i].type # "end",
           cli'.doing \in {"busy", "idle"}, UNCHANGED << tx, waiting, engine >>,
           cli'.eof => ~tx' /\ feed' = << >>
    PROVE  Ends'
<1>1. engine = "reading" /\ \A n \in DOMAIN out : out[n].type # "end"
    BY DEF Ends
<1>2. \A n \in DOMAIN out' : out'[n].type # "end"
    <2>1. CASE out' = out
        BY <1>1, <2>1
    <2>2. CASE out' = out \o lines
        <3>1. ASSUME NEW n \in DOMAIN out' PROVE out'[n].type # "end"
            <4>1. n \in DOMAIN out \/ \E i \in DOMAIN lines : out'[n] = lines[i]
                BY <2>2, Written
            <4>2. \A j \in DOMAIN out : out'[j] = out[j]
                BY <2>2, Written
            <4> QED BY <1>1, <4>1, <4>2
        <3> QED BY <3>1
    <2> QED BY <2>1, <2>2 DEF Says
<1> QED BY <1>1, <1>2 DEF Ends

\* It reads a line: the cancels behind it stay.
LEMMA FeedAskedLess ==
    ASSUME AskedFirst, FeedShape, feed # << >>, feed' = Tail(feed), UNCHANGED asks,
           \A b \in Asks, k \in Messages : SaidYes(b, k)' => asks'[b][k] # "none"
    PROVE  AskedFirst'
<1>1. /\ feed' \in Seq(FeedLine) /\ Len(feed') = Len(feed) - 1
      /\ \A n \in 1..Len(feed') : feed'[n] = feed[n + 1]
    BY HeadTailProperties DEF FeedShape
<1>2. \A n \in DOMAIN feed' : n + 1 \in DOMAIN feed /\ feed'[n] = feed[n + 1]
    BY <1>1 DEF FeedShape
<1>3. ASSUME NEW n \in DOMAIN feed', feed'[n].type = "cancel", feed'[n].ask \in Asks
      PROVE  asks'[feed'[n].ask][feed'[n].m] # "none"
    <2>1. n + 1 \in DOMAIN feed /\ feed'[n] = feed[n + 1]
        BY <1>2
    <2> QED BY <1>3, <2>1 DEF AskedFirst
<1> QED BY <1>3 DEF AskedFirst

\* The queue without a line of it.
LEMMA UnqueuedLess ==
    ASSUME CliShape, NEW m \in Messages, NEW w \in Wires, Queued(m, w), cli'.queue = Unqueued(m, w)
    PROVE  /\ cli'.queue \in Seq(Messages \X Wires) /\ Len(cli'.queue) = Len(cli.queue) - 1
           /\ \E at \in DOMAIN cli.queue :
                /\ cli.queue[at] = << m, w >>
                /\ \A n \in 1..Len(cli'.queue) :
                        cli'.queue[n] = IF n < at THEN cli.queue[n] ELSE cli.queue[n + 1]
<1> DEFINE q == cli.queue
           r == cli'.queue
           at == CHOOSE n \in DOMAIN q : q[n] = << m, w >>
           Pair == Messages \X Wires
<1>1. q \in Seq(Pair) /\ r \in Seq(Pair)
    BY UnqueuedIsQueue DEF CliShape
<1>2. at \in DOMAIN q /\ q[at] = << m, w >>
    BY DEF Queued
<1>3. r = SubSeq(q, 1, at - 1) \o SubSeq(q, at + 1, Len(q))
    BY DEF Unqueued
<1>4. \A n \in DOMAIN q : q[n] \in Pair
    BY <1>1
<1> HIDE DEF q, r, at, Pair
<1>5. Len(q) \in Nat /\ at \in 1..Len(q) /\ DOMAIN q = 1..Len(q)
    BY <1>1, <1>2
<1> DEFINE a == SubSeq(q, 1, at - 1)
           b == SubSeq(q, at + 1, Len(q))
<1>6. /\ a \in Seq(Pair) /\ Len(a) = at - 1
      /\ \A n \in 1..(at - 1) : a[n] = q[n]
    <2>1. \A n \in 1..(at - 1) : q[n] \in Pair
        BY <1>4, <1>5
    <2>2. 1 \in Int /\ at - 1 \in Int /\ (1 <= at - 1 \/ at - 1 = 0)
        BY <1>5
    <2>3. a \in Seq(Pair) /\ Len(a) = (IF 1 <= at - 1 THEN (at - 1) - 1 + 1 ELSE 0)
          /\ \A n \in 1..((at - 1) - 1 + 1) : a[n] = q[1 + n - 1]
        BY <2>1, <2>2, SubSeqProperties
    <2>4. Len(a) = at - 1
        BY <2>2, <2>3
    <2>5. ASSUME NEW n \in 1..(at - 1) PROVE a[n] = q[n]
        <3>1. n \in 1..((at - 1) - 1 + 1) /\ 1 + n - 1 = n
            BY <1>5
        <3> QED BY <2>3, <3>1
    <2> QED BY <2>3, <2>4, <2>5
<1>7. /\ b \in Seq(Pair) /\ Len(b) = Len(q) - at
      /\ \A n \in 1..(Len(q) - at) : b[n] = q[at + n]
    <2>1. \A n \in (at + 1)..Len(q) : q[n] \in Pair
        BY <1>4, <1>5
    <2>0. at \in Nat /\ Len(q) \in Nat /\ at <= Len(q)
        BY <1>5
    <2>2. at + 1 \in Int /\ Len(q) \in Int
        BY <2>0
    <2>3. b \in Seq(Pair) /\ Len(b) = (IF at + 1 <= Len(q) THEN Len(q) - (at + 1) + 1 ELSE 0)
          /\ \A n \in 1..(Len(q) - (at + 1) + 1) : b[n] = q[(at + 1) + n - 1]
        BY <2>1, <2>2, SubSeqProperties
    <2>4. Len(b) = Len(q) - at
        <3>1. CASE at + 1 <= Len(q)
            BY <2>0, <2>3, <3>1
        <3>2. CASE ~(at + 1 <= Len(q))
            <4>1. at = Len(q) /\ Len(b) = 0
                BY <2>0, <2>3, <3>2
            <4> QED BY <2>0, <4>1
        <3> QED BY <3>1, <3>2
    <2>5. ASSUME NEW n \in 1..(Len(q) - at) PROVE b[n] = q[at + n]
        <3>1. n \in 1..(Len(q) - (at + 1) + 1) /\ (at + 1) + n - 1 = at + n
            BY <1>5
        <3> QED BY <2>3, <3>1
    <2> QED BY <2>3, <2>4, <2>5
<1>8. r = a \o b
    BY <1>3
<1> HIDE DEF a, b
<1>9. /\ Len(r) = Len(a) + Len(b)
      /\ \A n \in 1..Len(a) + Len(b) : r[n] = IF n <= Len(a) THEN a[n] ELSE b[n - Len(a)]
    BY <1>6, <1>7, <1>8, ConcatProperties
<1>10. Len(r) = Len(q) - 1
    BY <1>5, <1>6, <1>7, <1>9
<1>11. ASSUME NEW n \in 1..Len(r) PROVE r[n] = IF n < at THEN q[n] ELSE q[n + 1]
    <2>1. n \in 1..Len(a) + Len(b)
        BY <1>9
    <2>2. CASE n < at
        <3>1. n \in 1..at - 1 /\ n <= Len(a)
            BY <1>5, <1>6, <2>2
        <3> QED BY <1>6, <1>9, <2>1, <2>2, <3>1
    <2>3. CASE ~(n < at)
        <3>1. n - Len(a) \in 1..Len(q) - at /\ ~(n <= Len(a)) /\ at + (n - Len(a)) = n + 1
            BY <1>5, <1>6, <1>10, <2>3
        <3>2. r[n] = b[n - Len(a)]
            BY <1>9, <2>1, <3>1
        <3>3. b[n - Len(a)] = q[n + 1]
            BY <1>7, <3>1
        <3> QED BY <2>3, <3>2, <3>3
    <2> QED BY <2>2, <2>3
<1>12. \E i \in DOMAIN q : q[i] = << m, w >> /\ \A n \in 1..Len(r) : r[n] = IF n < i THEN q[n] ELSE q[n + 1]
    BY <1>2, <1>11
<1> QED BY <1>1, <1>10, <1>12 DEF q, r, Pair

\* It queues a message.
LEMMA UserOnceRead ==
    ASSUME Inv, Running, CliReads, Head(feed).type = "user"
    PROVE  Running'
<1>0. FeedShape /\ WaitShape /\ CliShape /\ Given
    BY DEF Inv, Shape
<1> DEFINE l == Head(feed)
<1>1. /\ feed # << >> /\ cli.doing # "exited" /\ feed' = Tail(feed) /\ l \in FeedLine
      /\ UNCHANGED << row, tx, waiting, promoting, left, asks, out, engine, reads >>
      /\ cli' = [cli EXCEPT !.queue = Append(@, << l.m, l.wire >>)]
    <2>1. /\ feed # << >> /\ cli.doing # "exited" /\ feed' = Tail(feed)
          /\ UNCHANGED << row, tx, waiting, promoting, left, asks, engine, reads >>
        BY DEF CliReads, inboxVars
    <2>2. l \in FeedLine
        BY <1>0, <2>1, HeadTailProperties DEF FeedShape
    <2>3. UNCHANGED out /\ cli' = [cli EXCEPT !.queue = Append(@, << l.m, l.wire >>)]
        BY DEF CliReads
    <2> QED BY <2>1, <2>2, <2>3
<1>2. PICK m \in Messages, w \in Wires : l.m = m /\ l.wire = w
    BY <1>1, FeedLineFields
<1>3. /\ cli'.queue = Append(cli.queue, << m, w >>) /\ cli'.doing = cli.doing /\ cli'.eof = cli.eof
      /\ ~cli.eof /\ cli.doing \in {"busy", "idle"}
    BY <1>0, <1>1, <1>2 DEF CliShape, Running, Ends
<1>4. /\ FedOnce' /\ Fed(m) /\ ~Fed(m)' /\ Waits(m) /\ waiting[m] = w
      /\ \A k \in Messages : Fed(k)' => Fed(k)
    BY <1>0, <1>1, <1>2, FeedLess DEF Running
<1>5. MessageOnce(m) /\ reads[m] = 0 /\ ~InLine(m) /\ m \notin left /\ row[m] = "into"
    BY <1>0, <1>4 DEF Running, MessageOnce, LineOnce, InboxOnce, CliShape
<1>6. QueuedOnce' /\ \A k \in Messages \ {m} : (InLine(k)' <=> InLine(k))
    BY <1>0, <1>1, <1>3, <1>4, <1>5, QueueMore DEF Running
<1>7. Asked /\ \A k \in Messages : Holds(k) /\ (Waits(k)' <=> Waits(k))
    BY <1>1, SameHolds DEF Asked
<1>8. /\ StartedOnce' /\ GoneFirst'
      /\ \A k \in Messages : (SaidStarted(k)' <=> SaidStarted(k)) /\ (SaidGone(k)' <=> SaidGone(k))
      /\ \A b \in Asks, k \in Messages : (SaidYes(b, k)' <=> SaidYes(b, k))
    BY <1>0, <1>1, <1>7, OutSame DEF Running
<1>9. \A b \in Asks, k \in Messages : Granted(b, k)' => Granted(b, k)
    BY <1>1, <1>8 DEF Granted
<1>10. AskedFirst'
    <2>1. \A b \in Asks, k \in Messages : SaidYes(b, k)' => asks'[b][k] # "none"
        BY <1>1, <1>8 DEF Running, AskedFirst
    <2> QED BY <1>0, <1>1, <2>1, FeedAskedLess DEF Running
<1>11. ASSUME NEW k \in Messages PROVE MessageOnce(k)'
    <2>1. CASE k # m
        <3>1. Still(k)
            BY <1>1, <1>4, <1>6, <1>7, <1>8, <1>9, <2>1 DEF Still
        <3> QED BY <3>1, StillOnce DEF Running
    <2>2. CASE k = m
        <3>1. MessageOnce(m)'
            BY <1>1, <1>4, <1>5, <1>7, <1>8, <1>9
               DEF MessageOnce, RowOnce, LineOnce, InboxOnce, Resending, TakenBack, Asks
        <3> QED BY <2>2, <3>1
    <2> QED BY <2>1, <2>2
<1>12. Ends'
    <2>1. << >> \in Seq(OutLine) /\ \A i \in DOMAIN << >> : << >>[i].type # "end"
        OBVIOUS
    <2> QED BY <1>0, <1>1, <1>3, <2>1, EndsWritten DEF Running
<1> QED BY <1>4, <1>6, <1>8, <1>10, <1>11, <1>12 DEF Running

\* A line that takes a message out of the queue: the two lines say so.
LEMMA GoneOnceRead ==
    ASSUME Inv, Running, CliReads, NEW m \in Messages, NEW w \in Wires, NEW ask \in Asks \cup {"stop"},
           Head(feed) = Cancel(ask, m, w), Queued(m, w)
    PROVE  Running'
<1>0. FeedShape /\ WaitShape /\ CliShape /\ Given
    BY DEF Inv, Shape
<1>1. /\ Head(feed).type = "cancel" /\ Head(feed).ask = ask /\ Head(feed).m = m /\ Head(feed).wire = w
    BY DEF Cancel
<1>2. /\ feed # << >> /\ cli.doing # "exited" /\ feed' = Tail(feed)
      /\ UNCHANGED << row, tx, waiting, promoting, left, asks, engine, reads >>
      /\ cli' = [cli EXCEPT !.queue = Unqueued(m, w)]
      /\ Says(<< Cancelled(m, w), Answer(ask, m, TRUE) >>)
    <2>1. /\ feed # << >> /\ cli.doing # "exited" /\ feed' = Tail(feed)
          /\ UNCHANGED << row, tx, waiting, promoting, left, asks, engine, reads >>
        BY DEF CliReads, inboxVars
    <2>2. /\ cli' = [cli EXCEPT !.queue = Unqueued(m, w)]
          /\ Says(<< Cancelled(m, w), Answer(ask, m, TRUE) >>)
        BY <1>1 DEF CliReads
    <2> QED BY <2>1, <2>2
<1>3. /\ cli'.queue = Unqueued(m, w) /\ cli'.doing = cli.doing /\ cli'.eof = cli.eof
      /\ ~cli.eof /\ cli.doing \in {"busy", "idle"} /\ engine = "reading"
    BY <1>0, <1>2 DEF CliShape, Running, Ends
<1>4. /\ QueuedOnce' /\ InLine(m) /\ ~InLine(m)' /\ Waits(m) /\ waiting[m] = w
      /\ \A k \in Messages : InLine(k)' => InLine(k)
    <2>1. cli'.queue \in Seq(Messages \X Wires) /\ Len(cli'.queue) = Len(cli.queue) - 1
        BY <1>0, <1>3, UnqueuedLess
    <2>2. PICK at \in DOMAIN cli.queue :
                /\ cli.queue[at] = << m, w >>
                /\ \A n \in 1..Len(cli'.queue) :
                        cli'.queue[n] = IF n < at THEN cli.queue[n] ELSE cli.queue[n + 1]
        BY <1>0, <1>3, UnqueuedLess
    <2>3. m = cli.queue[at][1] /\ w = cli.queue[at][2]
        BY <2>2
    <2> QED BY <1>0, <1>2, <2>1, <2>2, <2>3, QueueLess DEF Running
<1>5. /\ FedOnce' /\ \A k \in Messages : Fed(k)' => Fed(k)
    BY <1>0, <1>2, FeedLess DEF Running
<1>6. /\ MessageOnce(m) /\ reads[m] = 0 /\ ~Fed(m) /\ m \notin left /\ row[m] = "into"
      /\ ~Granted("send_now", m) /\ ~TakenBack(m)
    BY <1>0, <1>4 DEF Running, MessageOnce, LineOnce, InboxOnce, Resending, CliShape
<1>7. \A k \in Messages : Waits(k)' <=> Waits(k)
    BY <1>2, SameHolds
<1>8. /\ StartedOnce' /\ GoneFirst' /\ SaidGone(m)'
      /\ \A k \in Messages : (SaidStarted(k)' <=> SaidStarted(k))
      /\ \A k \in Messages \ {m} : (SaidGone(k)' <=> SaidGone(k))
      /\ \A a \in Asks, k \in Messages : SaidYes(a, k)' => SaidYes(a, k) \/ (a = ask /\ k = m)
    BY <1>0, <1>2, <1>3, <1>6, OutGone DEF Running
<1>9. \A b \in Asks, k \in Messages : Granted(b, k)' => Granted(b, k) \/ (b = ask /\ k = m)
    BY <1>2, <1>8 DEF Granted
<1>10. AskedFirst'
    <2>1. ask \in Asks => asks[ask][m] # "none"
        <3>1. 1 \in DOMAIN feed /\ feed[1] = Head(feed)
            BY <1>0, <1>2 DEF FeedShape
        <3> QED BY <1>1, <3>1 DEF Running, AskedFirst
    <2>2. \A b \in Asks, k \in Messages : SaidYes(b, k)' => asks'[b][k] # "none"
        BY <1>2, <1>8, <2>1 DEF Running, AskedFirst
    <2> QED BY <1>0, <1>2, <2>2, FeedAskedLess DEF Running
<1>11. ASSUME NEW k \in Messages PROVE MessageOnce(k)'
    <2>1. CASE k # m
        <3>1. Still(k)
            BY <1>2, <1>4, <1>5, <1>7, <1>8, <1>9, <2>1 DEF Still
        <3> QED BY <3>1, StillOnce DEF Running
    <2>2. CASE k = m
        <3>1. ~(Granted("send_now", m)' /\ TakenBack(m)')
            BY <1>6, <1>9 DEF TakenBack, Asks
        <3>2. asks["send_now"][m] # "yes"
            BY <1>6 DEF Granted
        <3>3. MessageOnce(m)'
            BY <1>2, <1>4, <1>5, <1>6, <1>7, <1>8, <3>1, <3>2
               DEF MessageOnce, RowOnce, LineOnce, InboxOnce, Resending
        <3> QED BY <2>2, <3>3
    <2> QED BY <2>1, <2>2
<1>12. Ends'
    <2> DEFINE g == Cancelled(m, w)
               y == Answer(ask, m, TRUE)
               lines == << g, y >>
    <2>1. g \in OutLine /\ y \in OutLine
        BY LinesAreLines
    <2>2. g.type # "end" /\ y.type # "end"
        BY DEF Cancelled, Answer
    <2> HIDE DEF g, y
    <2>3. lines \in Seq(OutLine) /\ DOMAIN lines = {1, 2} /\ lines[1] = g /\ lines[2] = y
        BY <2>1, LineSeqs
    <2>4. Says(lines)
        BY <1>2 DEF g, y
    <2> HIDE DEF lines
    <2>5. \A i \in DOMAIN lines : lines[i].type # "end"
        BY <2>2, <2>3
    <2> QED BY <1>0, <1>2, <1>3, <2>3, <2>4, <2>5, EndsWritten DEF Running
<1> QED BY <1>4, <1>5, <1>8, <1>10, <1>11, <1>12 DEF Running

\* A line of the process that touches no message's line, and quiet lines out.
LEMMA QuietOnce ==
    ASSUME Inv, Running, cli.doing # "exited", NEW lines \in Seq(OutLine), Says(lines),
           \A i \in DOMAIN lines : /\ lines[i].type \notin {"started", "cancelled", "end"}
                                   /\ \A a \in Asks, m \in Messages : lines[i] # Answer(a, m, TRUE),
           UNCHANGED << row, tx, waiting, promoting, left, asks, engine, reads >>,
           cli'.queue = cli.queue, cli'.doing \in {"busy", "idle"},
           cli'.eof => ~tx' /\ feed' = << >>,
           feed' = feed \/ (feed # << >> /\ feed' = Tail(feed))
    PROVE  Running'
<1>0. FeedShape /\ WaitShape /\ CliShape /\ Given
    BY DEF Inv, Shape
<1>1. \A k \in Messages : (Waits(k)' <=> Waits(k)) /\ Holds(k)
    BY SameHolds
<1>2. QueuedOnce' /\ \A k \in Messages : (InLine(k)' <=> InLine(k))
    BY <1>0, <1>1, QueueSame DEF Running
<1>3. FedOnce' /\ \A k \in Messages : Fed(k)' => Fed(k)
    <2>1. CASE feed' = feed
        BY <1>0, <1>1, <2>1, FeedSame DEF Running
    <2>2. CASE feed # << >> /\ feed' = Tail(feed)
        BY <1>0, <2>2, FeedLess DEF Running
    <2> QED BY <2>1, <2>2
<1>4. /\ StartedOnce' /\ GoneFirst'
      /\ \A k \in Messages : (SaidStarted(k)' <=> SaidStarted(k)) /\ (SaidGone(k)' <=> SaidGone(k))
      /\ \A b \in Asks, k \in Messages : (SaidYes(b, k)' <=> SaidYes(b, k))
    BY <1>0, OutQuiet DEF Running
<1>5. \A b \in Asks, k \in Messages : Granted(b, k)' => Granted(b, k)
    BY <1>4 DEF Granted
<1>6. AskedFirst'
    <2>1. \A b \in Asks, k \in Messages : SaidYes(b, k)' => asks'[b][k] # "none"
        BY <1>4 DEF Running, AskedFirst
    <2>2. CASE feed' = feed
        BY <2>1, <2>2 DEF Running, AskedFirst
    <2>3. CASE feed # << >> /\ feed' = Tail(feed)
        BY <1>0, <2>1, <2>3, FeedAskedLess DEF Running
    <2> QED BY <2>2, <2>3
<1>7. ASSUME NEW k \in Messages PROVE MessageOnce(k)'
    <2>1. Still(k)
        BY <1>1, <1>2, <1>3, <1>4, <1>5 DEF Still
    <2> QED BY <2>1, StillOnce DEF Running
<1>8. Ends'
    BY <1>0, EndsWritten DEF Running
<1> QED BY <1>2, <1>3, <1>4, <1>6, <1>7, <1>8 DEF Running

LEMMA KeptOnceRead ==
    ASSUME Inv, Running, CliReads, NEW m \in Messages, NEW w \in Wires, NEW ask \in Asks \cup {"stop"},
           Head(feed) = Cancel(ask, m, w), ~Queued(m, w)
    PROVE  Running'
<1>0. FeedShape /\ CliShape
    BY DEF Inv, Shape
<1>1. /\ Head(feed).type = "cancel" /\ Head(feed).ask = ask /\ Head(feed).m = m /\ Head(feed).wire = w
    BY DEF Cancel
<1>2. /\ feed # << >> /\ cli.doing # "exited" /\ feed' = Tail(feed)
      /\ UNCHANGED << row, tx, waiting, promoting, left, asks, engine, reads >>
    BY DEF CliReads, inboxVars
<1>3. Says(<< Answer(ask, m, FALSE) >>) /\ UNCHANGED cli
    BY <1>1 DEF CliReads
<1>4. cli.doing \in {"busy", "idle"} /\ ~cli.eof
    BY <1>0, <1>2 DEF CliShape, Running, Ends
<1> DEFINE y == Answer(ask, m, FALSE)
           lines == << y >>
<1>5. /\ y \in OutLine /\ y.type = "answer" /\ y.yes = FALSE
    BY LinesAreLines DEF Answer
<1>6. \A a \in Asks, k \in Messages : y # Answer(a, k, TRUE)
    <2>1. \A a \in Asks, k \in Messages : Answer(a, k, TRUE).yes = TRUE
        BY DEF Answer
    <2> HIDE DEF y
    <2> QED BY <1>5, <2>1, Zenon
<1>7. Says(lines)
    BY <1>3
<1> HIDE DEF y
<1>8. lines \in Seq(OutLine) /\ DOMAIN lines = {1} /\ lines[1] = y
    BY <1>5, LineSeqs
<1> HIDE DEF lines
<1>9. \A i \in DOMAIN lines : /\ lines[i].type \notin {"started", "cancelled", "end"}
                              /\ \A a \in Asks, k \in Messages : lines[i] # Answer(a, k, TRUE)
    BY <1>5, <1>6, <1>8
<1> QED BY <1>2, <1>3, <1>4, <1>7, <1>8, <1>9, QuietOnce

LEMMA EofOnceRead ==
    ASSUME Inv, Running, CliReads, Head(feed) = Eof
    PROVE  Running'
<1>0. FeedShape /\ CliShape
    BY DEF Inv, Shape
<1>1. Head(feed).type = "eof"
    BY DEF Eof
<1>2. /\ feed # << >> /\ cli.doing # "exited" /\ feed' = Tail(feed)
      /\ UNCHANGED << row, tx, waiting, promoting, left, asks, engine, reads >>
    BY DEF CliReads, inboxVars
<1>3. UNCHANGED out /\ cli' = [cli EXCEPT !.eof = TRUE]
    BY <1>1 DEF CliReads
<1>4. cli'.queue = cli.queue /\ cli'.doing \in {"busy", "idle"} /\ engine = "reading"
    BY <1>0, <1>2, <1>3 DEF CliShape, Running, Ends
<1>5. ~tx /\ feed' = << >>
    <2>1. 1 \in DOMAIN feed /\ feed[1] = Eof /\ feed \in Seq(FeedLine)
        BY <1>0, <1>2 DEF FeedShape
    <2>2. ~tx /\ Len(feed) = 1
        BY <1>0, <2>1 DEF FeedShape
    <2>3. Tail(feed) \in Seq(FeedLine) /\ Len(Tail(feed)) = 0
        BY <1>2, <2>1, <2>2, HeadTailProperties
    <2> QED BY <1>2, <2>2, <2>3
<1> DEFINE lines == << >>
<1>6. lines \in Seq(OutLine) /\ DOMAIN lines = {}
    OBVIOUS
<1>7. Says(lines)
    <2>1. out \o << >> = out
        BY <1>0 DEF CliShape
    <2> QED BY <1>3, <2>1 DEF Says
<1> HIDE DEF lines
<1> QED BY <1>2, <1>4, <1>5, <1>6, <1>7, QuietOnce

LEMMA CliReadsOnce ==
    ASSUME Inv, Running, CliReads
    PROVE  Running'
<1>1. feed # << >> /\ Head(feed) \in FeedLine
    <2>1. feed # << >>
        BY DEF CliReads
    <2> QED BY <2>1, HeadTailProperties DEF Inv, Shape, FeedShape
<1>2. CASE \E m \in Messages, w \in Wires : Head(feed) = User(m, w)
    <2>1. Head(feed).type = "user"
        BY <1>2 DEF User
    <2> QED BY <2>1, UserOnceRead
<1>3. CASE \E ask \in Asks \cup {"stop"}, m \in Messages, w \in Wires : Head(feed) = Cancel(ask, m, w)
    <2>1. PICK ask \in Asks \cup {"stop"}, m \in Messages, w \in Wires : Head(feed) = Cancel(ask, m, w)
        BY <1>3
    <2>2. CASE Queued(m, w)
        BY <2>1, <2>2, GoneOnceRead
    <2>3. CASE ~Queued(m, w)
        BY <2>1, <2>3, KeptOnceRead
    <2> QED BY <2>2, <2>3
<1>4. CASE Head(feed) = Eof
    BY <1>4, EofOnceRead
<1> QED BY <1>1, <1>2, <1>3, <1>4 DEF FeedLine

\* The model is given a message.
LEMMA CliTakesOnce ==
    ASSUME Inv, Running, CliTakes
    PROVE  Running'
<1>0. FeedShape /\ WaitShape /\ CliShape /\ Given
    BY DEF Inv, Shape
<1>1. 1 \in DOMAIN cli.queue /\ Head(cli.queue) = cli.queue[1] /\ cli.queue \in Seq(Messages \X Wires)
      /\ cli.queue # << >> /\ cli.doing \in {"busy", "idle"}
    <2>1. cli.queue # << >> /\ cli.queue \in Seq(Messages \X Wires)
        BY <1>0 DEF CliTakes, CliShape
    <2> QED BY <2>1 DEF CliTakes
<1>2. PICK m \in Messages, w \in Wires : cli.queue[1] = << m, w >>
    <2>1. cli.queue[1] \in Messages \X Wires
        BY <1>1
    <2> QED BY <2>1
<1>3. /\ cli' = [cli EXCEPT !.queue = Tail(@), !.doing = "busy"]
      /\ reads' = [reads EXCEPT ![m] = @ + 1]
      /\ Says(<< Started(m, w) >>)
      /\ UNCHANGED << row, tx, waiting, promoting, left, asks, feed, engine >>
    <2>1. Head(cli.queue)[1] = m /\ Head(cli.queue)[2] = w
        BY <1>1, <1>2
    <2>2. UNCHANGED << row, tx, waiting, promoting, left, asks, feed, engine >>
        BY DEF CliTakes, inboxVars
    <2> QED BY <2>1, <2>2 DEF CliTakes
<1>4. cli'.queue = Tail(cli.queue) /\ cli'.doing = "busy" /\ cli'.eof = cli.eof
    BY <1>0, <1>3 DEF CliShape
<1>5. engine = "reading" /\ (cli'.eof => ~tx' /\ feed' = << >>)
    BY <1>1, <1>3, <1>4 DEF Running, Ends
<1>6. /\ QueuedOnce' /\ InLine(m) /\ ~InLine(m)' /\ Waits(m) /\ waiting[m] = w
      /\ \A k \in Messages : InLine(k)' => InLine(k)
    <2>1. /\ cli'.queue \in Seq(Messages \X Wires) /\ Len(cli'.queue) = Len(cli.queue) - 1
          /\ \A n \in 1..Len(cli'.queue) : cli'.queue[n] = cli.queue[n + 1]
        <3> DEFINE q == cli.queue
                   Pair == Messages \X Wires
        <3>1. q \in Seq(Pair) /\ q # << >>
            BY <1>1
        <3> HIDE DEF q, Pair
        <3>2. Tail(q) \in Seq(Pair) /\ Len(Tail(q)) = Len(q) - 1
              /\ \A n \in 1..Len(Tail(q)) : Tail(q)[n] = q[n + 1]
            BY <3>1, HeadTailProperties
        <3>3. cli'.queue = Tail(q)
            BY <1>4 DEF q
        <3>4. cli'.queue \in Seq(Pair) /\ Len(cli'.queue) = Len(q) - 1
              /\ \A n \in 1..Len(cli'.queue) : cli'.queue[n] = q[n + 1]
            BY <3>2, <3>3
        <3> QED BY <3>4 DEF q, Pair
    <2>2. \A n \in 1..Len(cli'.queue) :
                cli'.queue[n] = IF n < 1 THEN cli.queue[n] ELSE cli.queue[n + 1]
        <3>1. \A n \in 1..Len(cli'.queue) : ~(n < 1)
            BY <2>1
        <3> QED BY <2>1, <3>1
    <2>3. m = cli.queue[1][1] /\ w = cli.queue[1][2]
        BY <1>2
    <2> QED BY <1>0, <1>1, <1>3, <2>1, <2>2, <2>3, QueueLess DEF Running
<1>7. /\ MessageOnce(m) /\ reads[m] = 0 /\ ~Fed(m) /\ m \notin left /\ row[m] = "into"
      /\ ~Resending(m) /\ ~TakenBack(m) /\ ~SaidGone(m)
    BY <1>0, <1>6 DEF Running, MessageOnce, LineOnce, InboxOnce, Resending, CliShape
<1>8. ~SaidStarted(m)
    BY <1>0, <1>7 DEF SaidStarted, Given
<1>9. /\ StartedOnce' /\ GoneFirst' /\ SaidStarted(m)'
      /\ \A k \in Messages \ {m} : (SaidStarted(k)' <=> SaidStarted(k))
      /\ \A k \in Messages : (SaidGone(k)' <=> SaidGone(k))
      /\ \A a \in Asks, k \in Messages : (SaidYes(a, k)' <=> SaidYes(a, k))
    BY <1>0, <1>3, <1>5, <1>6, <1>8, OutStarted DEF Running
<1>10. \A k \in Messages : (Waits(k)' <=> Waits(k)) /\ Holds(k)
    BY <1>3, SameHolds
<1>11. FedOnce' /\ \A k \in Messages : (Fed(k)' <=> Fed(k))
    BY <1>0, <1>3, <1>10, FeedSame DEF Running
<1>12. \A b \in Asks, k \in Messages : Granted(b, k)' <=> Granted(b, k)
    BY <1>3, <1>9 DEF Granted
<1>13. reads'[m] = 1 /\ \A k \in Messages \ {m} : reads'[k] = reads[k]
    BY <1>0, <1>3, <1>7 DEF CliShape
<1>14. AskedFirst'
    BY <1>3, <1>9 DEF Running, AskedFirst
<1>15. ASSUME NEW k \in Messages PROVE MessageOnce(k)'
    <2>1. CASE k # m
        <3>1. Still(k)
            BY <1>3, <1>6, <1>9, <1>10, <1>11, <1>12, <1>13, <2>1 DEF Still
        <3> QED BY <3>1, StillOnce DEF Running
    <2>2. CASE k = m
        <3>1. ~Resending(m)' /\ ~TakenBack(m)'
            BY <1>7, <1>10, <1>12 DEF Resending, TakenBack, Asks
        <3>2. MessageOnce(m)'
            BY <1>3, <1>6, <1>7, <1>9, <1>10, <1>11, <1>13, <3>1
               DEF MessageOnce, RowOnce, LineOnce, InboxOnce
        <3> QED BY <2>2, <3>2
    <2> QED BY <2>1, <2>2
<1>16. Ends'
    <2> DEFINE l == Started(m, w)
               lines == << l >>
    <2>1. l \in OutLine /\ l.type # "end"
        BY LinesAreLines, LineKinds
    <2>2. Says(lines)
        BY <1>3
    <2> HIDE DEF l
    <2>3. lines \in Seq(OutLine) /\ DOMAIN lines = {1} /\ lines[1] = l
        BY <2>1, LineSeqs
    <2> HIDE DEF lines
    <2>4. \A i \in DOMAIN lines : lines[i].type # "end"
        BY <2>1, <2>3
    <2> QED BY <1>0, <1>1, <1>3, <1>4, <1>5, <2>2, <2>3, <2>4, EndsWritten DEF Running
<1> QED BY <1>6, <1>9, <1>11, <1>14, <1>15, <1>16 DEF Running

LEMMA CliFinishesOnce ==
    ASSUME Inv, Running, CliFinishes
    PROVE  Running'
<1>0. FeedShape /\ CliShape
    BY DEF Inv, Shape
<1>1. /\ cli.doing = "busy" /\ cli' = [cli EXCEPT !.doing = "idle"] /\ Says(<< ResultLine >>)
      /\ UNCHANGED << row, tx, waiting, promoting, left, asks, feed, engine, reads >>
    BY DEF CliFinishes, inboxVars
<1>2. cli'.queue = cli.queue /\ cli'.doing \in {"busy", "idle"} /\ cli'.eof = cli.eof
    BY <1>0, <1>1 DEF CliShape
<1>3. cli'.eof => ~tx' /\ feed' = << >>
    BY <1>1, <1>2 DEF Running, Ends
<1> DEFINE y == ResultLine
           lines == << y >>
<1>4. y \in OutLine /\ y.type = "result" /\ \A a \in Asks, k \in Messages : y # Answer(a, k, TRUE)
    <2>1. \A a \in Asks, k \in Messages : Answer(a, k, TRUE).type = "answer"
        BY DEF Answer
    <2>2. y \in OutLine /\ y.type = "result"
        BY LinesAreLines, LineKinds
    <2> HIDE DEF y
    <2> QED BY <2>1, <2>2
<1>5. Says(lines)
    BY <1>1
<1> HIDE DEF y
<1>6. lines \in Seq(OutLine) /\ DOMAIN lines = {1} /\ lines[1] = y
    BY <1>4, LineSeqs
<1> HIDE DEF lines
<1>7. \A i \in DOMAIN lines : /\ lines[i].type \notin {"started", "cancelled", "end"}
                              /\ \A a \in Asks, k \in Messages : lines[i] # Answer(a, k, TRUE)
    BY <1>4, <1>6
<1> QED BY <1>1, <1>2, <1>3, <1>5, <1>6, <1>7, QuietOnce

\* The process ends with nothing queued: its end is the last line.
LEMMA CliExitsOnce ==
    ASSUME Inv, Running, CliExits
    PROVE  Running'
<1>0. FeedShape /\ WaitShape /\ CliShape
    BY DEF Inv, Shape
<1>1. /\ cli.doing = "idle" /\ cli.eof /\ cli.queue = << >>
      /\ cli' = [cli EXCEPT !.doing = "exited", !.queue = << >>] /\ Says(<< End >>)
      /\ UNCHANGED << row, tx, waiting, promoting, left, asks, feed, engine, reads >>
    BY DEF CliExits, Exits, inboxVars
<1>2. cli'.queue = << >> /\ cli'.doing = "exited" /\ cli'.eof
    BY <1>0, <1>1 DEF CliShape
<1>3. engine = "reading" /\ ~tx /\ feed = << >> /\ \A n \in DOMAIN out : out[n].type # "end"
    BY <1>1 DEF Running, Ends
<1> DEFINE y == End
           lines == << y >>
<1>4. y \in OutLine /\ y.type = "end" /\ \A a \in Asks, k \in Messages : y # Answer(a, k, TRUE)
    <2>1. \A a \in Asks, k \in Messages : Answer(a, k, TRUE).type = "answer"
        BY DEF Answer
    <2>2. y \in OutLine /\ y.type = "end"
        BY LinesAreLines, LineKinds
    <2> HIDE DEF y
    <2> QED BY <2>1, <2>2
<1>5. Says(lines)
    BY <1>1
<1> HIDE DEF y
<1>6. lines \in Seq(OutLine) /\ DOMAIN lines = {1} /\ lines[1] = y /\ Len(lines) = 1
    BY <1>4, LineSeqs
<1> HIDE DEF lines
<1>7. \A i \in DOMAIN lines : /\ lines[i].type \notin {"started", "cancelled"}
                              /\ \A a \in Asks, k \in Messages : lines[i] # Answer(a, k, TRUE)
    BY <1>4, <1>6
<1>8. /\ StartedOnce' /\ GoneFirst'
      /\ \A k \in Messages : (SaidStarted(k)' <=> SaidStarted(k)) /\ (SaidGone(k)' <=> SaidGone(k))
      /\ \A b \in Asks, k \in Messages : (SaidYes(b, k)' <=> SaidYes(b, k))
    BY <1>0, <1>1, <1>5, <1>6, <1>7, OutQuiet DEF Running
<1>9. \A k \in Messages : (Waits(k)' <=> Waits(k)) /\ Holds(k)
    BY <1>1, SameHolds
<1>10. FedOnce' /\ \A k \in Messages : (Fed(k)' <=> Fed(k))
    BY <1>0, <1>1, <1>9, FeedSame DEF Running
<1>11. QueuedOnce' /\ \A k \in Messages : (InLine(k)' <=> InLine(k))
    <2>1. cli'.queue = cli.queue
        BY <1>1, <1>2
    <2> QED BY <1>0, <1>9, <2>1, QueueSame DEF Running
<1>12. \A b \in Asks, k \in Messages : Granted(b, k)' => Granted(b, k)
    BY <1>1, <1>8 DEF Granted
<1>13. AskedFirst'
    BY <1>1, <1>8 DEF Running, AskedFirst
<1>14. ASSUME NEW k \in Messages PROVE MessageOnce(k)'
    <2>1. Still(k)
        BY <1>1, <1>8, <1>9, <1>10, <1>11, <1>12 DEF Still
    <2> QED BY <2>1, StillOnce DEF Running
<1>15. Ends'
    <2>1. out' = out \o lines
        BY <1>3, <1>5 DEF Says
    <2>2. ASSUME NEW n \in DOMAIN out', out'[n].type = "end" PROVE n = Len(out')
        <3>1. n \in DOMAIN out \/ \E i \in DOMAIN lines : n = Len(out) + i /\ out'[n] = lines[i]
            BY <1>0, <1>6, <2>1, Written
        <3>2. Len(out') = Len(out) + Len(lines) /\ \A j \in DOMAIN out : out'[j] = out[j]
            BY <1>0, <1>6, <2>1, Written
        <3>3. n \notin DOMAIN out
            BY <1>3, <2>2, <3>2
        <3> QED BY <1>6, <3>1, <3>2, <3>3
    <2> QED BY <1>1, <1>2, <1>3, <2>2 DEF Running, Ends
<1> QED BY <1>8, <1>10, <1>11, <1>13, <1>14, <1>15 DEF Running

----------------------------------------------------------------------------
(* The invariant.                                                          *)

\* Between the command's return and the next turn.
LEMMA OverStays ==
    ASSUME Inv, Over, engine = "over", [Next]_vars, Undisturbed
    PROVE  Over' /\ engine' = "over"
<1>0. RowShape /\ CliShape /\ ~tx /\ DOMAIN waiting = {}
    BY DEF Inv, Shape, EngineShape
<1>1. CASE \E m \in Messages : TakeBackEnds(m)
    <2>1. PICK m \in Messages : TakeBackEnds(m)
        BY <1>1
    <2>2. PICK what \in {"his", "delivered"} : TakeBackSays(m, what)
        BY <2>1 DEF TakeBackEnds
    <2>3. UNCHANGED << cli, reads, engine >>
        BY <2>1 DEF TakeBackEnds
    <2>4. \A k \in Messages : row'[k] = row[k] \/ (row'[k] = "box" /\ row[k] = "held")
        BY <1>0, <2>2 DEF TakeBackSays, RowShape, Over
    <2> QED BY <2>3, <2>4 DEF Over
<1>2. CASE \E m \in Messages : SendNowEnds(m)
    BY <1>2 DEF SendNowEnds, Over
<1>3. CASE \E m \in Messages : SendNext(m)
    <2>1. PICK m \in Messages : SendNext(m)
        BY <1>3
    <2>2. /\ row' = [row EXCEPT ![m] = "gone"] /\ reads' = [reads EXCEPT ![m] = @ + 1]
          /\ row[m] = "held" /\ UNCHANGED << cli, engine >>
        BY <2>1 DEF SendNext
    <2>3. reads[m] = 0 /\ reads'[m] = 1 /\ row'[m] = "gone"
        BY <1>0, <2>2 DEF Over, RowShape, CliShape
    <2>4. \A k \in Messages \ {m} : row'[k] = row[k] /\ reads'[k] = reads[k]
        BY <1>0, <2>2 DEF RowShape, CliShape
    <2> QED BY <2>2, <2>3, <2>4 DEF Over
<1>4. CASE UNCHANGED vars
    BY <1>4 DEF vars, Over
<1>5. \A m \in Messages : ~Inject(m) /\ ~TakeBack(m) /\ ~TakeBackUnregistered(m) /\ ~SendNow(m)
    BY DEF Inject, TakeBack, TakeBackUnregistered, SendNow, Over
<1>6. /\ ~ReadLine /\ ~ReadEnd /\ ~Stop /\ ~StopCloses /\ ~Drained /\ ~SilenceChecked
      /\ ~SilenceCloses /\ ~TurnEnds /\ ~CliReads /\ ~CliTakes /\ ~CliFinishes /\ ~CliExits /\ ~CliDies
    BY DEF ReadLine, ReadEnd, Stop, StopCloses, Drained, SilenceChecked, SilenceCloses, TurnEnds,
           CliReads, CliTakes, CliFinishes, CliExits, CliDies, Over
<1> QED BY <1>1, <1>2, <1>3, <1>4, <1>5, <1>6 DEF Next, Command

LEMMA RunningStays ==
    ASSUME Inv, Running, engine # "over", [Next]_vars, Undisturbed
    PROVE  (Running' /\ engine' # "over") \/ (Over' /\ engine' = "over")
<1>1. engine \in {"reading", "returning"} /\ his \cap {"stops", "dies", "resumes"} = {}
    BY DEF Running, Ends, Undisturbed
<1>2. ~Stop /\ ~StopCloses /\ ~Drained /\ ~SilenceChecked /\ ~SilenceCloses /\ ~CliDies
      /\ \A m \in Messages : ~SendNext(m)
    BY <1>1 DEF Stop, StopCloses, Drained, SilenceChecked, SilenceCloses, CliDies, SendNext
<1>3. CASE TurnEnds
    BY <1>3, TurnEndsOnce DEF TurnEnds
<1>4. CASE \E m \in Messages : Command(m)
    <2>1. PICK m \in Messages : Command(m)
        BY <1>4
    <2>2. engine' = engine
        BY <2>1 DEF Command, Inject, TakeBack, TakeBackUnregistered, TakeBackEnds, SendNow, SendNowEnds
    <2>3. Running'
        BY <2>1, InjectOnce, TakeBackOnce, TakeBackEndsOnce, SendNowOnce, SendNowEndsOnce DEF Command
    <2> QED BY <2>2, <2>3
<1>5. CASE ReadLine
    BY <1>5, ReadLineOnce DEF ReadLine
<1>6. CASE ReadEnd
    BY <1>6, ReadEndOnce DEF ReadEnd
<1>7. CASE CliReads
    BY <1>7, CliReadsOnce DEF CliReads
<1>8. CASE CliTakes
    BY <1>8, CliTakesOnce DEF CliTakes
<1>9. CASE CliFinishes
    BY <1>9, CliFinishesOnce DEF CliFinishes
<1>10. CASE CliExits
    BY <1>10, CliExitsOnce DEF CliExits, Exits
<1>11. CASE UNCHANGED vars
    <2>1. UNCHANGED << row, inboxVars, asks, feed, cli, out, engine, reads >>
        BY <1>11 DEF vars
    <2>2. Running'
        <3>1. \A k \in Messages : MessageOnce(k)'
            <4> TAKE k \in Messages
            <4>1. Still(k)
                BY <2>1 DEF Still, Granted, SaidYes, SaidGone, SaidStarted, Fed, InLine, Waits, inboxVars
            <4> QED BY <4>1, StillOnce DEF Running
        <3>2. FedOnce' /\ QueuedOnce' /\ StartedOnce'
            BY <2>1 DEF Running, FedOnce, QueuedOnce, StartedOnce, Waits, inboxVars
        <3>3. GoneFirst' /\ AskedFirst' /\ Ends'
            BY <2>1 DEF Running, GoneFirst, AskedFirst, Ends, SaidYes, inboxVars
        <3> QED BY <3>1, <3>2, <3>3 DEF Running
    <2> QED BY <2>1, <2>2
<1> QED BY <1>2, <1>3, <1>4, <1>5, <1>6, <1>7, <1>8, <1>9, <1>10, <1>11 DEF Next

LEMMA OnceAtFirst ==
    ASSUME Init
    PROVE  Once
<1> SUFFICES ASSUME Undisturbed PROVE Running
    BY DEF Once, Init
<1>1. /\ tx = TRUE /\ waiting = << >> /\ left = {} /\ feed = << >> /\ out = << >> /\ engine = "reading"
      /\ asks = [a \in Asks |-> [m \in Messages |-> "none"]] /\ reads = [m \in Messages |-> 0]
      /\ row = [m \in Messages |-> "typed"]
    BY DEF Init
<1>2. cli.doing \in {"busy", "idle"} /\ cli.queue = << >> /\ cli.eof = FALSE
    BY DEF Init
<1>3. DOMAIN feed = {} /\ DOMAIN out = {} /\ DOMAIN cli.queue = {} /\ DOMAIN waiting = {}
    BY <1>1, <1>2, NoneWait
<1>4. \A m \in Messages : MessageOnce(m)
    BY <1>1, <1>3 DEF MessageOnce, RowOnce, LineOnce, InboxOnce, Nowhere, Resending, TakenBack,
                      Granted, SaidGone, SaidStarted, Fed, InLine, Waits, Asks
<1>5. FedOnce /\ QueuedOnce /\ StartedOnce /\ GoneFirst
    BY <1>3 DEF FedOnce, QueuedOnce, StartedOnce, GoneFirst
<1>6. AskedFirst
    BY <1>1, <1>3 DEF AskedFirst, AskStates, SaidYes
<1>7. Ends
    BY <1>1, <1>2, <1>3 DEF Ends
<1> QED BY <1>4, <1>5, <1>6, <1>7 DEF Running

LEMMA OnceIsKept == Inv /\ Once /\ [Next]_vars => Once'
<1> SUFFICES ASSUME Inv, Once, [Next]_vars, Undisturbed' PROVE (IF engine = "over" THEN Over ELSE Running)'
    BY DEF Once
<1>1. Undisturbed
    <2>1. his' = his
        BY DEF Next, Command, vars, Inject, TakeBack, TakeBackUnregistered, TakeBackEnds, SendNow, SendNowEnds,
               SendNext, ReadLine, ReadEnd, Stop, StopCloses, Drained, SilenceChecked, SilenceCloses, TurnEnds,
               CliReads, CliTakes, CliFinishes, CliExits, CliDies, Exits
    <2> QED BY <2>1 DEF Undisturbed
<1>2. CASE engine = "over"
    BY <1>1, <1>2, OverStays DEF Once
<1>3. CASE engine # "over"
    BY <1>1, <1>3, RunningStays DEF Once
<1> QED BY <1>2, <1>3

LEMMA OnceIsReadOnce ==
    ASSUME Inv, Once
    PROVE  ReadOnce
<1> SUFFICES ASSUME Undisturbed, NEW m \in Messages PROVE reads[m] <= 1 /\ (row[m] = "box" => reads[m] = 0)
    BY DEF ReadOnce, GivenOnce, BoxIsUnread
<1>1. CASE engine = "over"
    BY <1>1 DEF Once, Over
<1>2. CASE engine # "over"
    BY <1>2 DEF Once, Running, MessageOnce, RowOnce, LineOnce, Nowhere
<1> QED BY <1>1, <1>2

LEMMA OnceAlways == Spec => [](Inv /\ Once)
<1>1. Init => Inv /\ Once
    BY InvHoldsAtFirst, OnceAtFirst
<1>2. Inv /\ Once /\ [Next]_vars => (Inv /\ Once)'
    BY InvIsKept, OnceIsKept
<1> QED BY <1>1, <1>2, PTL DEF Spec

\* In a turn that is neither stopped nor dies, a message is the model's or his,
\* and the model's once, whatever he asks of it and however late it is answered.
THEOREM ReadOnceHolds == Spec => []ReadOnce
<1>1. Inv /\ Once => ReadOnce
    BY OnceIsReadOnce
<1> QED BY <1>1, OnceAlways, PTL

----------------------------------------------------------------------------
(***************************************************************************)
(* When a cancel is answered in time it is out until its one answer is     *)
(* read, and a message that waits is on its way: no message waits for ever *)
(* on something nobody will say.                                           *)
(***************************************************************************)

IsCancel(l, a, m) == l.type = "cancel" /\ l.ask = a /\ l.m = m
IsAnswer(l, a, m) == l.type = "answer" /\ l.ask = a /\ l.m = m

Asking(a, m)    == \E n \in DOMAIN feed : IsCancel(feed[n], a, m)
Answered(a, m)  == \E n \in DOMAIN out : IsAnswer(out[n], a, m)
OneCancel(a, m) == \A n, k \in DOMAIN feed : IsCancel(feed[n], a, m) /\ IsCancel(feed[k], a, m) => n = k
OneAnswer(a, m) == \A n, k \in DOMAIN out : IsAnswer(out[n], a, m) /\ IsAnswer(out[k], a, m) => n = k

AskOnce(a, m) ==
    /\ OneCancel(a, m) /\ OneAnswer(a, m)
    /\ Asking(a, m) => asks[a][m] = "out" /\ ~Answered(a, m)
    /\ Answered(a, m) => asks[a][m] = "out"

\* Without a stop every cancel is a take back's or a send now's.
OnlyAsks == \A n \in DOMAIN feed : feed[n].type = "cancel" => feed[n].ask \in Asks

AskedOnce == OnlyAsks /\ \A a \in Asks, m \in Messages : AskOnce(a, m)

OnItsWay ==
    \A m \in Messages : Waits(m) =>
        Fed(m) \/ InLine(m) \/ SaidStarted(m) \/ \E a \in Asks : Granted(a, m)

Way == Prompt /\ engine # "over" => AskedOnce /\ OnItsWay

LEMMA FeedGrows ==
    ASSUME FeedShape, NEW l \in FeedLine, feed' = Append(feed, l)
    PROVE  /\ \A k \in Messages : Fed(k) => Fed(k)'
           /\ \A a \in Asks, k \in Messages : ~IsCancel(l, a, k) =>
                (Asking(a, k)' <=> Asking(a, k)) /\ (OneCancel(a, k) => OneCancel(a, k)')
           /\ \A a \in Asks, k \in Messages : ~Asking(a, k) => OneCancel(a, k)'
           /\ OnlyAsks /\ (l.type = "cancel" => l.ask \in Asks) => OnlyAsks'
<1> DEFINE new == Len(feed) + 1
<1>1. /\ Len(feed') = Len(feed) + 1 /\ feed' \in Seq(FeedLine)
      /\ \A n \in 1..Len(feed) : feed'[n] = feed[n]
      /\ feed'[Len(feed) + 1] = l
    BY AppendProperties DEF FeedShape
<1>2. /\ \A n \in DOMAIN feed : n \in DOMAIN feed' /\ feed'[n] = feed[n]
      /\ \A n \in DOMAIN feed' : n \in DOMAIN feed \/ n = new
      /\ new \in DOMAIN feed' /\ feed'[new] = l
    BY <1>1 DEF FeedShape
<1> HIDE DEF new
<1>3. \A k \in Messages : Fed(k) => Fed(k)'
    BY <1>2 DEF Fed
<1>4. ASSUME NEW a \in Asks, NEW k \in Messages, ~IsCancel(l, a, k)
      PROVE  (Asking(a, k)' <=> Asking(a, k)) /\ (OneCancel(a, k) => OneCancel(a, k)')
    BY <1>2, <1>4 DEF Asking, OneCancel, IsCancel
<1>5. ASSUME NEW a \in Asks, NEW k \in Messages, ~Asking(a, k)
      PROVE  OneCancel(a, k)'
    BY <1>2, <1>5 DEF Asking, OneCancel, IsCancel
<1>6. OnlyAsks /\ (l.type = "cancel" => l.ask \in Asks) => OnlyAsks'
    BY <1>2 DEF OnlyAsks
<1> QED BY <1>3, <1>4, <1>5, <1>6

LEMMA FeedShrinks ==
    ASSUME FeedShape, feed # << >>, feed' = Tail(feed)
    PROVE  /\ \A k \in Messages : Fed(k) => Fed(k)' \/ (Head(feed).type = "user" /\ Head(feed).m = k)
           /\ \A a \in Asks, k \in Messages :
                /\ Asking(a, k)' => Asking(a, k)
                /\ OneCancel(a, k) => OneCancel(a, k)'
                /\ OneCancel(a, k) /\ IsCancel(Head(feed), a, k) => Asking(a, k) /\ ~Asking(a, k)'
           /\ OnlyAsks => OnlyAsks' /\ (Head(feed).type = "cancel" => Head(feed).ask \in Asks)
<1> DEFINE h == Head(feed)
<1>1. /\ feed' \in Seq(FeedLine) /\ Len(feed') = Len(feed) - 1 /\ feed \in Seq(FeedLine)
      /\ \A n \in 1..Len(feed') : feed'[n] = feed[n + 1]
      /\ h = feed[1] /\ 1 \in DOMAIN feed
    BY HeadTailProperties DEF FeedShape
<1> HIDE DEF h
<1>2. \A n \in DOMAIN feed' : n + 1 \in DOMAIN feed /\ feed'[n] = feed[n + 1] /\ n + 1 # 1 /\ n \in Nat \ {0}
    BY <1>1
<1>3. \A j \in DOMAIN feed : j = 1 \/ \E n \in DOMAIN feed' : j = n + 1
    <2> TAKE j \in DOMAIN feed
    <2>1. CASE j # 1
        <3>1. j - 1 \in DOMAIN feed' /\ j = (j - 1) + 1
            BY <1>1, <2>1
        <3> QED BY <3>1
    <2> QED BY <2>1
<1>4. ASSUME NEW k \in Messages, Fed(k) PROVE Fed(k)' \/ (h.type = "user" /\ h.m = k)
    BY <1>1, <1>2, <1>3, <1>4 DEF Fed
<1>5. ASSUME NEW a \in Asks, NEW k \in Messages
      PROVE  /\ Asking(a, k)' => Asking(a, k)
             /\ OneCancel(a, k) => OneCancel(a, k)'
             /\ OneCancel(a, k) /\ IsCancel(h, a, k) => Asking(a, k) /\ ~Asking(a, k)'
    <2>1. Asking(a, k)' => Asking(a, k)
        BY <1>2 DEF Asking, IsCancel
    <2>2. ASSUME OneCancel(a, k) PROVE OneCancel(a, k)'
        <3> SUFFICES ASSUME NEW i \in DOMAIN feed', NEW j \in DOMAIN feed',
                            IsCancel(feed'[i], a, k), IsCancel(feed'[j], a, k)
                     PROVE  i = j
            BY DEF OneCancel, IsCancel
        <3>1. i + 1 = j + 1
            BY <1>2, <2>2 DEF OneCancel
        <3> QED BY <1>2, <3>1
    <2>3. ASSUME OneCancel(a, k), IsCancel(h, a, k) PROVE Asking(a, k) /\ ~Asking(a, k)'
        <3>1. Asking(a, k)
            BY <1>1, <2>3 DEF Asking
        <3>2. ASSUME NEW n \in DOMAIN feed', IsCancel(feed'[n], a, k) PROVE FALSE
            <4>1. n + 1 = 1
                BY <1>1, <1>2, <2>3, <3>2 DEF OneCancel
            <4> QED BY <1>2, <4>1
        <3> QED BY <3>1, <3>2 DEF Asking, IsCancel
    <2> QED BY <2>1, <2>2, <2>3
<1>6. OnlyAsks => OnlyAsks' /\ (h.type = "cancel" => h.ask \in Asks)
    BY <1>1, <1>2 DEF OnlyAsks
<1> QED BY <1>4, <1>5, <1>6 DEF h

LEMMA OutShrinks ==
    ASSUME CliShape, out # << >>, out' = Tail(out)
    PROVE  /\ \A a \in Asks, k \in Messages :
                /\ Answered(a, k)' => Answered(a, k)
                /\ OneAnswer(a, k) => OneAnswer(a, k)'
                /\ IsAnswer(Head(out), a, k) => Answered(a, k)
                /\ OneAnswer(a, k) /\ IsAnswer(Head(out), a, k) => ~Answered(a, k)'
                /\ OneAnswer(a, k) /\ IsAnswer(Head(out), a, k) /\ SaidYes(a, k) => Head(out).yes = TRUE
                /\ ~IsAnswer(Head(out), a, k) /\ SaidYes(a, k) => SaidYes(a, k)'
           /\ \A k \in Messages : SaidStarted(k) => SaidStarted(k)' \/ (Head(out).type = "started" /\ Head(out).m = k)
<1> DEFINE h == Head(out)
<1>1. /\ out' \in Seq(OutLine) /\ Len(out') = Len(out) - 1 /\ out \in Seq(OutLine)
      /\ \A n \in 1..Len(out') : out'[n] = out[n + 1]
      /\ h = out[1] /\ 1 \in DOMAIN out
    BY HeadTailProperties DEF CliShape
<1> HIDE DEF h
<1>2. \A n \in DOMAIN out' : n + 1 \in DOMAIN out /\ out'[n] = out[n + 1] /\ n + 1 # 1 /\ n \in Nat \ {0}
    BY <1>1
<1>3. \A j \in DOMAIN out : j = 1 \/ \E n \in DOMAIN out' : j = n + 1
    <2> TAKE j \in DOMAIN out
    <2>1. CASE j # 1
        <3>1. j - 1 \in DOMAIN out' /\ j = (j - 1) + 1
            BY <1>1, <2>1
        <3> QED BY <3>1
    <2> QED BY <2>1
<1>4. ASSUME NEW k \in Messages, SaidStarted(k) PROVE SaidStarted(k)' \/ (h.type = "started" /\ h.m = k)
    BY <1>1, <1>2, <1>3, <1>4 DEF SaidStarted
<1>5. \A a, k : /\ Answer(a, k, TRUE).type = "answer" /\ Answer(a, k, TRUE).ask = a
                /\ Answer(a, k, TRUE).m = k /\ Answer(a, k, TRUE).yes = TRUE
    BY DEF Answer
<1>6. ASSUME NEW a \in Asks, NEW k \in Messages
      PROVE  /\ Answered(a, k)' => Answered(a, k)
             /\ OneAnswer(a, k) => OneAnswer(a, k)'
             /\ IsAnswer(h, a, k) => Answered(a, k)
             /\ OneAnswer(a, k) /\ IsAnswer(h, a, k) => ~Answered(a, k)'
             /\ OneAnswer(a, k) /\ IsAnswer(h, a, k) /\ SaidYes(a, k) => h.yes = TRUE
             /\ ~IsAnswer(h, a, k) /\ SaidYes(a, k) => SaidYes(a, k)'
    <2>1. Answered(a, k)' => Answered(a, k)
        BY <1>2 DEF Answered, IsAnswer
    <2>2. ASSUME OneAnswer(a, k) PROVE OneAnswer(a, k)'
        <3> SUFFICES ASSUME NEW i \in DOMAIN out', NEW j \in DOMAIN out',
                            IsAnswer(out'[i], a, k), IsAnswer(out'[j], a, k)
                     PROVE  i = j
            BY DEF OneAnswer, IsAnswer
        <3>1. i + 1 = j + 1
            BY <1>2, <2>2 DEF OneAnswer
        <3> QED BY <1>2, <3>1
    <2>3. IsAnswer(h, a, k) => Answered(a, k)
        BY <1>1 DEF Answered
    <2>4. ASSUME OneAnswer(a, k), IsAnswer(h, a, k), Answered(a, k)' PROVE FALSE
        <3>1. PICK n \in DOMAIN out' : IsAnswer(out'[n], a, k)
            BY <2>4 DEF Answered, IsAnswer
        <3>2. n + 1 = 1
            BY <1>1, <1>2, <2>4, <3>1 DEF OneAnswer
        <3> QED BY <1>2, <3>2
    <2>5. ASSUME OneAnswer(a, k), IsAnswer(h, a, k), SaidYes(a, k) PROVE h.yes = TRUE
        <3>1. PICK n \in DOMAIN out : out[n] = Answer(a, k, TRUE)
            BY <2>5 DEF SaidYes
        <3>2. IsAnswer(out[n], a, k) /\ out[n].yes = TRUE
            BY <3>1 DEF IsAnswer, Answer
        <3>3. n = 1
            BY <1>1, <2>5, <3>2 DEF OneAnswer
        <3> QED BY <1>1, <3>2, <3>3
    <2>6. ASSUME ~IsAnswer(h, a, k), SaidYes(a, k) PROVE SaidYes(a, k)'
        <3>1. PICK n \in DOMAIN out : out[n] = Answer(a, k, TRUE)
            BY <2>6 DEF SaidYes
        <3>2. IsAnswer(out[n], a, k)
            BY <3>1 DEF IsAnswer, Answer
        <3>3. PICK j \in DOMAIN out' : n = j + 1
            BY <1>1, <1>3, <2>6, <3>2
        <3>4. out'[j] = Answer(a, k, TRUE)
            BY <1>2, <3>1, <3>3
        <3> QED BY <3>4 DEF SaidYes, Answer
    <2> QED BY <2>1, <2>2, <2>3, <2>4, <2>5, <2>6
<1> QED BY <1>4, <1>6 DEF h

LEMMA OutGrows ==
    ASSUME CliShape, NEW lines \in Seq(OutLine), out' = out \o lines
    PROVE  /\ \A a \in Asks, k \in Messages :
                /\ (\A i \in DOMAIN lines : ~IsAnswer(lines[i], a, k)) =>
                      (Answered(a, k)' => Answered(a, k)) /\ (OneAnswer(a, k) => OneAnswer(a, k)')
                /\ ~Answered(a, k) /\ (\A i, j \in DOMAIN lines :
                      IsAnswer(lines[i], a, k) /\ IsAnswer(lines[j], a, k) => i = j) => OneAnswer(a, k)'
                /\ SaidYes(a, k) => SaidYes(a, k)'
           /\ \A k \in Messages : SaidStarted(k) => SaidStarted(k)'
<1>1. /\ \A n \in DOMAIN out : n \in DOMAIN out' /\ out'[n] = out[n]
      /\ \A n \in DOMAIN out' :
            n \in DOMAIN out \/ \E i \in DOMAIN lines : n = Len(out) + i /\ out'[n] = lines[i]
    BY Written
<1>2. \A k \in Messages : SaidStarted(k) => SaidStarted(k)'
    BY <1>1 DEF SaidStarted
<1>3. ASSUME NEW a \in Asks, NEW k \in Messages
      PROVE  SaidYes(a, k) => SaidYes(a, k)'
    BY <1>1 DEF SaidYes, Answer
<1>4. ASSUME NEW a \in Asks, NEW k \in Messages, \A i \in DOMAIN lines : ~IsAnswer(lines[i], a, k)
      PROVE  (Answered(a, k)' => Answered(a, k)) /\ (OneAnswer(a, k) => OneAnswer(a, k)')
    <2>1. \A n \in DOMAIN out' : IsAnswer(out'[n], a, k) => n \in DOMAIN out /\ out'[n] = out[n]
        BY <1>1, <1>4
    <2> QED BY <2>1 DEF Answered, OneAnswer, IsAnswer
<1>5. ASSUME NEW a \in Asks, NEW k \in Messages, ~Answered(a, k),
             \A i, j \in DOMAIN lines : IsAnswer(lines[i], a, k) /\ IsAnswer(lines[j], a, k) => i = j
      PROVE  OneAnswer(a, k)'
    <2>1. \A n \in DOMAIN out' : IsAnswer(out'[n], a, k) =>
                \E i \in DOMAIN lines : n = Len(out) + i /\ IsAnswer(lines[i], a, k)
        BY <1>1, <1>5 DEF Answered
    <2> QED BY <1>5, <2>1 DEF OneAnswer, IsAnswer
<1> QED BY <1>2, <1>3, <1>4, <1>5

LEMMA WayOn ==
    ASSUME OnItsWay,
           \A k \in Messages : Waits(k)' => Fed(k)' \/
                /\ Waits(k)
                /\ Fed(k) => Fed(k)' \/ InLine(k)'
                /\ InLine(k) => InLine(k)' \/ SaidStarted(k)' \/ \E a \in Asks : Granted(a, k)'
                /\ SaidStarted(k) => SaidStarted(k)'
                /\ \A a \in Asks : Granted(a, k) => Granted(a, k)'
    PROVE  OnItsWay'
<1> SUFFICES ASSUME NEW k \in Messages, k \in DOMAIN waiting'
             PROVE  Fed(k)' \/ InLine(k)' \/ SaidStarted(k)' \/ \E a \in Asks : Granted(a, k)'
    BY DEF OnItsWay, Waits
<1>1. Waits(k)'
    BY DEF Waits
<1> QED BY <1>1 DEF OnItsWay

\* What leaves the queue and the output alone.
LEMMA LinesLeft ==
    ASSUME UNCHANGED << cli, out >>
    PROVE  /\ \A k \in Messages : (InLine(k)' <=> InLine(k)) /\ (SaidStarted(k)' <=> SaidStarted(k))
           /\ \A a \in Asks, k \in Messages : /\ SaidYes(a, k)' <=> SaidYes(a, k)
                                              /\ Answered(a, k)' <=> Answered(a, k)
                                              /\ OneAnswer(a, k)' <=> OneAnswer(a, k)
BY DEF InLine, SaidStarted, SaidYes, Answered, OneAnswer, IsAnswer, Answer

\* A command about message m that moves the ask a.
LEMMA WayCommand ==
    ASSUME FeedShape, AskedOnce, OnItsWay, UNCHANGED << cli, out >>, NEW a \in Asks, NEW m \in Messages,
           \/ feed' = feed
           \/ \E l \in FeedLine : /\ feed' = Append(feed, l)
                                  /\ l.type = "cancel" => IsCancel(l, a, m) /\ asks'[a][m] = "out",
           asks[a][m] # "out",
           \A b \in Asks, k \in Messages : b # a \/ k # m => asks'[b][k] = asks[b][k],
           \A k \in Messages : Waits(k)' => Fed(k)' \/ Waits(k),
           Waits(m)' => Fed(m)' \/ ~Granted(a, m)
    PROVE  AskedOnce' /\ OnItsWay'
<1>1. /\ \A k \in Messages : (InLine(k)' <=> InLine(k)) /\ (SaidStarted(k)' <=> SaidStarted(k))
      /\ \A b \in Asks, k \in Messages : /\ SaidYes(b, k)' <=> SaidYes(b, k)
                                         /\ Answered(b, k)' <=> Answered(b, k)
                                         /\ OneAnswer(b, k)' <=> OneAnswer(b, k)
    BY LinesLeft
<1>2. /\ \A b \in Asks, k \in Messages : AskOnce(b, k)
      /\ OnlyAsks /\ ~Asking(a, m) /\ ~Answered(a, m)
    BY DEF AskedOnce, AskOnce
<1>3. /\ OnlyAsks' /\ \A k \in Messages : Fed(k) => Fed(k)'
      /\ \A b \in Asks, k \in Messages : b # a \/ k # m =>
            (Asking(b, k)' <=> Asking(b, k)) /\ (OneCancel(b, k) => OneCancel(b, k)')
      /\ OneCancel(a, m)' /\ (Asking(a, m)' => asks'[a][m] = "out")
    <2>1. CASE feed' = feed
        BY <1>2, <2>1 DEF OnlyAsks, Fed, Asking, OneCancel, IsCancel
    <2>2. CASE feed' # feed
        <3>1. PICK l \in FeedLine : /\ feed' = Append(feed, l)
                                    /\ l.type = "cancel" => IsCancel(l, a, m) /\ asks'[a][m] = "out"
            BY <2>2
        <3>2. \A b \in Asks, k \in Messages : b # a \/ k # m => ~IsCancel(l, b, k)
            BY <3>1 DEF IsCancel
        <3>3. l.type = "cancel" => l.ask \in Asks
            BY <3>1 DEF IsCancel
        <3>4. /\ OnlyAsks' /\ \A k \in Messages : Fed(k) => Fed(k)'
              /\ \A b \in Asks, k \in Messages : b # a \/ k # m =>
                    (Asking(b, k)' <=> Asking(b, k)) /\ (OneCancel(b, k) => OneCancel(b, k)')
              /\ OneCancel(a, m)' /\ (~IsCancel(l, a, m) => ~Asking(a, m)')
            BY <1>2, <3>1, <3>2, <3>3, FeedGrows
        <3>5. IsCancel(l, a, m) => asks'[a][m] = "out"
            BY <3>1 DEF IsCancel
        <3> QED BY <3>4, <3>5
    <2> QED BY <2>1, <2>2
<1>4. AskedOnce'
    <2>1. ASSUME NEW b \in Asks, NEW k \in Messages PROVE AskOnce(b, k)'
        <3>1. CASE b # a \/ k # m
            BY <1>1, <1>2, <1>3, <3>1 DEF AskOnce
        <3>2. CASE b = a /\ k = m
            <4>1. AskOnce(a, m)'
                BY <1>1, <1>2, <1>3 DEF AskOnce
            <4> QED BY <3>2, <4>1
        <3> QED BY <3>1, <3>2
    <2> QED BY <1>3, <2>1 DEF AskedOnce
<1>5. OnItsWay'
    <2>1. \A b \in Asks, k \in Messages : b # a \/ k # m => (Granted(b, k) => Granted(b, k)')
        BY <1>1 DEF Granted
    <2>2. ASSUME NEW k \in Messages, Waits(k)', ~Fed(k)'
          PROVE  Waits(k) /\ \A b \in Asks : Granted(b, k) => Granted(b, k)'
        BY <2>1, <2>2
    <2> QED BY <1>1, <1>3, <2>2, WayOn
<1> QED BY <1>4, <1>5

\* The engine reads a line.
LEMMA WayRead ==
    ASSUME FeedShape, CliShape, AskedOnce, OnItsWay, out # << >>, out' = Tail(out), UNCHANGED cli,
           feed' = feed \/ feed' = Append(feed, Eof),
           \A b \in Asks, k \in Messages :
                IF IsAnswer(Head(out), b, k) /\ asks[b][k] = "out"
                THEN asks'[b][k] = IF Head(out).yes THEN "yes" ELSE "no"
                ELSE asks'[b][k] = asks[b][k],
           \A k \in Messages : Waits(k)' => Waits(k) /\ ~(Head(out).type = "started" /\ Head(out).m = k)
    PROVE  AskedOnce' /\ OnItsWay'
<1>1. \A k \in Messages : InLine(k)' <=> InLine(k)
    BY DEF InLine
<1>2. /\ \A b \in Asks, k \in Messages : AskOnce(b, k)
      /\ OnlyAsks
    BY DEF AskedOnce
<1>3. /\ OnlyAsks' /\ \A k \in Messages : Fed(k) => Fed(k)'
      /\ \A b \in Asks, k \in Messages : (Asking(b, k)' <=> Asking(b, k)) /\ (OneCancel(b, k) => OneCancel(b, k)')
    <2>1. CASE feed' = feed
        BY <1>2, <2>1 DEF OnlyAsks, Fed, Asking, OneCancel, IsCancel
    <2>2. CASE feed' = Append(feed, Eof)
        <3>1. Eof \in FeedLine /\ Eof.type # "cancel"
            BY LinesAreLines, LineKinds
        <3>2. \A b \in Asks, k \in Messages : ~IsCancel(Eof, b, k)
            BY <3>1 DEF IsCancel
        <3> QED BY <1>2, <2>2, <3>1, <3>2, FeedGrows
    <2> QED BY <2>1, <2>2
<1>4. /\ \A b \in Asks, k \in Messages :
            /\ Answered(b, k)' => Answered(b, k)
            /\ OneAnswer(b, k) => OneAnswer(b, k)'
            /\ IsAnswer(Head(out), b, k) => Answered(b, k)
            /\ OneAnswer(b, k) /\ IsAnswer(Head(out), b, k) => ~Answered(b, k)'
            /\ OneAnswer(b, k) /\ IsAnswer(Head(out), b, k) /\ SaidYes(b, k) => Head(out).yes = TRUE
            /\ ~IsAnswer(Head(out), b, k) /\ SaidYes(b, k) => SaidYes(b, k)'
      /\ \A k \in Messages : SaidStarted(k) => SaidStarted(k)' \/ (Head(out).type = "started" /\ Head(out).m = k)
    BY OutShrinks
<1>5. ASSUME NEW b \in Asks, NEW k \in Messages
      PROVE  AskOnce(b, k)' /\ (Granted(b, k) => Granted(b, k)')
    <2>1. CASE IsAnswer(Head(out), b, k)
        <3>1. /\ Answered(b, k) /\ asks[b][k] = "out" /\ ~Asking(b, k) /\ OneCancel(b, k) /\ OneAnswer(b, k)
            BY <1>2, <1>4, <2>1 DEF AskOnce
        <3>2. ~Answered(b, k)' /\ ~Asking(b, k)' /\ OneCancel(b, k)' /\ OneAnswer(b, k)'
            BY <1>3, <1>4, <2>1, <3>1
        <3>3. SaidYes(b, k) => asks'[b][k] = "yes"
            BY <1>4, <2>1, <3>1
        <3>4. Granted(b, k) => Granted(b, k)'
            BY <3>1, <3>3 DEF Granted
        <3> QED BY <3>2, <3>4 DEF AskOnce
    <2>2. CASE ~IsAnswer(Head(out), b, k)
        <3>1. asks'[b][k] = asks[b][k]
            BY <2>2
        <3> QED BY <1>2, <1>3, <1>4, <2>2, <3>1 DEF AskOnce, Granted
    <2> QED BY <2>1, <2>2
<1>6. OnItsWay'
    <2>1. ASSUME NEW k \in Messages, Waits(k)' PROVE Waits(k) /\ (SaidStarted(k) => SaidStarted(k)')
        BY <1>4, <2>1
    <2> QED BY <1>1, <1>3, <1>5, <2>1, WayOn
<1> QED BY <1>3, <1>5, <1>6 DEF AskedOnce

\* The process writes lines, and what it reads or gives the model goes on.
LEMMA WayProcess ==
    ASSUME CliShape, FeedShape, AskedOnce, OnItsWay, NEW lines \in Seq(OutLine), out' = out \o lines,
           UNCHANGED << asks, waiting >>,
           feed' = feed \/ (feed # << >> /\ feed' = Tail(feed)),
           \A b \in Asks, k \in Messages :
                \/ \A i \in DOMAIN lines : ~IsAnswer(lines[i], b, k)
                \/ /\ IsCancel(Head(feed), b, k) /\ feed # << >> /\ feed' = Tail(feed)
                   /\ \A i, j \in DOMAIN lines : IsAnswer(lines[i], b, k) /\ IsAnswer(lines[j], b, k) => i = j,
           \A k \in Messages :
                /\ feed' # feed /\ Head(feed).type = "user" /\ Head(feed).m = k => InLine(k)'
                /\ InLine(k) => InLine(k)' \/ SaidStarted(k)' \/ \E a \in Asks : Granted(a, k)'
    PROVE  AskedOnce' /\ OnItsWay'
<1>2. /\ \A b \in Asks, k \in Messages : AskOnce(b, k)
      /\ OnlyAsks
    BY DEF AskedOnce
<1>3. /\ \A b \in Asks, k \in Messages :
            /\ (\A i \in DOMAIN lines : ~IsAnswer(lines[i], b, k)) =>
                  (Answered(b, k)' => Answered(b, k)) /\ (OneAnswer(b, k) => OneAnswer(b, k)')
            /\ ~Answered(b, k) /\ (\A i, j \in DOMAIN lines :
                  IsAnswer(lines[i], b, k) /\ IsAnswer(lines[j], b, k) => i = j) => OneAnswer(b, k)'
            /\ SaidYes(b, k) => SaidYes(b, k)'
      /\ \A k \in Messages : SaidStarted(k) => SaidStarted(k)'
    BY OutGrows
<1>4. /\ \A k \in Messages : Fed(k) => Fed(k)' \/ InLine(k)'
      /\ \A b \in Asks, k \in Messages :
            /\ Asking(b, k)' => Asking(b, k)
            /\ OneCancel(b, k) => OneCancel(b, k)'
      /\ OnlyAsks'
    <2>1. CASE feed' = feed
        BY <1>2, <2>1 DEF OnlyAsks, Fed, Asking, OneCancel, IsCancel
    <2>2. CASE feed' # feed
        BY <1>2, <2>2, FeedShrinks
    <2> QED BY <2>1, <2>2
<1>5. ASSUME NEW b \in Asks, NEW k \in Messages
      PROVE  AskOnce(b, k)' /\ (Granted(b, k) => Granted(b, k)')
    <2>1. Granted(b, k) => Granted(b, k)'
        BY <1>3 DEF Granted
    <2>2. CASE \A i \in DOMAIN lines : ~IsAnswer(lines[i], b, k)
        <3>1. (Answered(b, k)' => Answered(b, k)) /\ (OneAnswer(b, k) => OneAnswer(b, k)')
            BY <1>3, <2>2
        <3> QED BY <1>2, <1>4, <2>1, <3>1 DEF AskOnce
    <2>3. CASE ~(\A i \in DOMAIN lines : ~IsAnswer(lines[i], b, k))
        <3>1. /\ IsCancel(Head(feed), b, k) /\ feed # << >> /\ feed' = Tail(feed)
              /\ \A i, j \in DOMAIN lines : IsAnswer(lines[i], b, k) /\ IsAnswer(lines[j], b, k) => i = j
            BY <2>3
        <3>2. Asking(b, k) /\ ~Asking(b, k)'
            BY <1>2, <3>1, FeedShrinks DEF AskOnce
        <3>3. asks[b][k] = "out" /\ ~Answered(b, k) /\ OneCancel(b, k)
            BY <1>2, <3>2 DEF AskOnce
        <3>4. OneAnswer(b, k)'
            BY <1>3, <3>1, <3>3
        <3> QED BY <1>4, <2>1, <3>2, <3>3, <3>4 DEF AskOnce
    <2> QED BY <2>2, <2>3
<1>6. \A k \in Messages : Waits(k)' <=> Waits(k)
    BY DEF Waits
<1>7. OnItsWay'
    BY <1>3, <1>4, <1>5, <1>6, WayOn
<1> QED BY <1>4, <1>5, <1>7 DEF AskedOnce

LEMMA InjectWay ==
    ASSUME Inv, Running, AskedOnce, OnItsWay, NEW m \in Messages, Inject(m)
    PROVE  AskedOnce' /\ OnItsWay'
<1>0. FeedShape /\ Ends
    BY DEF Inv, Shape, Running
<1>1. UNCHANGED << asks, cli, out >> /\ row[m] \in {"typed", "held"}
    BY DEF Inject
<1>2. "take_back" \in Asks /\ asks["take_back"][m] = "none"
    BY <1>1 DEF Running, MessageOnce, RowOnce, Asks
<1>3. ~Granted("take_back", m)
    BY <1>2 DEF Granted
<1>4. PICK sent \in Hands :
        IF sent THEN waiting' = Under(m, 0) /\ feed' = Append(feed, User(m, 0))
        ELSE UNCHANGED << waiting, feed >>
    BY DEF Inject
<1>5. CASE sent
    <2>1. User(m, 0) \in FeedLine /\ User(m, 0).type = "user" /\ User(m, 0).m = m
        BY LinesAreLines, LineKinds DEF Wires
    <2>2. Fed(m)'
        <3> DEFINE l == User(m, 0)
        <3>1. l.type = "user" /\ l.m = m /\ feed' = Append(feed, l) /\ l \in FeedLine
            BY <1>4, <1>5, <2>1
        <3> HIDE DEF l
        <3>2. feed' \in Seq(FeedLine) /\ Len(feed') = Len(feed) + 1 /\ feed'[Len(feed) + 1] = l
            BY <1>0, <3>1, AppendProperties DEF FeedShape
        <3>3. Len(feed) + 1 \in DOMAIN feed'
            BY <1>0, <3>2 DEF FeedShape
        <3> QED BY <3>1, <3>2, <3>3 DEF Fed
    <2>3. \A k \in Messages : Waits(k)' => Fed(k)' \/ Waits(k)
        BY <1>4, <1>5, <2>2, UnderHolds
    <2>4. \E l \in FeedLine : /\ feed' = Append(feed, l)
                              /\ l.type = "cancel" => IsCancel(l, "take_back", m) /\ asks'["take_back"][m] = "out"
        BY <1>4, <1>5, <2>1
    <2> QED BY <1>0, <1>1, <1>2, <2>2, <2>3, <2>4, WayCommand
<1>6. CASE ~sent
    <2>1. \A k \in Messages : Waits(k)' => Waits(k)
        BY <1>4, <1>6 DEF Waits
    <2> QED BY <1>0, <1>1, <1>2, <1>3, <1>4, <1>6, <2>1, WayCommand
<1> QED BY <1>5, <1>6

LEMMA TakeBackWay ==
    ASSUME Inv, Running, AskedOnce, OnItsWay, NEW m \in Messages, TakeBack(m) \/ TakeBackUnregistered(m)
    PROVE  AskedOnce' /\ OnItsWay'
<1>0. FeedShape /\ WaitShape /\ Ends /\ asks \in [Asks -> [Messages -> AskStates]]
    BY DEF Inv, Shape, Running, AskedFirst
<1>1. UNCHANGED << waiting, cli, out >> /\ asks["take_back"][m] = "none" /\ "take_back" \in Asks
    BY DEF TakeBack, TakeBackUnregistered, inboxVars, Asks
<1>2. ~Granted("take_back", m) /\ \A k \in Messages : Waits(k)' => Waits(k)
    BY <1>1 DEF Granted, Waits
<1>3. CASE Waits(m) /\ feed' = Append(feed, Cancel("take_back", m, waiting[m]))
           /\ asks' = [asks EXCEPT !["take_back"][m] = "out"]
    <2> DEFINE l == Cancel("take_back", m, waiting[m])
    <2>1. waiting[m] \in Wires
        BY <1>0, <1>3 DEF WaitShape, Waits
    <2>2. l \in FeedLine /\ IsCancel(l, "take_back", m) /\ feed' = Append(feed, l)
        BY <1>1, <1>3, <2>1, LinesAreLines, LineKinds DEF IsCancel
    <2>3. /\ asks'["take_back"][m] = "out"
          /\ \A b \in Asks, k \in Messages : b # "take_back" \/ k # m => asks'[b][k] = asks[b][k]
        BY <1>0, <1>1, <1>3
    <2> HIDE DEF l
    <2> QED BY <1>0, <1>1, <1>2, <2>2, <2>3, WayCommand
<1>4. CASE UNCHANGED feed /\ \E what \in {"his", "delivered"} : TakeBackSays(m, what)
    <2>1. PICK what \in {"his", "delivered"} : asks' = [asks EXCEPT !["take_back"][m] = what]
        BY <1>4 DEF TakeBackSays
    <2>2. \A b \in Asks, k \in Messages : b # "take_back" \/ k # m => asks'[b][k] = asks[b][k]
        BY <1>0, <2>1
    <2> QED BY <1>0, <1>1, <1>2, <1>4, <2>2, WayCommand
<1>5. CASE TakeBack(m) /\ Waits(m) /\ m \notin left
    <2>1. PICK sent \in Hands :
            IF sent
            THEN /\ feed' = Append(feed, Cancel("take_back", m, waiting[m]))
                 /\ asks' = [asks EXCEPT !["take_back"][m] = "out"]
                 /\ UNCHANGED row
            ELSE TakeBackSays(m, "his") /\ UNCHANGED feed
        BY <1>5 DEF TakeBack
    <2> QED BY <1>3, <1>4, <1>5, <2>1
<1>6. CASE ~(TakeBack(m) /\ Waits(m) /\ m \notin left)
    BY <1>4, <1>6 DEF TakeBack, TakeBackUnregistered
<1> QED BY <1>5, <1>6

LEMMA TakeBackEndsWay ==
    ASSUME Inv, Running, AskedOnce, OnItsWay, Prompt, NEW m \in Messages, TakeBackEnds(m)
    PROVE  AskedOnce' /\ OnItsWay'
<1>0. FeedShape /\ WaitShape /\ asks \in [Asks -> [Messages -> AskStates]] /\ "take_back" \in Asks
    BY DEF Inv, Shape, Running, AskedFirst, Asks
<1>1. UNCHANGED << cli, out >> /\ asks["take_back"][m] \in {"yes", "no", "dropped"}
    BY DEF TakeBackEnds, Settled, Prompt
<1>2. PICK what \in {"his", "delivered"} : asks' = [asks EXCEPT !["take_back"][m] = what]
    BY DEF TakeBackEnds, TakeBackSays
<1>3. \A b \in Asks, k \in Messages : b # "take_back" \/ k # m => asks'[b][k] = asks[b][k]
    BY <1>0, <1>2
<1>4. CASE TakeBackYes(m)
    <2>1. waiting' = Without(m) /\ CloseIfIdle(Without(m))
        BY <1>4 DEF TakeBackEnds
    <2>2. ~Waits(m)' /\ \A k \in Messages : Waits(k)' => Waits(k)
        BY <2>1 DEF Waits, Without
    <2>3. \/ feed' = feed
          \/ \E l \in FeedLine : /\ feed' = Append(feed, l)
                                 /\ l.type = "cancel" => IsCancel(l, "take_back", m) /\ asks'["take_back"][m] = "out"
        BY <2>1, LinesAreLines, LineKinds DEF CloseIfIdle
    <2> QED BY <1>0, <1>1, <1>3, <2>2, <2>3, WayCommand
<1>5. CASE ~TakeBackYes(m)
    <2>1. UNCHANGED << waiting, feed >>
        BY <1>5 DEF TakeBackEnds
    <2>2. ~Granted("take_back", m)
        BY <1>1, <1>5 DEF TakeBackYes, Granted
    <2>3. \A k \in Messages : Waits(k)' => Waits(k)
        BY <2>1 DEF Waits
    <2> QED BY <1>0, <1>1, <1>3, <2>1, <2>2, <2>3, WayCommand
<1> QED BY <1>4, <1>5

LEMMA SendNowWay ==
    ASSUME Inv, Running, AskedOnce, OnItsWay, NEW m \in Messages, SendNow(m)
    PROVE  AskedOnce' /\ OnItsWay'
<1>0. FeedShape /\ WaitShape /\ asks \in [Asks -> [Messages -> AskStates]]
    BY DEF Inv, Shape, Running, AskedFirst
<1>1. UNCHANGED << waiting, cli, out >> /\ asks["send_now"][m] = "none" /\ "send_now" \in Asks
    BY DEF SendNow, Asks
<1>2. ~Granted("send_now", m) /\ \A k \in Messages : Waits(k)' => Waits(k)
    BY <1>1 DEF Granted, Waits
<1>3. PICK sent \in Hands :
        IF Waits(m) /\ m \notin left /\ sent
        THEN /\ feed' = Append(feed, Cancel("send_now", m, waiting[m]))
             /\ asks' = [asks EXCEPT !["send_now"][m] = "out"]
        ELSE /\ asks' = [asks EXCEPT !["send_now"][m] = "done"]
             /\ UNCHANGED feed
    BY DEF SendNow
<1>4. CASE Waits(m) /\ m \notin left /\ sent
    <2> DEFINE l == Cancel("send_now", m, waiting[m])
    <2>1. waiting[m] \in Wires
        BY <1>0, <1>4 DEF WaitShape, Waits
    <2>2. l \in FeedLine /\ IsCancel(l, "send_now", m) /\ feed' = Append(feed, l)
        BY <1>1, <1>3, <1>4, <2>1, LinesAreLines, LineKinds DEF IsCancel
    <2>3. /\ asks'["send_now"][m] = "out"
          /\ \A b \in Asks, k \in Messages : b # "send_now" \/ k # m => asks'[b][k] = asks[b][k]
        BY <1>0, <1>1, <1>3, <1>4
    <2> HIDE DEF l
    <2> QED BY <1>0, <1>1, <1>2, <2>2, <2>3, WayCommand
<1>5. CASE ~(Waits(m) /\ m \notin left /\ sent)
    <2>1. \A b \in Asks, k \in Messages : b # "send_now" \/ k # m => asks'[b][k] = asks[b][k]
        BY <1>0, <1>3, <1>5
    <2> QED BY <1>0, <1>1, <1>2, <1>3, <1>5, <2>1, WayCommand
<1> QED BY <1>4, <1>5

LEMMA SendNowEndsWay ==
    ASSUME Inv, Running, AskedOnce, OnItsWay, Prompt, NEW m \in Messages, SendNowEnds(m)
    PROVE  AskedOnce' /\ OnItsWay'
<1>0. FeedShape /\ asks \in [Asks -> [Messages -> AskStates]] /\ "send_now" \in Asks
    BY DEF Inv, Shape, Running, AskedFirst, Asks
<1>1. /\ UNCHANGED << cli, out >> /\ asks["send_now"][m] \in {"yes", "no", "dropped"}
      /\ asks' = [asks EXCEPT !["send_now"][m] = "done"]
    BY DEF SendNowEnds, Settled, Prompt
<1>2. \A b \in Asks, k \in Messages : b # "send_now" \/ k # m => asks'[b][k] = asks[b][k]
    BY <1>0, <1>1
<1>3. CASE Waits(m) /\ Resend(m)
    <2>1. PICK sent \in Hands :
            IF sent THEN waiting' = Under(m, 1) /\ feed' = Append(feed, User(m, 1))
            ELSE waiting' = Without(m) /\ UNCHANGED feed
        BY <1>3 DEF SendNowEnds
    <2>2. CASE sent
        <3> DEFINE l == User(m, 1)
        <3>1. l.type = "user" /\ l.m = m /\ feed' = Append(feed, l) /\ l \in FeedLine
            BY <2>1, <2>2, LinesAreLines, LineKinds DEF Wires
        <3> HIDE DEF l
        <3>2. feed' \in Seq(FeedLine) /\ Len(feed') = Len(feed) + 1 /\ feed'[Len(feed) + 1] = l
            BY <1>0, <3>1, AppendProperties DEF FeedShape
        <3>3. Len(feed) + 1 \in DOMAIN feed'
            BY <1>0, <3>2 DEF FeedShape
        <3>4. Fed(m)'
            BY <3>1, <3>2, <3>3 DEF Fed
        <3>5. \A k \in Messages : Waits(k)' => Fed(k)' \/ Waits(k)
            BY <2>1, <2>2, <3>4, UnderHolds
        <3>6. \E i \in FeedLine : /\ feed' = Append(feed, i)
                                  /\ i.type = "cancel" => IsCancel(i, "send_now", m) /\ asks'["send_now"][m] = "out"
            BY <3>1
        <3> QED BY <1>0, <1>1, <1>2, <3>4, <3>5, <3>6, WayCommand
    <2>3. CASE ~sent
        <3>1. ~Waits(m)' /\ \A k \in Messages : Waits(k)' => Waits(k)
            BY <2>1, <2>3 DEF Waits, Without
        <3> QED BY <1>0, <1>1, <1>2, <2>1, <2>3, <3>1, WayCommand
    <2> QED BY <2>2, <2>3
<1>4. CASE ~(Waits(m) /\ Resend(m))
    <2>1. UNCHANGED << waiting, feed >>
        BY <1>4 DEF SendNowEnds
    <2>2. \A k \in Messages : Waits(k)' => Waits(k)
        BY <2>1 DEF Waits
    <2>3. Waits(m)' => ~Granted("send_now", m)
        BY <1>1, <1>4, <2>1 DEF Waits, Resend, Granted
    <2> QED BY <1>0, <1>1, <1>2, <2>1, <2>2, <2>3, WayCommand
<1> QED BY <1>3, <1>4

LEMMA ReadLineWay ==
    ASSUME Inv, Running, AskedOnce, OnItsWay, ReadLine
    PROVE  AskedOnce' /\ OnItsWay'
<1>0. FeedShape /\ CliShape /\ asks \in [Asks -> [Messages -> AskStates]]
    BY DEF Inv, Shape, Running, AskedFirst
<1>1. out # << >> /\ out' = Tail(out) /\ UNCHANGED cli
    BY DEF ReadLine
<1>2. Head(out) \in OutLine
    BY <1>0, <1>1, HeadTailProperties DEF CliShape
<1>3. Head(out).type \in {"started", "cancelled", "answer", "result", "end"}
    BY <1>2, OutLineFields
<1>4. CASE Head(out).type \in {"started", "cancelled", "result"}
    <2>1. UNCHANGED asks /\ (feed' = feed \/ feed' = Append(feed, Eof))
        BY <1>4 DEF ReadLine, OnStarted, OnCancelled, OnResult
    <2>2. \A b, k : ~IsAnswer(Head(out), b, k)
        BY <1>4 DEF IsAnswer
    <2>3. \A k \in Messages : Waits(k)' => Waits(k) /\ ~(Head(out).type = "started" /\ Head(out).m = k)
        <3>1. CASE Head(out).type = "started"
            <4>1. OnStarted(Head(out).m, Head(out).wire)
                BY <3>1 DEF ReadLine
            <4>2. PICK m \in Messages : Head(out).m = m
                BY <1>2, <3>1, OutLineFields
            <4>3. Waits(m) /\ waiting[m] = Head(out).wire
                <5>1. Asked
                    BY <2>1 DEF Asked
                <5> QED BY <1>0, <1>1, <3>1, <4>2, <5>1, OutLess DEF Running
            <4>4. waiting' = Without(m)
                BY <4>1, <4>2, <4>3 DEF OnStarted
            <4> QED BY <4>2, <4>4 DEF Waits, Without
        <3>2. CASE Head(out).type = "cancelled"
            <4>1. waiting' = Without(Head(out).m) \/ UNCHANGED waiting
                BY <3>2 DEF ReadLine, OnCancelled
            <4> QED BY <3>2, <4>1 DEF Waits, Without
        <3>3. CASE Head(out).type = "result"
            BY <3>3 DEF ReadLine, OnResult, Waits
        <3> QED BY <1>4, <3>1, <3>2, <3>3
    <2> QED BY <1>0, <1>1, <2>1, <2>2, <2>3, WayRead
<1>5. CASE Head(out).type = "answer"
    <2>1. OnAnswer(Head(out).ask, Head(out).m, Head(out).yes)
        BY <1>5 DEF ReadLine
    <2>2. UNCHANGED << feed, waiting >>
        BY <2>1 DEF OnAnswer, inboxVars
    <2> DEFINE a == Head(out).ask
               m == Head(out).m
               v == IF Head(out).yes THEN "yes" ELSE "no"
    <2>3. asks' = IF asks[a][m] = "out" THEN [asks EXCEPT ![a][m] = v] ELSE asks
        BY <2>1 DEF OnAnswer
    <2>4. \A b, k : IsAnswer(Head(out), b, k) <=> b = a /\ k = m
        BY <1>5 DEF IsAnswer
    <2>5. \A b \in Asks, k \in Messages :
                IF IsAnswer(Head(out), b, k) /\ asks[b][k] = "out"
                THEN asks'[b][k] = v
                ELSE asks'[b][k] = asks[b][k]
        <3> HIDE DEF a, m, v
        <3> QED BY <1>0, <2>3, <2>4
    <2>6. \A k \in Messages : Waits(k)' => Waits(k) /\ ~(Head(out).type = "started" /\ Head(out).m = k)
        BY <1>5, <2>2 DEF Waits
    <2> QED BY <1>0, <1>1, <2>2, <2>5, <2>6, WayRead
<1> QED BY <1>3, <1>4, <1>5 DEF ReadLine

LEMMA ReadEndWay ==
    ASSUME Inv, Running, ReadEnd
    PROVE  AskedOnce' /\ OnItsWay'
<1>0. CliShape /\ Ends
    BY DEF Inv, Shape, Running
<1>1. out # << >> /\ Head(out).type = "end" /\ Close /\ out' = << >>
    BY DEF ReadEnd
<1>2. 1 \in DOMAIN out /\ Head(out) = out[1]
    BY <1>0, <1>1 DEF CliShape
<1>3. ~tx /\ feed = << >>
    BY <1>0, <1>1, <1>2 DEF Ends
<1>4. feed' = << >> /\ waiting' = << >>
    BY <1>1, <1>3 DEF Close
<1>5. DOMAIN feed' = {} /\ DOMAIN out' = {} /\ DOMAIN waiting' = {}
    BY <1>1, <1>4, NoneWait
<1>6. OnItsWay'
    BY <1>5 DEF OnItsWay, Waits
<1>7. AskedOnce'
    BY <1>5 DEF AskedOnce, OnlyAsks, AskOnce, Asking, Answered, OneCancel, OneAnswer
<1> QED BY <1>6, <1>7

LEMMA QueueShrinks ==
    ASSUME CliShape, NEW at \in DOMAIN cli.queue, cli'.queue \in Seq(Messages \X Wires),
           Len(cli'.queue) = Len(cli.queue) - 1,
           \A n \in 1..Len(cli'.queue) :
                cli'.queue[n] = IF n < at THEN cli.queue[n] ELSE cli.queue[n + 1]
    PROVE  \A k \in Messages : InLine(k) => InLine(k)' \/ k = cli.queue[at][1]
<1> DEFINE q == cli.queue
           r == cli'.queue
<1>1. /\ q \in Seq(Messages \X Wires) /\ r \in Seq(Messages \X Wires)
      /\ Len(r) = Len(q) - 1 /\ at \in DOMAIN q
      /\ \A n \in 1..Len(r) : r[n] = IF n < at THEN q[n] ELSE q[n + 1]
    BY DEF CliShape
<1>2. /\ \A k \in Messages : InLine(k)' <=> \E n \in DOMAIN r : r[n][1] = k
      /\ \A k \in Messages : InLine(k) <=> \E n \in DOMAIN q : q[n][1] = k
    BY DEF InLine
<1> HIDE DEF q, r
<1>3. DOMAIN q = 1..Len(q) /\ DOMAIN r = 1..Len(r) /\ Len(q) \in Nat /\ Len(r) \in Nat
    BY <1>1
<1>4. ASSUME NEW j \in DOMAIN q, j # at PROVE \E n \in DOMAIN r : r[n] = q[j]
    <2>0. j \in 1..Len(q) /\ at \in 1..Len(q)
        BY <1>1, <1>3
    <2>1. CASE j < at
        <3>1. j \in 1..Len(r)
            BY <1>1, <1>3, <2>0, <2>1
        <3> QED BY <1>1, <1>3, <2>1, <3>1
    <2>2. CASE ~(j < at)
        <3>1. j - 1 \in 1..Len(r) /\ ~(j - 1 < at) /\ (j - 1) + 1 = j
            BY <1>1, <1>3, <1>4, <2>0, <2>2
        <3>2. r[j - 1] = q[j]
            BY <1>1, <3>1
        <3> QED BY <1>3, <3>1, <3>2
    <2> QED BY <2>1, <2>2
<1>5. ASSUME NEW k \in Messages, InLine(k), k # q[at][1] PROVE InLine(k)'
    <2>1. PICK j \in DOMAIN q : q[j][1] = k
        BY <1>2, <1>5
    <2>2. PICK n \in DOMAIN r : r[n] = q[j]
        BY <1>4, <1>5, <2>1
    <2> QED BY <1>2, <2>1, <2>2
<1> QED BY <1>5 DEF q

LEMMA UserWay ==
    ASSUME Inv, Running, AskedOnce, OnItsWay, CliReads, Head(feed).type = "user"
    PROVE  AskedOnce' /\ OnItsWay'
<1>0. FeedShape /\ CliShape
    BY DEF Inv, Shape
<1>1. feed # << >> /\ feed' = Tail(feed) /\ UNCHANGED << waiting, asks >>
    BY DEF CliReads, inboxVars
<1>2. UNCHANGED out /\ cli' = [cli EXCEPT !.queue = Append(@, << Head(feed).m, Head(feed).wire >>)]
    BY DEF CliReads
<1>3. PICK m \in Messages, w \in Wires : Head(feed).m = m /\ Head(feed).wire = w
    <2>1. Head(feed) \in FeedLine
        BY <1>0, <1>1, HeadTailProperties DEF FeedShape
    <2> QED BY <2>1, FeedLineFields
<1>4. InLine(m)' /\ \A k \in Messages : InLine(k) => InLine(k)'
    <2> DEFINE q == cli.queue
               r == cli'.queue
               l == << m, w >>
               Pair == Messages \X Wires
    <2>1. q \in Seq(Pair) /\ l \in Pair /\ r = Append(q, l) /\ l[1] = m
        BY <1>0, <1>2, <1>3 DEF CliShape
    <2>2. /\ \A k \in Messages : InLine(k)' <=> \E n \in DOMAIN r : r[n][1] = k
          /\ \A k \in Messages : InLine(k) <=> \E n \in DOMAIN q : q[n][1] = k
        BY DEF InLine
    <2> HIDE DEF q, r, l, Pair
    <2>3. /\ Len(r) = Len(q) + 1 /\ DOMAIN r = 1..Len(r) /\ DOMAIN q = 1..Len(q) /\ Len(q) \in Nat
          /\ \A n \in 1..Len(q) : r[n] = q[n]
          /\ r[Len(q) + 1] = l
        BY <2>1, AppendProperties
    <2>4. Len(q) + 1 \in DOMAIN r /\ \A n \in DOMAIN q : n \in DOMAIN r /\ r[n] = q[n]
        BY <2>3
    <2> QED BY <2>1, <2>2, <2>3, <2>4
<1>5. << >> \in Seq(OutLine) /\ out' = out \o << >> /\ DOMAIN << >> = {}
    BY <1>0, <1>2 DEF CliShape
<1> DEFINE lines == << >>
<1>6. lines \in Seq(OutLine) /\ out' = out \o lines /\ \A i \in DOMAIN lines : FALSE
    BY <1>5
<1> HIDE DEF lines
<1> QED BY <1>0, <1>1, <1>3, <1>4, <1>6, WayProcess

LEMMA CancelWay ==
    ASSUME Inv, Running, AskedOnce, OnItsWay, CliReads,
           NEW m \in Messages, NEW w \in Wires, NEW ask \in Asks \cup {"stop"}, Head(feed) = Cancel(ask, m, w)
    PROVE  AskedOnce' /\ OnItsWay'
<1>0. FeedShape /\ CliShape
    BY DEF Inv, Shape
<1>1. feed # << >> /\ feed' = Tail(feed) /\ UNCHANGED << waiting, asks >> /\ cli.doing # "exited"
    BY DEF CliReads, inboxVars
<1>2. /\ Head(feed).type = "cancel" /\ Head(feed).ask = ask /\ Head(feed).m = m /\ Head(feed).wire = w
    BY DEF Cancel
<1>3. ask \in Asks /\ IsCancel(Head(feed), ask, m)
    BY <1>0, <1>1, <1>2, FeedShrinks DEF AskedOnce, IsCancel
<1>4. asks[ask][m] = "out"
    BY <1>0, <1>1, <1>3, FeedShrinks DEF AskedOnce, AskOnce
<1>5. engine = "reading"
    BY <1>1, ThereIsReading
<1>6. CASE Queued(m, w)
    <2> DEFINE g == Cancelled(m, w)
               y == Answer(ask, m, TRUE)
               lines == << g, y >>
    <2>1. cli' = [cli EXCEPT !.queue = Unqueued(m, w)] /\ Says(lines)
        BY <1>2, <1>6 DEF CliReads
    <2>2. cli'.queue = Unqueued(m, w)
        BY <1>0, <2>1 DEF CliShape
    <2>3. \A k \in Messages : InLine(k) => InLine(k)' \/ k = m
        <3>1. cli'.queue \in Seq(Messages \X Wires) /\ Len(cli'.queue) = Len(cli.queue) - 1
            BY <1>0, <1>6, <2>2, UnqueuedLess
        <3>2. PICK at \in DOMAIN cli.queue :
                /\ cli.queue[at] = << m, w >>
                /\ \A n \in 1..Len(cli'.queue) :
                        cli'.queue[n] = IF n < at THEN cli.queue[n] ELSE cli.queue[n + 1]
            BY <1>0, <1>6, <2>2, UnqueuedLess
        <3>3. m = cli.queue[at][1]
            BY <3>2
        <3> QED BY <1>0, <3>1, <3>2, <3>3, QueueShrinks
    <2>4. g \in OutLine /\ g.type # "answer" /\ y \in OutLine /\ \A b, k : IsAnswer(y, b, k) => b = ask /\ k = m
        BY LinesAreLines DEF Cancelled, Answer, IsAnswer
    <2>5. out' = out \o lines
        BY <1>5, <2>1 DEF Says
    <2>a. y = Answer(ask, m, TRUE)
        OBVIOUS
    <2> HIDE DEF g, y
    <2>6. lines \in Seq(OutLine) /\ DOMAIN lines = {1, 2} /\ lines[1] = g /\ lines[2] = y
        BY <2>4, LineSeqs
    <2> HIDE DEF lines
    <2>7. Granted(ask, m)'
        <3>1. \A i \in DOMAIN lines : Len(out) + i \in DOMAIN out' /\ out'[Len(out) + i] = lines[i]
            BY <1>0, <2>5, <2>6, Written
        <3>2. Len(out) + 2 \in DOMAIN out' /\ out'[Len(out) + 2] = y
            BY <2>6, <3>1
        <3>3. \E n \in DOMAIN out' : out'[n] = Answer(ask, m, TRUE)
            BY <2>a, <3>2
        <3>4. SaidYes(ask, m)'
            BY <3>3 DEF SaidYes, Answer
        <3> QED BY <1>1, <1>4, <3>4 DEF Granted
    <2>8. \A k \in Messages : InLine(k) => InLine(k)' \/ \E a \in Asks : Granted(a, k)'
        <3> TAKE k \in Messages
        <3>1. k = m => \E a \in Asks : Granted(a, k)'
            <4>1. \E a \in Asks : Granted(a, m)'
                BY <1>3, <2>7
            <4> QED BY <4>1
        <3> QED BY <2>3, <3>1
    <2>9. \A b \in Asks, k \in Messages :
                \/ \A i \in DOMAIN lines : ~IsAnswer(lines[i], b, k)
                \/ /\ IsCancel(Head(feed), b, k) /\ feed # << >> /\ feed' = Tail(feed)
                   /\ \A i, j \in DOMAIN lines : IsAnswer(lines[i], b, k) /\ IsAnswer(lines[j], b, k) => i = j
        <3> TAKE b \in Asks, k \in Messages
        <3>1. ~IsAnswer(lines[1], b, k)
            BY <2>4, <2>6 DEF IsAnswer
        <3>2. \A i \in DOMAIN lines : IsAnswer(lines[i], b, k) => i = 2 /\ b = ask /\ k = m
            BY <2>4, <2>6, <3>1
        <3> QED BY <1>1, <1>3, <3>2
    <2>10. Head(feed).type # "user"
        BY <1>2
    <2> QED BY <1>0, <1>1, <2>5, <2>6, <2>8, <2>9, <2>10, WayProcess
<1>7. CASE ~Queued(m, w)
    <2> DEFINE y == Answer(ask, m, FALSE)
               lines == << y >>
    <2>1. Says(lines) /\ UNCHANGED cli
        BY <1>2, <1>7 DEF CliReads
    <2>2. y \in OutLine /\ \A b, k : IsAnswer(y, b, k) => b = ask /\ k = m
        BY LinesAreLines DEF Answer, IsAnswer
    <2>3. out' = out \o lines
        BY <1>5, <2>1 DEF Says
    <2> HIDE DEF y
    <2>4. lines \in Seq(OutLine) /\ DOMAIN lines = {1} /\ lines[1] = y
        BY <2>2, LineSeqs
    <2> HIDE DEF lines
    <2>5. \A k \in Messages : InLine(k) => InLine(k)'
        BY <2>1 DEF InLine
    <2>6. \A b \in Asks, k \in Messages :
                \/ \A i \in DOMAIN lines : ~IsAnswer(lines[i], b, k)
                \/ /\ IsCancel(Head(feed), b, k) /\ feed # << >> /\ feed' = Tail(feed)
                   /\ \A i, j \in DOMAIN lines : IsAnswer(lines[i], b, k) /\ IsAnswer(lines[j], b, k) => i = j
        <3> TAKE b \in Asks, k \in Messages
        <3>1. \A i \in DOMAIN lines : i = 1 /\ (IsAnswer(lines[i], b, k) => b = ask /\ k = m)
            BY <2>2, <2>4
        <3> QED BY <1>1, <1>3, <3>1
    <2>7. Head(feed).type # "user"
        BY <1>2
    <2> QED BY <1>0, <1>1, <2>3, <2>4, <2>5, <2>6, <2>7, WayProcess
<1> QED BY <1>6, <1>7

LEMMA CliReadsWay ==
    ASSUME Inv, Running, AskedOnce, OnItsWay, CliReads
    PROVE  AskedOnce' /\ OnItsWay'
<1>0. FeedShape /\ CliShape
    BY DEF Inv, Shape
<1>1. feed # << >> /\ feed' = Tail(feed) /\ UNCHANGED << waiting, asks >> /\ Head(feed) \in FeedLine
    <2>1. feed # << >> /\ feed' = Tail(feed) /\ UNCHANGED << waiting, asks >>
        BY DEF CliReads, inboxVars
    <2> QED BY <1>0, <2>1, HeadTailProperties DEF FeedShape
<1>2. CASE \E m \in Messages, w \in Wires : Head(feed) = User(m, w)
    <2>1. Head(feed).type = "user"
        BY <1>2 DEF User
    <2> QED BY <2>1, UserWay
<1>3. CASE \E ask \in Asks \cup {"stop"}, m \in Messages, w \in Wires : Head(feed) = Cancel(ask, m, w)
    BY <1>3, CancelWay
<1>4. CASE Head(feed) = Eof
    <2>1. Head(feed).type = "eof"
        BY <1>4 DEF Eof
    <2>2. UNCHANGED out /\ cli' = [cli EXCEPT !.eof = TRUE]
        BY <2>1 DEF CliReads
    <2>3. cli'.queue = cli.queue
        BY <1>0, <2>2 DEF CliShape
    <2>4. \A k \in Messages : InLine(k) => InLine(k)'
        BY <2>3 DEF InLine
    <2>5. << >> \in Seq(OutLine) /\ out' = out \o << >> /\ DOMAIN << >> = {}
        BY <1>0, <2>2 DEF CliShape
    <2> DEFINE lines == << >>
    <2>6. lines \in Seq(OutLine) /\ out' = out \o lines /\ \A i \in DOMAIN lines : FALSE
        BY <2>5
    <2> HIDE DEF lines
    <2>7. Head(feed).type # "user"
        BY <2>1
    <2>8. \A b \in Asks, k \in Messages : \A i \in DOMAIN lines : ~IsAnswer(lines[i], b, k)
        BY <2>6
    <2> QED BY <1>0, <1>1, <2>4, <2>6, <2>7, <2>8, WayProcess
<1>5. Head(feed) = Eof \/ (\E m \in Messages, w \in Wires : Head(feed) = User(m, w))
      \/ \E ask \in Asks \cup {"stop"}, m \in Messages, w \in Wires : Head(feed) = Cancel(ask, m, w)
    BY <1>1 DEF FeedLine
<1> QED BY <1>2, <1>3, <1>4, <1>5

LEMMA CliTakesWay ==
    ASSUME Inv, Running, AskedOnce, OnItsWay, CliTakes
    PROVE  AskedOnce' /\ OnItsWay'
<1>0. FeedShape /\ CliShape
    BY DEF Inv, Shape
<1>1. 1 \in DOMAIN cli.queue /\ Head(cli.queue) = cli.queue[1] /\ cli.queue \in Seq(Messages \X Wires)
      /\ cli.queue # << >> /\ cli.doing # "exited"
    <2>1. cli.queue # << >> /\ cli.queue \in Seq(Messages \X Wires)
        BY <1>0 DEF CliTakes, CliShape
    <2> QED BY <2>1 DEF CliTakes
<1>2. PICK m \in Messages, w \in Wires : cli.queue[1] = << m, w >>
    <2>1. cli.queue[1] \in Messages \X Wires
        BY <1>1
    <2> QED BY <2>1
<1> DEFINE l == Started(m, w)
           lines == << l >>
<1>3. cli' = [cli EXCEPT !.queue = Tail(@), !.doing = "busy"] /\ Says(lines)
      /\ UNCHANGED << waiting, asks, feed >>
    <2>1. Head(cli.queue)[1] = m /\ Head(cli.queue)[2] = w
        BY <1>1, <1>2
    <2> QED BY <2>1 DEF CliTakes, inboxVars
<1>4. cli'.queue = Tail(cli.queue)
    BY <1>0, <1>3 DEF CliShape
<1>5. \A k \in Messages : InLine(k) => InLine(k)' \/ k = m
    <2> DEFINE q == cli.queue
               r == cli'.queue
               Pair == Messages \X Wires
    <2>1. q \in Seq(Pair) /\ r = Tail(q) /\ q # << >> /\ q[1][1] = m
        BY <1>1, <1>2, <1>4
    <2>2. /\ \A k \in Messages : InLine(k)' <=> \E n \in DOMAIN r : r[n][1] = k
          /\ \A k \in Messages : InLine(k) <=> \E n \in DOMAIN q : q[n][1] = k
        BY DEF InLine
    <2> HIDE DEF q, r, Pair
    <2>3. r \in Seq(Pair) /\ Len(r) = Len(q) - 1 /\ \A n \in 1..Len(r) : r[n] = q[n + 1]
        BY <2>1, HeadTailProperties
    <2>4. ASSUME NEW j \in DOMAIN q, j # 1 PROVE j - 1 \in DOMAIN r /\ r[j - 1] = q[j]
        <3>1. j - 1 \in 1..Len(r) /\ (j - 1) + 1 = j
            BY <2>1, <2>3, <2>4
        <3> QED BY <2>3, <3>1
    <2> QED BY <2>1, <2>2, <2>4
<1>6. l \in OutLine /\ l.type = "started" /\ l.m = m
    BY LinesAreLines, LineKinds
<1>7. out' = out \o lines
    BY <1>1, <1>3, ThereIsReading DEF Says
<1> HIDE DEF l
<1>8. lines \in Seq(OutLine) /\ DOMAIN lines = {1} /\ lines[1] = l
    BY <1>6, LineSeqs
<1> HIDE DEF lines
<1>9. SaidStarted(m)'
    <2>1. \A i \in DOMAIN lines : Len(out) + i \in DOMAIN out' /\ out'[Len(out) + i] = lines[i]
        BY <1>0, <1>7, <1>8, Written
    <2>2. Len(out) + 1 \in DOMAIN out' /\ out'[Len(out) + 1] = l
        BY <1>8, <2>1
    <2> QED BY <1>6, <2>2 DEF SaidStarted
<1>10. \A b \in Asks, k \in Messages, i \in DOMAIN lines : ~IsAnswer(lines[i], b, k)
    BY <1>6, <1>8 DEF IsAnswer
<1>11. \A k \in Messages : InLine(k) => InLine(k)' \/ SaidStarted(k)'
    BY <1>5, <1>9
<1> QED BY <1>0, <1>3, <1>7, <1>8, <1>10, <1>11, WayProcess

\* The process says a line that answers nothing.
LEMMA SaysWay ==
    ASSUME Inv, Running, AskedOnce, OnItsWay, cli.doing # "exited", NEW l \in OutLine, l.type # "answer",
           Says(<< l >>), cli'.queue = cli.queue, UNCHANGED << waiting, asks, feed >>
    PROVE  AskedOnce' /\ OnItsWay'
<1>0. FeedShape /\ CliShape
    BY DEF Inv, Shape
<1> DEFINE lines == << l >>
<1>1. lines \in Seq(OutLine) /\ DOMAIN lines = {1} /\ lines[1] = l
    BY LineSeqs
<1>2. out' = out \o lines
    BY ThereIsReading DEF Says
<1> HIDE DEF lines
<1>3. \A b \in Asks, k \in Messages, i \in DOMAIN lines : ~IsAnswer(lines[i], b, k)
    BY <1>1 DEF IsAnswer
<1>4. \A k \in Messages : InLine(k) => InLine(k)'
    BY DEF InLine
<1> QED BY <1>0, <1>1, <1>2, <1>3, <1>4, WayProcess

LEMMA CliFinishesWay ==
    ASSUME Inv, Running, AskedOnce, OnItsWay, CliFinishes
    PROVE  AskedOnce' /\ OnItsWay'
<1>0. CliShape
    BY DEF Inv, Shape
<1>1. /\ cli.doing = "busy" /\ cli' = [cli EXCEPT !.doing = "idle"] /\ Says(<< ResultLine >>)
      /\ UNCHANGED << waiting, asks, feed >>
    BY DEF CliFinishes, inboxVars
<1>2. cli'.queue = cli.queue
    BY <1>0, <1>1 DEF CliShape
<1>3. ResultLine \in OutLine /\ ResultLine.type # "answer"
    BY LinesAreLines, LineKinds
<1> QED BY <1>1, <1>2, <1>3, SaysWay

LEMMA CliExitsWay ==
    ASSUME Inv, Running, AskedOnce, OnItsWay, CliExits
    PROVE  AskedOnce' /\ OnItsWay'
<1>0. CliShape
    BY DEF Inv, Shape
<1>1. /\ cli.doing = "idle" /\ cli.queue = << >> /\ Says(<< End >>)
      /\ cli' = [cli EXCEPT !.doing = "exited", !.queue = << >>]
      /\ UNCHANGED << waiting, asks, feed >>
    BY DEF CliExits, Exits, inboxVars
<1>2. cli'.queue = cli.queue
    BY <1>0, <1>1 DEF CliShape
<1>3. End \in OutLine /\ End.type # "answer"
    BY LinesAreLines, LineKinds
<1> QED BY <1>1, <1>2, <1>3, SaysWay

LEMMA WayAtFirst ==
    ASSUME Init
    PROVE  Way
<1>1. feed = << >> /\ out = << >> /\ waiting = << >>
    BY DEF Init
<1>2. DOMAIN feed = {} /\ DOMAIN out = {} /\ DOMAIN waiting = {}
    BY <1>1, NoneWait
<1> QED BY <1>2 DEF Way, AskedOnce, OnItsWay, OnlyAsks, AskOnce, Asking, Answered, OneCancel, OneAnswer, Waits

LEMMA WayIsKept == Inv /\ Once /\ Way /\ [Next]_vars => Way'
<1> SUFFICES ASSUME Inv, Once, Way, [Next]_vars, Prompt', engine' # "over"
             PROVE  AskedOnce' /\ OnItsWay'
    BY DEF Way
<1>1. his' = his
    BY DEF Next, Command, vars, Inject, TakeBack, TakeBackUnregistered, TakeBackEnds, SendNow, SendNowEnds,
           SendNext, ReadLine, ReadEnd, Stop, StopCloses, Drained, SilenceChecked, SilenceCloses, TurnEnds,
           CliReads, CliTakes, CliFinishes, CliExits, CliDies, Exits
<1>2. Prompt /\ Undisturbed
    BY <1>1 DEF Prompt, Undisturbed
<1>3. engine # "over" /\ ~TurnEnds
    <2>1. CASE engine = "over"
        BY <1>2, <2>1, OverStays DEF Once
    <2> QED BY <2>1 DEF TurnEnds
<1>4. Running /\ AskedOnce /\ OnItsWay
    BY <1>2, <1>3 DEF Once, Way
<1>5. ~Stop /\ ~StopCloses /\ ~Drained /\ ~SilenceChecked /\ ~SilenceCloses /\ ~CliDies
      /\ \A m \in Messages : ~SendNext(m)
    <2>1. engine \in {"reading", "returning"} /\ his \cap {"stops", "dies", "resumes"} = {}
        BY <1>2, <1>4 DEF Running, Ends, Undisturbed
    <2> QED BY <2>1 DEF Stop, StopCloses, Drained, SilenceChecked, SilenceCloses, CliDies, SendNext
<1>6. CASE \E m \in Messages : Command(m)
    BY <1>2, <1>4, <1>6, InjectWay, TakeBackWay, TakeBackEndsWay, SendNowWay, SendNowEndsWay DEF Command
<1>7. CASE ReadLine \/ ReadEnd
    BY <1>4, <1>7, ReadLineWay, ReadEndWay
<1>8. CASE CliReads \/ CliTakes
    BY <1>4, <1>8, CliReadsWay, CliTakesWay
<1>9. CASE CliFinishes \/ CliExits
    BY <1>4, <1>9, CliFinishesWay, CliExitsWay
<1>10. CASE UNCHANGED vars
    <2>1. UNCHANGED << waiting, asks, feed, cli, out >>
        BY <1>10 DEF vars, inboxVars
    <2>2. OnItsWay'
        BY <1>4, <2>1 DEF OnItsWay, Waits, Fed, InLine, SaidStarted, Granted, SaidYes
    <2>3. AskedOnce'
        BY <1>4, <2>1 DEF AskedOnce, OnlyAsks, AskOnce, Asking, Answered, OneCancel, OneAnswer
    <2> QED BY <2>2, <2>3
<1> QED BY <1>3, <1>5, <1>6, <1>7, <1>8, <1>9, <1>10 DEF Next

LEMMA WayIsOnItsWay ==
    ASSUME Inv, Once, Way
    PROVE  StillOnItsWay
<1> SUFFICES ASSUME Prompt, NEW m \in DOMAIN waiting
             PROVE  \/ User(m, waiting[m]) \in {feed[n] : n \in DOMAIN feed}
                    \/ Queued(m, waiting[m])
                    \/ \E n \in DOMAIN out :
                        \/ out[n] \in {Started(m, waiting[m]), End}
                        \/ out[n] = Cancelled(m, waiting[m]) /\ m \notin promoting
                        \/ \E a \in Asks : out[n] = Answer(a, m, TRUE) /\ asks[a][m] = "out"
                    \/ \E a \in Asks : asks[a][m] = "yes"
    BY DEF StillOnItsWay
<1>0. FeedShape /\ WaitShape /\ CliShape /\ EngineShape
    BY DEF Inv, Shape
<1>1. engine # "over" /\ m \in Messages /\ Waits(m)
    BY <1>0 DEF EngineShape, WaitShape, Waits
<1>2. Running /\ OnItsWay
    BY <1>1 DEF Once, Way, Prompt
<1>3. CASE Fed(m)
    <2>1. PICK n \in DOMAIN feed : feed[n].type = "user" /\ feed[n].m = m
        BY <1>3 DEF Fed
    <2>2. feed[n] \in FeedLine /\ feed[n].wire = waiting[m]
        BY <1>0, <1>2, <2>1 DEF FeedShape, Running, FedOnce
    <2>3. PICK k \in Messages, w \in Wires : feed[n] = User(k, w)
        <3>1. \A a, j, v : Cancel(a, j, v).type = "cancel"
            BY DEF Cancel
        <3>2. Eof.type = "eof"
            BY DEF Eof
        <3>3. /\ feed[n] \notin {Cancel(a, j, v) : a \in Asks \cup {"stop"}, j \in Messages, v \in Wires}
              /\ feed[n] \notin {Eof}
            BY <2>1, <3>1, <3>2
        <3>4. feed[n] \in {User(j, v) : j \in Messages, v \in Wires}
            BY <2>2, <3>3 DEF FeedLine
        <3> QED BY <3>4
    <2>4. k = m /\ w = waiting[m]
        <3>1. User(k, w).m = k /\ User(k, w).wire = w
            BY DEF User
        <3> QED BY <2>1, <2>2, <2>3, <3>1
    <2> QED BY <2>3, <2>4
<1>4. CASE InLine(m)
    <2>1. PICK n \in DOMAIN cli.queue : cli.queue[n][1] = m
        BY <1>4 DEF InLine
    <2>2. cli.queue[n][2] = waiting[m]
        BY <1>2, <2>1 DEF Running, QueuedOnce
    <2>3. cli.queue[n] \in Messages \X Wires
        BY <1>0, <2>1 DEF CliShape
    <2>4. cli.queue[n] = << m, waiting[m] >>
        BY <2>1, <2>2, <2>3
    <2> QED BY <2>4 DEF Queued
<1>5. CASE SaidStarted(m)
    <2>1. PICK n \in DOMAIN out : out[n].type = "started" /\ out[n].m = m
        BY <1>5 DEF SaidStarted
    <2>2. out[n] \in OutLine /\ out[n].wire = waiting[m]
        BY <1>0, <1>2, <2>1 DEF CliShape, Running, StartedOnce
    <2>3. PICK k \in Messages, w \in Wires : out[n] = Started(k, w)
        <3>1. (\A j, v : Cancelled(j, v).type = "cancelled") /\ (\A a, j, y : Answer(a, j, y).type = "answer")
            BY DEF Cancelled, Answer
        <3>2. ResultLine.type = "result" /\ End.type = "end"
            BY DEF ResultLine, End
        <3>3. /\ out[n] \notin {Cancelled(j, v) : j \in Messages, v \in Wires}
              /\ out[n] \notin {Answer(a, j, y) : a \in Asks \cup {"stop"}, j \in Messages, y \in BOOLEAN}
              /\ out[n] \notin {ResultLine, End}
            BY <2>1, <3>1, <3>2
        <3>4. out[n] \in {Started(j, v) : j \in Messages, v \in Wires}
            BY <2>2, <3>3 DEF OutLine
        <3> QED BY <3>4
    <2>4. k = m /\ w = waiting[m]
        <3>1. Started(k, w).m = k /\ Started(k, w).wire = w
            BY DEF Started
        <3> QED BY <2>1, <2>2, <2>3, <3>1
    <2> QED BY <2>3, <2>4
<1>6. CASE \E a \in Asks : Granted(a, m)
    BY <1>6 DEF Granted, SaidYes
<1> QED BY <1>1, <1>2, <1>3, <1>4, <1>5, <1>6 DEF OnItsWay

\* In a turn that is neither stopped nor dies, with every cancel answered in
\* time, a message that waits can still come or its fate is about to be read.
THEOREM StillOnItsWayHolds == Spec => []StillOnItsWay
<1>1. Init => Way
    BY WayAtFirst
<1>2. (Inv /\ Once) /\ Way /\ [Next]_vars => Way'
    BY WayIsKept
<1>3. (Inv /\ Once) /\ Way => StillOnItsWay
    BY WayIsOnItsWay
<1> QED BY <1>1, <1>2, <1>3, OnceAlways, PTL DEF Spec

=============================================================================
