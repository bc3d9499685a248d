---------------------------- MODULE ChatsProofs ----------------------------
(***************************************************************************)
(* Theorems of Chats, for any chats, commands and ways to use the window:  *)
(* types, where a message typed at New chat lands, which chats stay held   *)
(* and for how long, and what takes the screen.  Then of Turn, for any     *)
(* tools and any replies: what runs beside what in a round of a chat,      *)
(* which turn a compaction is of, that every call has its result and every *)
(* message its answer, and that what a turn records is what SessionLog's   *)
(* may.                                                                    *)
(***************************************************************************)
EXTENDS Turn, Chats, FiniteSetTheorems, WellFoundedInduction, TLAPS

----------------------------------------------------------------------------
(***************************************************************************)
(* Where the commands are                                                  *)
(***************************************************************************)

\* The places of a command with a handle to a chat: those that are about a
\* turn in it, and those that are about the chat they looked up.
InTurn == {"waiting", "turn"}
LookedUp == {"found", "loaded", "titleFound", "titleLoaded"}
Handles == InTurn \cup LookedUp

\* The places of one that has none.
Aiming == {"absent", "titleAbsent", "forgot"}
Ats == Handles \cup Aiming \cup {"idle", "aimed"}

Command == [at : Ats, aim : Ids \cup {New}, chat : Ids \cup {New},
            copy : Copies \cup {None}, knew : SUBSET Ids]

\* A command has a handle exactly in those places, and one that looked a chat
\* up has it to that chat.
WellPlaced(q) ==
    /\ q.at \in Handles => q.chat \in Ids /\ q.copy \in Copies
    /\ q.at \notin Handles => q.chat = New /\ q.copy = None
    /\ q.at \in LookedUp => q.chat = q.aim
    /\ q.at \in Aiming => q.aim \in Ids

Typed ==
    /\ his \in Settings
    /\ focus \in Ids \cup {New} /\ made \in Ids \cup {New}
    /\ held \in [Ids -> Copies \cup {None}]
    /\ seen \in [Ids -> [Copies -> 0..MaxLength]]
    /\ mode \in [Ids -> {"unborn", "normal", "ephemeral"}]
    /\ file \in [Ids -> {"none", "logs", "trash"}]
    /\ length \in [Ids -> 0..MaxLength]
    /\ commands \in [Commands -> Command]
    /\ \A c \in Commands : WellPlaced(commands[c])

\* Only what a step says of a command changes.
OnlyOf(c) ==
    /\ commands' \in [Commands -> Command]
    /\ \A d \in Commands \ {c} : commands'[d] = commands[d]

LEMMA IdleIsCommand == Idle \in Command /\ WellPlaced(Idle)
BY DEF Idle, Command, WellPlaced, Ats, Handles, InTurn, LookedUp, Aiming

\* What a step may make of a command's record.
LEMMA FieldTypes ==
    ASSUME NEW q \in Command
    PROVE  /\ \A at \in Ats :
                /\ [q EXCEPT !.at = at] \in Command
                /\ [q EXCEPT !.at = at].at = at /\ [q EXCEPT !.at = at].aim = q.aim
                /\ [q EXCEPT !.at = at].chat = q.chat /\ [q EXCEPT !.at = at].copy = q.copy
                /\ [q EXCEPT !.at = at].knew = q.knew
BY DEF Command

LEMMA OneRecord ==
    ASSUME Typed, NEW c \in Commands, NEW x \in Command, commands' = [commands EXCEPT ![c] = x]
    PROVE  OnlyOf(c) /\ commands'[c] = x
BY DEF Typed, OnlyOf

LEMMA MovedIs ==
    ASSUME Typed, NEW c \in Commands, NEW at \in Ats, commands' = Moved(c, at)
    PROVE  /\ OnlyOf(c)
           /\ commands'[c].at = at /\ commands'[c].aim = commands[c].aim
           /\ commands'[c].chat = commands[c].chat /\ commands'[c].copy = commands[c].copy
           /\ commands'[c].knew = commands[c].knew
<1> DEFINE x == [commands[c] EXCEPT !.at = at]
<1>1. commands[c] \in Command
    BY DEF Typed
<1>2. /\ x \in Command /\ x.at = at /\ x.aim = commands[c].aim /\ x.chat = commands[c].chat
      /\ x.copy = commands[c].copy /\ x.knew = commands[c].knew
    BY <1>1, FieldTypes
<1>3. commands' = [commands EXCEPT ![c] = x]
    BY DEF Moved
<1> HIDE DEF x
<1> QED BY <1>2, <1>3, OneRecord

LEMMA GivenIs ==
    ASSUME Typed, NEW c \in Commands, NEW at \in Ats, NEW i \in Ids, NEW k \in Copies,
           commands' = Given(c, at, i, k)
    PROVE  /\ OnlyOf(c)
           /\ commands'[c].at = at /\ commands'[c].aim = commands[c].aim
           /\ commands'[c].chat = i /\ commands'[c].copy = k
           /\ commands'[c].knew = commands[c].knew
<1> DEFINE x == [at |-> at, aim |-> commands[c].aim, chat |-> i, copy |-> k,
                 knew |-> commands[c].knew]
<1>1. commands[c] \in Command
    BY DEF Typed
<1>2. x \in Command
    BY <1>1 DEF Command
<1>3. commands' = [commands EXCEPT ![c] = x]
    BY DEF Given
<1>4. /\ x.at = at /\ x.aim = commands[c].aim /\ x.chat = i /\ x.copy = k
      /\ x.knew = commands[c].knew
    OBVIOUS
<1> HIDE DEF x
<1> QED BY <1>2, <1>3, <1>4, OneRecord

LEMMA DoneIs ==
    ASSUME Typed, NEW c \in Commands, commands' = Done(c)
    PROVE  OnlyOf(c) /\ commands'[c] = Idle
BY IdleIsCommand, OneRecord DEF Done
LEMMA FoundIs ==
    ASSUME Typed, NEW c \in Commands, NEW i \in Ids, NEW h \in Handles, NEW a \in Aiming \cup {"aimed"},
           commands' = [commands EXCEPT ![c] = Found(i, h, a)]
    PROVE  /\ OnlyOf(c) /\ commands'[c].aim = i /\ commands'[c].knew = {}
           /\ IF held[i] = None
              THEN commands'[c].at = a /\ commands'[c].chat = New /\ commands'[c].copy = None
              ELSE commands'[c].at = h /\ commands'[c].chat = i /\ commands'[c].copy = held[i]
<1> DEFINE x == Found(i, h, a)
<1>1. held[i] \in Copies \cup {None}
    BY DEF Typed
<1>2. /\ x \in Command /\ x.aim = i /\ x.knew = {}
      /\ IF held[i] = None THEN x.at = a /\ x.chat = New /\ x.copy = None
         ELSE x.at = h /\ x.chat = i /\ x.copy = held[i]
    <2>1. h \in Ats /\ a \in Ats
        BY DEF Ats
    <2>2. CASE held[i] = None
        <3>1. x = [at |-> a, aim |-> i, chat |-> New, copy |-> None, knew |-> {}]
            BY <2>2 DEF Found
        <3> HIDE DEF x
        <3> QED BY <2>1, <2>2, <3>1 DEF Command
    <2>3. CASE held[i] # None
        <3>1. x = [at |-> h, aim |-> i, chat |-> i, copy |-> held[i], knew |-> {}]
            BY <2>3 DEF Found
        <3> HIDE DEF x
        <3> QED BY <1>1, <2>1, <2>3, <3>1 DEF Command
    <2> QED BY <2>2, <2>3
<1>3. commands' = [commands EXCEPT ![c] = x]
    OBVIOUS
<1> HIDE DEF x
<1> QED BY <1>2, <1>3, OneRecord

\* Where the index and the copies go.
LEMMA BecomeIs ==
    ASSUME Typed, NEW cs, NEW h \in [Ids -> Copies \cup {None}], NEW f \in Ids \cup {New},
           NEW m \in Ids \cup {New}, NEW sn \in [Ids -> [Copies -> 0..MaxLength]],
           Become(cs, h, f, m, sn)
    PROVE  /\ his' \in Settings /\ focus' \in Ids \cup {New} /\ made' \in Ids \cup {New}
           /\ held' \in [Ids -> Copies \cup {None}]
           /\ seen' \in [Ids -> [Copies -> 0..MaxLength]]
BY ChatsAssumption DEF Typed, Become

LEMMA PruneType ==
    ASSUME Typed, NEW h \in [Ids -> Copies \cup {None}], NEW f
    PROVE  Prune(h, f) \in [Ids -> Copies \cup {None}]
BY DEF Prune

\* A function to a bounded number takes no more values than it has arguments.
LEMMA ValuesAreFew ==
    ASSUME NEW S, IsFiniteSet(S), NEW n \in Nat, NEW f \in [S -> 0..n],
           NEW T, T = {f[x] : x \in S}
    PROVE  IsFiniteSet(T) /\ Cardinality(T) <= Cardinality(S)
<1>1. IsFiniteSet(T)
    <2>1. IsFiniteSet(0..n)
        BY FS_Interval
    <2>2. T \in SUBSET (0..n)
        OBVIOUS
    <2> QED BY <2>1, <2>2, FS_Subset
<1>2. Cardinality(S) \in Nat /\ Cardinality(T) \in Nat
    BY <1>1, FS_CardinalityType
<1>3. ~(Cardinality(S) < Cardinality(T))
    <2> DEFINE arg(t) == CHOOSE x \in S : f[x] = t
               h == [t \in T |-> arg(t)]
    <2>1. ASSUME NEW t \in T
          PROVE  arg(t) \in S /\ f[arg(t)] = t
        <3>1. \E x \in S : f[x] = t
            OBVIOUS
        <3> QED BY <3>1
    <2> HIDE DEF arg
    <2>2. h \in [T -> S] /\ \A t \in T : h[t] = arg(t)
        BY <2>1
    <2> HIDE DEF h
    <2> SUFFICES ASSUME Cardinality(S) < Cardinality(T) PROVE FALSE
        OBVIOUS
    <2>3. \E t, u \in T : t # u /\ h[t] = h[u]
        BY <1>1, <2>2, FS_PigeonHole
    <2> QED BY <2>1, <2>2, <2>3
<1> QED BY <1>1, <1>2, <1>3

\* There is a copy to load a chat into: each command has at most one, the index
\* one more, and the command that loads has none yet.
LEMMA FreshIs ==
    ASSUME Typed, NEW c \in Commands, commands[c].copy = None, NEW i \in Ids
    PROVE  Fresh(i) \in Copies /\ ~InUse(commands, i, Fresh(i)) /\ held[i] # Fresh(i)
<1> DEFINE N == Cardinality(Commands)
           g == [d \in Commands |-> IF d = c THEN held[i] ELSE commands[d].copy]
           T == {g[d] : d \in Commands}
<1>1. IsFiniteSet(Commands)
    BY ChatsAssumption
<1>2. N \in Nat
    BY <1>1, FS_CardinalityType
<1>3. Copies = 1..(1 + N)
    BY DEF Copies
<1>4. IsFiniteSet(T) /\ Cardinality(T) <= N
    <2>1. Copies \cup {None} \subseteq 0..1 + N /\ 1 + N \in Nat
        BY <1>2, <1>3 DEF None
    <2>2. held[i] \in Copies \cup {None} /\ \A d \in Commands : commands[d].copy \in Copies \cup {None}
        BY DEF Typed, Command
    <2>3. g \in [Commands -> 0..1 + N]
        BY <2>1, <2>2
    <2> HIDE DEF g
    <2> QED BY <1>1, <2>1, <2>3, ValuesAreFew
<1>6. IsFiniteSet(Copies) /\ Cardinality(Copies) = 1 + N
    <2>1. 1 \in Int /\ 1 + N \in Int /\ ~(1 > 1 + N) /\ (1 + N) - 1 + 1 = 1 + N
        BY <1>2
    <2> QED BY <1>3, <2>1, FS_Interval
<1>7. ~(Copies \subseteq T)
    <2> SUFFICES ASSUME Copies \subseteq T PROVE FALSE
        OBVIOUS
    <2>1. Cardinality(Copies) <= Cardinality(T)
        <3> HIDE DEF T
        <3> QED BY <1>4, FS_Subset
    <2>2. Cardinality(T) \in Nat
        <3> HIDE DEF T
        <3> QED BY <1>4, FS_CardinalityType
    <2> QED BY <1>2, <1>4, <1>6, <2>1, <2>2
<1>8. PICK k \in Copies : k \notin T
    BY <1>7
<1>9. held[i] # k
    BY <1>8
<1>10. ~InUse(commands, i, k)
    <2> SUFFICES ASSUME NEW d \in Commands, commands[d].copy = k PROVE FALSE
        BY DEF InUse
    <2>1. d # c
        BY <1>3, <1>8, <1>2 DEF None
    <2> QED BY <2>1, <1>8
<1> QED BY <1>8, <1>9, <1>10 DEF Fresh
LEMMA LongerIs ==
    ASSUME Typed, NEW c \in Commands, commands[c].at \in Handles, Record(c)
    PROVE  /\ commands[c].chat \in Ids /\ commands[c].copy \in Copies
           /\ Longer(c) \in [Ids -> [Copies -> 0..MaxLength]]
           /\ length' \in [Ids -> 0..MaxLength]
<1>1. commands[c].chat \in Ids /\ commands[c].copy \in Copies
    BY DEF Typed, WellPlaced
<1>2. \A n \in 0..MaxLength : n < MaxLength => n + 1 \in 0..MaxLength
    BY ChatsAssumption
<1>3. seen[commands[c].chat][commands[c].copy] \in 0..MaxLength /\ length[commands[c].chat] \in 0..MaxLength
    BY <1>1 DEF Typed
<1>4. seen[commands[c].chat][commands[c].copy] + 1 \in 0..MaxLength /\ length[commands[c].chat] + 1 \in 0..MaxLength
    BY <1>2, <1>3 DEF Record
<1>5. Longer(c) \in [Ids -> [Copies -> 0..MaxLength]]
    BY <1>1, <1>4 DEF Longer, Typed
<1>6. length' \in [Ids -> 0..MaxLength]
    BY <1>1, <1>4 DEF Record, Typed
<1> QED BY <1>1, <1>5, <1>6

LEMMA StepPlaces ==
    ASSUME Typed, NEW c \in Commands, OnlyOf(c), WellPlaced(commands'[c])
    PROVE  commands' \in [Commands -> Command] /\ \A d \in Commands : WellPlaced(commands'[d])
BY DEF Typed, OnlyOf

\* A command that looked a chat up.
LEMMA FoundPlaces ==
    ASSUME Typed, NEW c \in Commands, NEW i \in Ids, NEW h \in Handles, NEW a \in Aiming \cup {"aimed"},
           commands' = [commands EXCEPT ![c] = Found(i, h, a)]
    PROVE  OnlyOf(c) /\ WellPlaced(commands'[c])
<1>1. /\ OnlyOf(c) /\ commands'[c].aim = i
      /\ IF held[i] = None
         THEN commands'[c].at = a /\ commands'[c].chat = New /\ commands'[c].copy = None
         ELSE commands'[c].at = h /\ commands'[c].chat = i /\ commands'[c].copy = held[i]
    BY FoundIs
<1>2. held[i] \in Copies \cup {None}
    BY DEF Typed
<1> QED BY <1>1, <1>2 DEF WellPlaced, Handles, InTurn, LookedUp, Aiming

\* A command that ends, and leaves the copies as sn.
LEMMA EndTypes ==
    ASSUME Typed, NEW c \in Commands, UNCHANGED << mode, disk >>,
           Become(Done(c), held, focus, made, seen)
    PROVE  Typed'
<1>1. OnlyOf(c) /\ WellPlaced(commands'[c])
    BY DoneIs, IdleIsCommand DEF Become
<1>2. /\ held \in [Ids -> Copies \cup {None}] /\ focus \in Ids \cup {New}
      /\ made \in Ids \cup {New} /\ seen \in [Ids -> [Copies -> 0..MaxLength]]
    BY DEF Typed
<1>3. /\ his' \in Settings /\ focus' \in Ids \cup {New} /\ made' \in Ids \cup {New}
      /\ held' \in [Ids -> Copies \cup {None}]
      /\ seen' \in [Ids -> [Copies -> 0..MaxLength]]
    BY <1>2, BecomeIs
<1> QED BY <1>1, <1>3, StepPlaces DEF Typed, disk

LEMMA SendTypes ==
    ASSUME Typed, NEW c \in Commands,
           \/ \E i \in Ids \cup {New} : ReadTarget(c, i)
           \/ \E i \in Ids, m \in {"normal", "ephemeral"} : Start(c, i, m)
           \/ LockTurn(c) \/ TurnRecords(c) \/ EndTurn(c)
    PROVE  Typed'
<1>1. ASSUME NEW i \in Ids \cup {New}, ReadTarget(c, i)
      PROVE  Typed'
    <2>1. OnlyOf(c) /\ WellPlaced(commands'[c])
        <3>1. CASE i = New
            <4> DEFINE x == [Idle EXCEPT !.at = "aimed", !.knew = {j \in Ids : mode[j] # "unborn"}]
            <4>1. x \in Command /\ WellPlaced(x)
                BY DEF Idle, Command, WellPlaced, Ats, Handles, InTurn, LookedUp, Aiming
            <4>2. commands' = [commands EXCEPT ![c] = x]
                BY <1>1, <3>1 DEF ReadTarget
            <4> HIDE DEF x
            <4> QED BY <4>1, <4>2, OneRecord
        <3>2. CASE i # New
            <4>1. i \in Ids /\ commands' = [commands EXCEPT ![c] = Found(i, "waiting", "aimed")]
                BY <1>1, <3>2 DEF ReadTarget
            <4>2. "waiting" \in Handles
                BY DEF Handles, InTurn
            <4> QED BY <4>1, <4>2, FoundPlaces
        <3> QED BY <3>1, <3>2
    <2> QED BY <1>1, <2>1, StepPlaces DEF ReadTarget, Typed, index, disk
<1>2. ASSUME NEW i \in Ids, NEW m \in {"normal", "ephemeral"}, Start(c, i, m)
      PROVE  Typed'
    <2>1. ASSUME NEW j \in Ids, NEW k \in Copies, commands' = Given(c, "waiting", j, k)
          PROVE  OnlyOf(c) /\ WellPlaced(commands'[c])
        <3>1. "waiting" \in Ats
            BY DEF Ats, Handles, InTurn
        <3>2. OnlyOf(c) /\ commands'[c].at = "waiting" /\ commands'[c].chat = j /\ commands'[c].copy = k
            BY <2>1, <3>1, GivenIs
        <3> QED BY <3>2 DEF WellPlaced, Handles, InTurn, LookedUp, Aiming
    <2>2. ASSUME Joined(c), held[focus] # None, focus # New, UNCHANGED << mode, disk >>
          PROVE  Typed'
        <3>1. focus \in Ids /\ held[focus] \in Copies
            BY <2>2 DEF Typed
        <3>2. /\ held \in [Ids -> Copies \cup {None}] /\ focus \in Ids \cup {New}
              /\ made \in Ids \cup {New} /\ seen \in [Ids -> [Copies -> 0..MaxLength]]
            BY DEF Typed
        <3>3. OnlyOf(c) /\ WellPlaced(commands'[c])
            BY <2>1, <2>2, <3>1 DEF Joined, Become
        <3>4. /\ his' \in Settings /\ focus' \in Ids \cup {New} /\ made' \in Ids \cup {New}
              /\ held' \in [Ids -> Copies \cup {None}]
              /\ seen' \in [Ids -> [Copies -> 0..MaxLength]]
            BY <2>2, <3>2, BecomeIs DEF Joined
        <3> QED BY <2>2, <3>3, <3>4, StepPlaces DEF Typed, disk
    <2>3. ASSUME NEW f \in Ids \cup {New}, NEW n \in Ids \cup {New},
                 StartAs(i, m), StartedBy(c, i, f, n)
          PROVE  Typed'
        <3>1. 1 \in Copies /\ 1 \in 0..MaxLength
            <4>1. Cardinality(Commands) \in Nat
                BY ChatsAssumption, FS_CardinalityType
            <4> QED BY <4>1, ChatsAssumption DEF Copies
        <3>2. /\ [held EXCEPT ![i] = 1] \in [Ids -> Copies \cup {None}]
              /\ [seen EXCEPT ![i][1] = 1] \in [Ids -> [Copies -> 0..MaxLength]]
            BY <3>1 DEF Typed
        <3>3. OnlyOf(c) /\ WellPlaced(commands'[c])
            BY <2>1, <2>3, <3>1 DEF StartedBy, Become
        <3>4. /\ his' \in Settings /\ focus' \in Ids \cup {New} /\ made' \in Ids \cup {New}
              /\ held' \in [Ids -> Copies \cup {None}]
              /\ seen' \in [Ids -> [Copies -> 0..MaxLength]]
            BY <2>3, <3>2, BecomeIs DEF StartedBy
        <3>5. /\ mode' \in [Ids -> {"unborn", "normal", "ephemeral"}]
              /\ file' \in [Ids -> {"none", "logs", "trash"}]
              /\ length' \in [Ids -> 0..MaxLength]
            <4>1. /\ mode' = [mode EXCEPT ![i] = m] /\ m \in {"unborn", "normal", "ephemeral"}
                  /\ \E x \in {"none", "logs"} : file' = [file EXCEPT ![i] = x]
                  /\ \E n1 \in {0, 1} : length' = [length EXCEPT ![i] = n1]
                BY <2>3 DEF StartAs
            <4>2. 0 \in 0..MaxLength
                BY ChatsAssumption
            <4> QED BY <3>1, <4>1, <4>2 DEF Typed
        <3> QED BY <3>3, <3>4, <3>5, StepPlaces DEF Typed
    <2>4. ASSUME Become(Done(c), held, focus, made, seen), UNCHANGED << mode, disk >>
          PROVE  Typed'
        BY <2>4, EndTypes
    <2> QED BY <1>2, <2>2, <2>3, <2>4 DEF Start, Typed
<1>3. CASE LockTurn(c)
    <2>1. "turn" \in Ats /\ WellPlaced(commands[c]) /\ commands[c].at = "waiting"
        BY <1>3 DEF Ats, Handles, InTurn, LockTurn, Typed
    <2>2. /\ OnlyOf(c) /\ commands'[c].at = "turn" /\ commands'[c].chat = commands[c].chat
          /\ commands'[c].copy = commands[c].copy
        BY <1>3, <2>1, MovedIs DEF LockTurn
    <2>3. WellPlaced(commands'[c])
        BY <2>1, <2>2 DEF WellPlaced, Handles, InTurn, LookedUp, Aiming
    <2> QED BY <1>3, <2>2, <2>3, StepPlaces DEF LockTurn, Typed, index, disk
<1>4. CASE TurnRecords(c)
    <2>1. commands[c].at \in Handles
        BY <1>4 DEF TurnRecords, Handles, InTurn
    <2>2. seen' \in [Ids -> [Copies -> 0..MaxLength]] /\ length' \in [Ids -> 0..MaxLength]
        BY <1>4, <2>1, LongerIs DEF TurnRecords
    <2>3. UNCHANGED << his, focus, made, held, mode, file, commands >>
        BY <1>4 DEF TurnRecords, index
    <2> QED BY <2>2, <2>3 DEF Typed, WellPlaced
<1>5. CASE EndTurn(c)
    BY <1>5, EndTypes DEF EndTurn
<1> QED BY <1>1, <1>2, <1>3, <1>4, <1>5
\* A command that ends and leaves the index as h and f.
LEMMA OpenTypes ==
    ASSUME Typed, NEW c \in Commands, UNCHANGED << mode, disk >>,
           NEW h \in [Ids -> Copies \cup {None}], NEW f \in Ids \cup {New},
           Become(Done(c), h, f, New, seen)
    PROVE  Typed'
<1>1. OnlyOf(c) /\ WellPlaced(commands'[c])
    BY DoneIs, IdleIsCommand DEF Become
<1>2. seen \in [Ids -> [Copies -> 0..MaxLength]]
    BY DEF Typed
<1>3. /\ his' \in Settings /\ focus' \in Ids \cup {New} /\ made' \in Ids \cup {New}
      /\ held' \in [Ids -> Copies \cup {None}]
      /\ seen' \in [Ids -> [Copies -> 0..MaxLength]]
    BY <1>2, BecomeIs
<1> QED BY <1>1, <1>3, StepPlaces DEF Typed, disk

LEMMA OpenStepTypes ==
    ASSUME Typed, NEW c \in Commands,
           \/ \E i \in Ids : FindToOpen(c, i)
           \/ FocusFound(c) \/ LoadLog(c) \/ LoadFailed(c) \/ OpenLoaded(c)
    PROVE  Typed'
<1>0. commands[c] \in Command /\ WellPlaced(commands[c])
    BY DEF Typed
<1>1. ASSUME NEW i \in Ids, FindToOpen(c, i)
      PROVE  Typed'
    <2>1. "found" \in Handles /\ "absent" \in Aiming
        BY DEF Handles, LookedUp, Aiming
    <2>2. OnlyOf(c) /\ WellPlaced(commands'[c])
        BY <1>1, <2>1, FoundPlaces DEF FindToOpen
    <2> QED BY <1>1, <2>2, StepPlaces DEF FindToOpen, Typed, index, disk
<1>2. CASE FocusFound(c)
    <2>1. commands[c].aim \in Ids
        BY <1>0, <1>2 DEF FocusFound, WellPlaced, LookedUp, Handles
    <2>2. Prune(held, commands[c].aim) \in [Ids -> Copies \cup {None}]
        BY PruneType DEF Typed
    <2> QED BY <1>2, <2>1, <2>2, OpenTypes DEF FocusFound
<1>3. CASE LoadLog(c)
    <2> DEFINE i == commands[c].aim
    <2>1. i \in Ids /\ commands[c].copy = None
        BY <1>0, <1>3 DEF LoadLog, WellPlaced, Aiming, Handles, InTurn, LookedUp
    <2>2. Fresh(i) \in Copies
        BY <2>1, FreshIs
    <2>3. /\ commands' = Given(c, "loaded", i, Fresh(i)) \/ commands' = Given(c, "titleLoaded", i, Fresh(i))
          /\ seen' = [seen EXCEPT ![i][Fresh(i)] = length[i]]
          /\ UNCHANGED << his, focus, held, made, mode, file, length >>
        BY <1>3 DEF LoadLog, index, disk
    <2>4. "loaded" \in Ats /\ "titleLoaded" \in Ats
        BY DEF Ats, Handles, LookedUp
    <2>5. /\ OnlyOf(c) /\ commands'[c].aim = i /\ commands'[c].chat = i /\ commands'[c].copy = Fresh(i)
          /\ commands'[c].at \in {"loaded", "titleLoaded"}
        <3> HIDE DEF i
        <3>1. CASE commands' = Given(c, "loaded", i, Fresh(i))
            BY <2>1, <2>2, <2>4, <3>1, GivenIs DEF i
        <3>2. CASE commands' = Given(c, "titleLoaded", i, Fresh(i))
            BY <2>1, <2>2, <2>4, <3>2, GivenIs DEF i
        <3> QED BY <2>3, <3>1, <3>2
    <2>6. WellPlaced(commands'[c])
        BY <2>1, <2>2, <2>5 DEF WellPlaced, Handles, InTurn, LookedUp, Aiming
    <2>7. seen' \in [Ids -> [Copies -> 0..MaxLength]]
        BY <2>1, <2>2, <2>3 DEF Typed
    <2> QED BY <2>3, <2>5, <2>6, <2>7, StepPlaces DEF Typed
<1>4. CASE LoadFailed(c)
    <2>1. OnlyOf(c) /\ WellPlaced(commands'[c])
        BY <1>4, DoneIs, IdleIsCommand DEF LoadFailed
    <2> QED BY <1>4, <2>1, StepPlaces DEF LoadFailed, Typed, index, disk
<1>5. CASE OpenLoaded(c)
    <2> DEFINE i == commands[c].aim
               h == IF held[i] # None THEN held ELSE [held EXCEPT ![i] = commands[c].copy]
    <2>1. i \in Ids /\ commands[c].copy \in Copies
        BY <1>0, <1>5 DEF OpenLoaded, WellPlaced, LookedUp, Handles
    <2>2. h \in [Ids -> Copies \cup {None}]
        BY <2>1 DEF Typed
    <2>3. Become(Done(c), Prune(h, i), i, New, seen) /\ UNCHANGED << mode, disk >>
        BY <1>5 DEF OpenLoaded
    <2> HIDE DEF h, i
    <2>4. Prune(h, i) \in [Ids -> Copies \cup {None}]
        BY <2>2, PruneType
    <2> QED BY <2>1, <2>3, <2>4, OpenTypes
<1> QED BY <1>1, <1>2, <1>3, <1>4, <1>5

LEMMA TitleTypes ==
    ASSUME Typed, NEW c \in Commands,
           (\E i \in Ids : FindToTitle(c, i)) \/ TitleRecords(c) \/ TitleRefused(c)
    PROVE  Typed'
<1>1. ASSUME NEW i \in Ids, FindToTitle(c, i)
      PROVE  Typed'
    <2>1. "titleFound" \in Handles /\ "titleAbsent" \in Aiming
        BY DEF Handles, LookedUp, Aiming
    <2>2. OnlyOf(c) /\ WellPlaced(commands'[c])
        BY <1>1, <2>1, FoundPlaces DEF FindToTitle
    <2> QED BY <1>1, <2>2, StepPlaces DEF FindToTitle, Typed, index, disk
<1>2. CASE TitleRecords(c)
    <2>1. commands[c].at \in Handles /\ Record(c) /\ Become(Done(c), held, focus, made, Longer(c))
        BY <1>2 DEF TitleRecords, Handles, LookedUp
    <2>2. Longer(c) \in [Ids -> [Copies -> 0..MaxLength]] /\ length' \in [Ids -> 0..MaxLength]
        BY <2>1, LongerIs
    <2>3. OnlyOf(c) /\ WellPlaced(commands'[c])
        BY <2>1, DoneIs, IdleIsCommand DEF Become
    <2>4. /\ held \in [Ids -> Copies \cup {None}] /\ focus \in Ids \cup {New} /\ made \in Ids \cup {New}
        BY DEF Typed
    <2>5. /\ his' \in Settings /\ focus' \in Ids \cup {New} /\ made' \in Ids \cup {New}
          /\ held' \in [Ids -> Copies \cup {None}]
          /\ seen' \in [Ids -> [Copies -> 0..MaxLength]]
        BY <2>1, <2>2, <2>4, BecomeIs
    <2>6. UNCHANGED << mode, file >>
        BY <1>2 DEF TitleRecords
    <2> QED BY <2>2, <2>3, <2>5, <2>6, StepPlaces DEF Typed
<1>3. CASE TitleRefused(c)
    BY <1>3, EndTypes DEF TitleRefused
<1> QED BY <1>1, <1>2, <1>3

LEMMA DeleteTypes ==
    ASSUME Typed, NEW c \in Commands, (\E i \in Ids : Forget(c, i)) \/ MoveToTrash(c)
    PROVE  Typed'
<1>1. ASSUME NEW i \in Ids, Forget(c, i)
      PROVE  Typed'
    <2> DEFINE x == [Idle EXCEPT !.at = "forgot", !.aim = i]
    <2>1. x \in Command /\ WellPlaced(x)
        BY DEF Idle, Command, WellPlaced, Ats, Handles, InTurn, LookedUp, Aiming
    <2>2. commands' = [commands EXCEPT ![c] = x]
        BY <1>1 DEF Forget, Become
    <2>3. OnlyOf(c) /\ WellPlaced(commands'[c])
        <3> HIDE DEF x
        <3> QED BY <2>1, <2>2, OneRecord
    <2>4. /\ [held EXCEPT ![i] = None] \in [Ids -> Copies \cup {None}]
          /\ (IF focus = i /\ held[i] # None THEN New ELSE focus) \in Ids \cup {New} /\ made \in Ids \cup {New}
          /\ seen \in [Ids -> [Copies -> 0..MaxLength]]
        BY DEF Typed
    <2>5. /\ his' \in Settings /\ focus' \in Ids \cup {New} /\ made' \in Ids \cup {New}
          /\ held' \in [Ids -> Copies \cup {None}]
          /\ seen' \in [Ids -> [Copies -> 0..MaxLength]]
        BY <1>1, <2>4, BecomeIs DEF Forget
    <2> QED BY <1>1, <2>3, <2>5, StepPlaces DEF Forget, Typed, disk
<1>2. CASE MoveToTrash(c)
    <2>1. OnlyOf(c) /\ WellPlaced(commands'[c])
        BY <1>2, DoneIs, IdleIsCommand DEF MoveToTrash
    <2>2. file' \in [Ids -> {"none", "logs", "trash"}]
        BY <1>2 DEF MoveToTrash, Typed
    <2> QED BY <1>2, <2>1, <2>2, StepPlaces DEF MoveToTrash, Typed, index
<1> QED BY <1>1, <1>2

LEMMA HisTypes ==
    ASSUME Typed, FocusNew \/ (\E i \in Ids : RestoreFromTrash(i)) \/ UNCHANGED vars
    PROVE  Typed'
<1>1. CASE FocusNew
    <2>1. /\ Prune(held, New) \in [Ids -> Copies \cup {None}]
          /\ seen \in [Ids -> [Copies -> 0..MaxLength]]
        BY PruneType DEF Typed
    <2>2. /\ his' \in Settings /\ focus' \in Ids \cup {New} /\ made' \in Ids \cup {New}
          /\ held' \in [Ids -> Copies \cup {None}]
          /\ seen' \in [Ids -> [Copies -> 0..MaxLength]]
        BY <1>1, <2>1, BecomeIs DEF FocusNew
    <2> QED BY <1>1, <2>2 DEF FocusNew, Become, Typed, WellPlaced, disk
<1>2. ASSUME NEW i \in Ids, RestoreFromTrash(i)
      PROVE  Typed'
    BY <1>2 DEF RestoreFromTrash, Typed, WellPlaced, index
<1>3. CASE UNCHANGED vars
    BY <1>3 DEF vars, Typed, WellPlaced
<1> QED BY <1>1, <1>2, <1>3

LEMMA StepTypes == Typed /\ [Next]_vars => Typed'
BY SendTypes, OpenStepTypes, TitleTypes, DeleteTypes, HisTypes DEF Next

LEMMA InitTypes == Init => Typed
BY IdleIsCommand, ChatsAssumption DEF Init, Typed
----------------------------------------------------------------------------
(***************************************************************************)
(* What holds of every behaviour                                           *)
(***************************************************************************)

\* Whatever a command has or had in view was made; one that keeps no log has
\* no file; and one nobody made is nowhere.
Born ==
    /\ \A i \in Ids : mode[i] = "normal" <=> file[i] # "none"
    /\ \A i \in Ids : mode[i] = "unborn" => held[i] = None /\ focus # i
    /\ \A c \in Commands :
        /\ commands[c].chat \in Ids => mode[commands[c].chat] # "unborn"
        /\ commands[c].aim \in Ids => mode[commands[c].aim] # "unborn"
        /\ \A j \in commands[c].knew : mode[j] # "unborn"

\* A turn has its copy to itself.
TurnsApart ==
    \A c, d \in Commands :
        commands[c].at = "turn" /\ commands[d].at = "turn" /\ c # d =>
            << commands[c].chat, commands[c].copy >> # << commands[d].chat, commands[d].copy >>

\* The chat made from New chat that is open now was made since any message
\* still on its way was typed there.
MadeSince ==
    \A c \in Commands :
        commands[c].at = "aimed" /\ commands[c].aim = New /\ made \in commands[c].knew =>
            focus # made

(***************************************************************************)
(* One writer a log                                                        *)
(***************************************************************************)

Calm == his \cap {"delete", "overlap"} = {}

\* A handle the index gave out is to the copy the index has.
HandleIsHeld ==
    \A c \in Commands :
        commands[c].at \in InTurn \cup {"found", "titleFound"} =>
            held[commands[c].chat] = commands[c].copy

\* A command at the log files is alone there, its chat is not held, and the
\* copy it has loaded is still the log.
FilesAlone ==
    \A c \in Commands : commands[c].at \in AtFiles =>
        /\ held[commands[c].aim] = None
        /\ \A d \in Commands : commands[d].at \in AtFiles => d = c
        /\ commands[c].at \in {"loaded", "titleLoaded"} =>
              seen[commands[c].aim][commands[c].copy] = length[commands[c].aim]

NoneForgets == \A c \in Commands : commands[c].at # "forgot"

OneWriter ==
    Calm => HandleIsHeld /\ FilesAlone /\ NoneForgets /\ HeldCopyIsTheLog /\ FocusIsHeld

Inv ==
    /\ Typed /\ Born /\ TurnsApart
    /\ NewMessageInNewChat /\ MadeSince
    /\ EphemeralStays /\ OneWriter
\* The copies somebody refers to after a step are as sn has them.
SeenIs(sn) ==
    \A i \in Ids, k \in Copies :
        InUse(commands', i, k) \/ held'[i] = k => seen'[i][k] = sn[i][k]

LEMMA BecomeKeeps ==
    ASSUME NEW cs, NEW h, NEW f, NEW m, NEW sn, Become(cs, h, f, m, sn)
    PROVE  SeenIs(sn)
BY DEF Become, SeenIs

LEMMA CalmStays ==
    ASSUME UNCHANGED his
    PROVE  Calm' <=> Calm
BY DEF Calm

LEMMA InitHolds == Init => Inv
<1> SUFFICES ASSUME Init PROVE Inv
    OBVIOUS
<1>1. Typed
    BY InitTypes
<1>2. \A c \in Commands : commands[c].at = "idle" /\ commands[c].chat = New /\ commands[c].aim = New
                          /\ commands[c].knew = {}
    BY DEF Init, Idle
<1>3. New \notin Ids /\ focus = New /\ \A i \in Ids : held[i] = None
    BY ChatsAssumption DEF Init
<1>4. Born
    BY <1>2, <1>3 DEF Init, Born
<1>5. TurnsApart /\ NewMessageInNewChat /\ MadeSince
    BY <1>2 DEF TurnsApart, NewMessageInNewChat, MadeSince
<1>6. EphemeralStays
    BY DEF Init, EphemeralStays
<1>7. OneWriter
    BY <1>2, <1>3 DEF OneWriter, HandleIsHeld, FilesAlone, NoneForgets, HeldCopyIsTheLog, FocusIsHeld,
                      InTurn, AtFiles
<1> QED BY <1>1, <1>4, <1>5, <1>6, <1>7 DEF Inv

(***************************************************************************)
(* Steps of a command that leave the chats alone                           *)
(***************************************************************************)

\* What a command's new place asks of the chats.
Fits(q, c) ==
    /\ q.chat \in Ids => mode[q.chat] # "unborn"
    /\ q.aim \in Ids => mode[q.aim] # "unborn"
    /\ \A j \in q.knew : mode[j] # "unborn"
    /\ q.at = "turn" => \A d \in Commands \ {c} :
          commands[d].at = "turn" => << commands[d].chat, commands[d].copy >> # << q.chat, q.copy >>
    /\ q.at \in InTurn /\ q.aim = New => q.chat \notin q.knew
    /\ q.at = "aimed" /\ q.aim = New /\ made \in q.knew => focus # made
    /\ Calm =>
        /\ q.at # "forgot"
        /\ q.at \in InTurn \cup {"found", "titleFound"} => held[q.chat] = q.copy
        /\ q.at \in AtFiles =>
              /\ q.at \in {"absent", "titleAbsent"} /\ held[q.aim] = None
              /\ \A d \in Commands \ {c} : commands[d].at \notin AtFiles

\* The chats stay as they are, but for where a log file is.
ChatsStay ==
    /\ UNCHANGED << his, focus, held, made, mode, length >> /\ SeenIs(seen)
    /\ \A i \in Ids : file'[i] = "none" <=> file[i] = "none"

LEMMA QuietKeeps ==
    ASSUME Inv, Typed', NEW c \in Commands, OnlyOf(c), Fits(commands'[c], c), ChatsStay
    PROVE  Inv'
<1>0. UNCHANGED << his, focus, held, made, mode, length >>
    BY DEF ChatsStay
<1>1. Born'
    BY <1>0 DEF Inv, Born, OnlyOf, Fits, ChatsStay
<1>2. TurnsApart'
    BY <1>0 DEF Inv, TurnsApart, OnlyOf, Fits
<1>3. NewMessageInNewChat' /\ MadeSince' /\ EphemeralStays'
    BY <1>0 DEF Inv, NewMessageInNewChat, MadeSince, EphemeralStays, OnlyOf, Fits, InTurn
<1>4. OneWriter'
    <2> SUFFICES ASSUME Calm PROVE HandleIsHeld' /\ FilesAlone' /\ NoneForgets' /\ HeldCopyIsTheLog' /\ FocusIsHeld'
        BY <1>0, CalmStays DEF OneWriter
    <2>1. HandleIsHeld /\ FilesAlone /\ NoneForgets /\ HeldCopyIsTheLog /\ FocusIsHeld
        BY DEF Inv, OneWriter
    <2>2. HandleIsHeld' /\ NoneForgets' /\ FocusIsHeld'
        BY <1>0, <2>1 DEF HandleIsHeld, NoneForgets, FocusIsHeld, OnlyOf, Fits
    <2>3. HeldCopyIsTheLog'
        BY <1>0, <2>1 DEF HeldCopyIsTheLog, ChatsStay, SeenIs, Inv, Typed
    <2>4. ASSUME NEW d \in Commands, commands'[d].at \in AtFiles
          PROVE  /\ held'[commands'[d].aim] = None
                 /\ \A e \in Commands : commands'[e].at \in AtFiles => e = d
        BY <1>0, <2>1, <2>4 DEF FilesAlone, OnlyOf, Fits
    <2>5. ASSUME NEW d \in Commands, commands'[d].at \in {"loaded", "titleLoaded"}
          PROVE  seen'[commands'[d].aim][commands'[d].copy] = length'[commands'[d].aim]
        <3>1. d # c /\ commands'[d] = commands[d]
            BY <2>5 DEF OnlyOf, Fits, AtFiles
        <3>2. commands[d].aim \in Ids /\ commands[d].copy \in Copies /\ commands[d].chat = commands[d].aim
            BY <2>5, <3>1 DEF Inv, Typed, WellPlaced, Handles, LookedUp
        <3>3. InUse(commands', commands[d].aim, commands[d].copy)
            BY <3>1, <3>2 DEF InUse
        <3> QED BY <1>0, <2>1, <2>5, <3>1, <3>2, <3>3 DEF SeenIs, ChatsStay, FilesAlone, AtFiles
    <2> QED BY <2>2, <2>3, <2>4, <2>5 DEF FilesAlone
<1> QED BY <1>1, <1>2, <1>3, <1>4 DEF Inv

LEMMA AllStays == UNCHANGED << index, seen, mode, disk >> => ChatsStay
BY DEF ChatsStay, SeenIs, index, disk

LEMMA EndKeeps ==
    ASSUME Inv, Typed', NEW c \in Commands, commands' = Done(c), ChatsStay
    PROVE  Inv'
<1>1. OnlyOf(c) /\ commands'[c] = Idle
    BY DoneIs DEF Inv
<1>2. Fits(Idle, c)
    BY ChatsAssumption DEF Idle, Fits, InTurn, AtFiles
<1> QED BY <1>1, <1>2, QuietKeeps

LEMMA ReadTargetKeeps ==
    ASSUME Inv, Typed', NEW c \in Commands, NEW i \in Ids \cup {New}, ReadTarget(c, i)
    PROVE  Inv'
<1>0. New \notin Ids /\ Typed /\ UNCHANGED << index, seen, mode, disk >>
    BY ChatsAssumption DEF Inv, ReadTarget
<1>1. CASE i = New
    <2> DEFINE x == [Idle EXCEPT !.at = "aimed", !.knew = {j \in Ids : mode[j] # "unborn"}]
    <2>1. /\ x \in Command /\ x.at = "aimed" /\ x.aim = New /\ x.chat = New
          /\ x.knew = {j \in Ids : mode[j] # "unborn"}
        BY DEF Idle, Command, Ats, Handles, InTurn, LookedUp, Aiming
    <2>2. commands' = [commands EXCEPT ![c] = x] /\ focus = New
        BY <1>0, <1>1 DEF ReadTarget
    <2> HIDE DEF x
    <2>3. OnlyOf(c) /\ commands'[c] = x
        BY <1>0, <2>1, <2>2, OneRecord
    <2>4. Fits(x, c)
        BY <1>0, <2>1, <2>2 DEF Fits, InTurn, AtFiles
    <2> QED BY <1>0, <2>3, <2>4, QuietKeeps, AllStays
<1>2. CASE i # New
    <2>1. i \in Ids /\ commands' = [commands EXCEPT ![c] = Found(i, "waiting", "aimed")]
        BY <1>2 DEF ReadTarget
    <2>2. "waiting" \in Handles
        BY DEF Handles, InTurn
    <2>3. /\ OnlyOf(c) /\ commands'[c].aim = i /\ commands'[c].knew = {}
          /\ IF held[i] = None
             THEN commands'[c].at = "aimed" /\ commands'[c].chat = New /\ commands'[c].copy = None
             ELSE commands'[c].at = "waiting" /\ commands'[c].chat = i /\ commands'[c].copy = held[i]
        BY <1>0, <2>1, <2>2, FoundIs
    <2>4. mode[i] # "unborn"
        BY <1>2, <2>1 DEF ReadTarget, Inv, Born
    <2>5. Fits(commands'[c], c)
        BY <1>0, <2>1, <2>3, <2>4 DEF Fits, InTurn, AtFiles
    <2> QED BY <1>0, <2>3, <2>5, QuietKeeps, AllStays
<1> QED BY <1>1, <1>2

LEMMA FindKeeps ==
    ASSUME Inv, Typed', NEW c \in Commands, NEW i \in Ids, FindToOpen(c, i) \/ FindToTitle(c, i)
    PROVE  Inv'
<1>0. New \notin Ids /\ Typed /\ UNCHANGED << index, seen, mode, disk >> /\ mode[i] # "unborn"
    BY ChatsAssumption DEF Inv, FindToOpen, FindToTitle
<1>1. PICK h \in {"found", "titleFound"}, a \in {"absent", "titleAbsent"} :
        commands' = [commands EXCEPT ![c] = Found(i, h, a)]
    BY DEF FindToOpen, FindToTitle
<1>2. h \in Handles /\ a \in Aiming \cup {"aimed"}
    BY DEF Handles, LookedUp, Aiming
<1>3. /\ OnlyOf(c) /\ commands'[c].aim = i /\ commands'[c].knew = {}
      /\ IF held[i] = None
         THEN commands'[c].at = a /\ commands'[c].chat = New /\ commands'[c].copy = None
         ELSE commands'[c].at = h /\ commands'[c].chat = i /\ commands'[c].copy = held[i]
    BY <1>0, <1>1, <1>2, FoundIs
<1>4. Calm /\ held[i] = None => \A d \in Commands : commands[d].at \notin AtFiles
    BY DEF FindToOpen, FindToTitle, MayGoToFiles, Calm
<1>5. Fits(commands'[c], c)
    BY <1>0, <1>3, <1>4 DEF Fits, InTurn, AtFiles
<1> QED BY <1>0, <1>3, <1>5, QuietKeeps, AllStays

LEMMA LockTurnKeeps ==
    ASSUME Inv, Typed', NEW c \in Commands, LockTurn(c)
    PROVE  Inv'
<1>0. /\ Typed /\ UNCHANGED << index, seen, mode, disk >>
      /\ commands[c].at = "waiting" /\ Free(c) /\ commands' = Moved(c, "turn")
    BY DEF Inv, LockTurn
<1>1. "turn" \in Ats
    BY DEF Ats, Handles, InTurn
<1>2. /\ OnlyOf(c)
      /\ commands'[c].at = "turn" /\ commands'[c].aim = commands[c].aim
      /\ commands'[c].chat = commands[c].chat /\ commands'[c].copy = commands[c].copy
      /\ commands'[c].knew = commands[c].knew
    BY <1>0, <1>1, MovedIs
<1>3. \A d \in Commands : commands[d].at = "turn" =>
        << commands[d].chat, commands[d].copy >> # << commands[c].chat, commands[c].copy >>
    BY <1>0 DEF Free, Locked
<1>4. /\ commands[c].chat \in Ids => mode[commands[c].chat] # "unborn"
      /\ commands[c].aim \in Ids => mode[commands[c].aim] # "unborn"
      /\ \A j \in commands[c].knew : mode[j] # "unborn"
      /\ commands[c].aim = New => commands[c].chat \notin commands[c].knew
      /\ Calm => held[commands[c].chat] = commands[c].copy
    BY <1>0 DEF Inv, Born, NewMessageInNewChat, OneWriter, HandleIsHeld, InTurn
<1>5. Fits(commands'[c], c)
    BY <1>2, <1>3, <1>4 DEF Fits, AtFiles
<1> QED BY <1>0, <1>2, <1>5, QuietKeeps, AllStays
LEMMA EndsKeep ==
    ASSUME Inv, Typed', NEW c \in Commands,
           LoadFailed(c) \/ EndTurn(c) \/ TitleRefused(c) \/ MoveToTrash(c)
    PROVE  Inv'
<1>1. CASE LoadFailed(c)
    BY <1>1, EndKeeps, AllStays DEF LoadFailed
<1>2. CASE EndTurn(c) \/ TitleRefused(c)
    <2>1. Become(Done(c), held, focus, made, seen) /\ UNCHANGED << mode, disk >>
        BY <1>2 DEF EndTurn, TitleRefused
    <2>2. commands' = Done(c) /\ ChatsStay
        BY <2>1, BecomeKeeps DEF Become, ChatsStay, disk
    <2> QED BY <2>2, EndKeeps
<1>3. CASE MoveToTrash(c)
    <2>1. commands' = Done(c) /\ UNCHANGED << index, seen, mode, length >>
        BY <1>3 DEF MoveToTrash
    <2>2. \A i \in Ids : file'[i] = "none" <=> file[i] = "none"
        BY <1>3 DEF MoveToTrash, Inv, Typed
    <2>3. ChatsStay
        BY <2>1, <2>2 DEF ChatsStay, SeenIs, index
    <2> QED BY <2>1, <2>3, EndKeeps
<1> QED BY <1>1, <1>2, <1>3

LEMMA RestoreKeeps ==
    ASSUME Inv, NEW i \in Ids, RestoreFromTrash(i)
    PROVE  Inv'
<1>0. Typed'
    BY StepTypes DEF Inv, Next
<1>1. UNCHANGED << his, focus, held, made, seen, mode, length, commands >>
    BY DEF RestoreFromTrash, index
<1>2. \A j \in Ids : file'[j] = "none" <=> file[j] = "none"
    BY DEF RestoreFromTrash, Inv, Typed
<1>3. Born'
    BY <1>1, <1>2 DEF Inv, Born
<1>4. TurnsApart' /\ NewMessageInNewChat' /\ MadeSince' /\ EphemeralStays'
    BY <1>1 DEF Inv, TurnsApart, NewMessageInNewChat, MadeSince, EphemeralStays
<1>5. OneWriter'
    BY <1>1 DEF Inv, OneWriter, Calm, HandleIsHeld, FilesAlone, NoneForgets, HeldCopyIsTheLog, FocusIsHeld
<1> QED BY <1>0, <1>3, <1>4, <1>5 DEF Inv

LEMMA StutterKeeps == Inv /\ UNCHANGED vars => Inv'
<1> SUFFICES ASSUME Inv, UNCHANGED vars PROVE Inv'
    OBVIOUS
<1>0. Typed'
    BY StepTypes DEF Inv
<1>1. UNCHANGED << his, focus, held, made, seen, mode, file, length, commands >>
    BY DEF vars
<1>2. Born' /\ TurnsApart' /\ NewMessageInNewChat' /\ MadeSince' /\ EphemeralStays'
    BY <1>1 DEF Inv, Born, TurnsApart, NewMessageInNewChat, MadeSince, EphemeralStays
<1>3. OneWriter'
    BY <1>1 DEF Inv, OneWriter, Calm, HandleIsHeld, FilesAlone, NoneForgets, HeldCopyIsTheLog, FocusIsHeld
<1> QED BY <1>0, <1>2, <1>3 DEF Inv
(***************************************************************************)
(* Steps that change the chats                                             *)
(***************************************************************************)

\* A message joins the chat another command has made from its New chat.
LEMMA JoinKeeps ==
    ASSUME Inv, Typed', NEW c \in Commands, commands[c].at = "aimed", Joined(c),
           focus # New, focus = made, held[focus] # None, UNCHANGED << mode, disk >>
    PROVE  Inv'
<1>0. Typed /\ focus \in Ids /\ held[focus] \in Copies /\ "waiting" \in Ats
    BY DEF Inv, Typed, Ats, Handles, InTurn
<1>1. Become(Given(c, "waiting", focus, held[focus]), held, focus, made, seen)
    BY DEF Joined
<1>2. commands' = Given(c, "waiting", focus, held[focus]) /\ ChatsStay
    BY <1>1, BecomeKeeps DEF Become, ChatsStay, disk
<1>3. /\ OnlyOf(c)
      /\ commands'[c].at = "waiting" /\ commands'[c].aim = commands[c].aim
      /\ commands'[c].chat = focus /\ commands'[c].copy = held[focus]
      /\ commands'[c].knew = commands[c].knew
    BY <1>0, <1>2, GivenIs
<1>4. /\ mode[focus] # "unborn"
      /\ commands[c].aim \in Ids => mode[commands[c].aim] # "unborn"
      /\ \A j \in commands[c].knew : mode[j] # "unborn"
      /\ commands[c].aim = New => focus \notin commands[c].knew
    BY <1>0 DEF Inv, Born, MadeSince
<1>5. Fits(commands'[c], c)
    BY <1>3, <1>4 DEF Fits, AtFiles
<1> QED BY <1>2, <1>3, <1>5, QuietKeeps

\* A chat is made for it: f and n are what is open and what was made from New
\* chat after that.
LEMMA MadeKeeps ==
    ASSUME Inv, Typed', NEW c \in Commands, NEW i \in Ids, NEW m \in {"normal", "ephemeral"},
           commands[c].at = "aimed", StartAs(i, m), NEW f, NEW n, StartedBy(c, i, f, n),
           (f = i /\ n = i) \/ (f = focus /\ n = made)
    PROVE  Inv'
<1>0. Typed /\ mode[i] = "unborn" /\ held[i] = None /\ New \notin Ids
    BY ChatsAssumption DEF Inv, Born, StartAs
<1>1. 1 \in Copies /\ 1 # None /\ "waiting" \in Ats
    <2>1. Cardinality(Commands) \in Nat
        BY ChatsAssumption, FS_CardinalityType
    <2> QED BY <2>1 DEF Copies, None, Ats, Handles, InTurn
<1>2. /\ commands' = Given(c, "waiting", i, 1) /\ held' = [held EXCEPT ![i] = 1]
      /\ focus' = f /\ made' = n /\ UNCHANGED his /\ SeenIs([seen EXCEPT ![i][1] = 1])
    <2>1. Become(Given(c, "waiting", i, 1), [held EXCEPT ![i] = 1], f, n, [seen EXCEPT ![i][1] = 1])
        BY DEF StartedBy
    <2>2. SeenIs([seen EXCEPT ![i][1] = 1])
        BY <2>1, BecomeKeeps, Zenon
    <2> QED BY <2>1, <2>2 DEF Become
<1>3. /\ OnlyOf(c)
      /\ commands'[c].at = "waiting" /\ commands'[c].aim = commands[c].aim
      /\ commands'[c].chat = i /\ commands'[c].copy = 1
      /\ commands'[c].knew = commands[c].knew
    BY <1>0, <1>1, <1>2, GivenIs
<1>4. /\ mode' = [mode EXCEPT ![i] = m] /\ m # "unborn"
      /\ m = "normal" <=> file'[i] # "none"
      /\ \A j \in Ids : j # i => file'[j] = file[j] /\ length'[j] = length[j]
      /\ m = "normal" => length'[i] = 1
    <2>1. mode' = [mode EXCEPT ![i] = m] /\ m # "unborn"
        BY DEF StartAs
    <2>2. CASE m = "normal"
        BY <1>0, <2>1, <2>2 DEF StartAs, Typed
    <2>3. CASE m = "ephemeral"
        BY <1>0, <2>1, <2>3 DEF StartAs, Typed
    <2> QED BY <2>2, <2>3
<1>5. /\ mode'[i] = m /\ held'[i] = 1
      /\ \A j \in Ids : j # i => mode'[j] = mode[j] /\ held'[j] = held[j]
    BY <1>0, <1>2, <1>4 DEF Typed
<1>6. Born'
    <2>1. \A j \in Ids : mode'[j] = "normal" <=> file'[j] # "none"
        BY <1>4, <1>5 DEF Inv, Born
    <2>2. \A j \in Ids : mode'[j] = "unborn" => held'[j] = None /\ focus' # j
        BY <1>2, <1>4, <1>5 DEF Inv, Born
    <2>3. ASSUME NEW d \in Commands
          PROVE  /\ commands'[d].chat \in Ids => mode'[commands'[d].chat] # "unborn"
                 /\ commands'[d].aim \in Ids => mode'[commands'[d].aim] # "unborn"
                 /\ \A j \in commands'[d].knew : mode'[j] # "unborn"
        <3>1. \A j \in Ids : mode[j] # "unborn" => mode'[j] # "unborn"
            BY <1>4, <1>5
        <3>2. commands[d].knew \subseteq Ids
            BY <1>0 DEF Typed, Command
        <3>3. /\ commands[d].chat \in Ids => mode[commands[d].chat] # "unborn"
              /\ commands[d].aim \in Ids => mode[commands[d].aim] # "unborn"
              /\ \A j \in commands[d].knew : mode[j] # "unborn"
            BY DEF Inv, Born
        <3>4. CASE d = c
            BY <1>3, <1>4, <1>5, <3>1, <3>2, <3>3, <3>4
        <3>5. CASE d # c
            BY <1>3, <3>1, <3>2, <3>3, <3>5 DEF OnlyOf
        <3> QED BY <3>4, <3>5
    <2> QED BY <2>1, <2>2, <2>3 DEF Born
<1>7. TurnsApart'
    BY <1>3 DEF Inv, TurnsApart, OnlyOf
<1>8. \A d \in Commands : i \notin commands[d].knew
    BY <1>0 DEF Inv, Born
<1>9. NewMessageInNewChat'
    BY <1>3, <1>8 DEF Inv, NewMessageInNewChat, OnlyOf
<1>10. MadeSince'
    BY <1>2, <1>3, <1>8 DEF Inv, MadeSince, OnlyOf
<1>11. EphemeralStays'
    BY <1>1, <1>5 DEF Inv, EphemeralStays
<1>12. OneWriter'
    <2> SUFFICES ASSUME Calm PROVE HandleIsHeld' /\ FilesAlone' /\ NoneForgets' /\ HeldCopyIsTheLog' /\ FocusIsHeld'
        BY <1>2, CalmStays DEF OneWriter
    <2>1. HandleIsHeld /\ FilesAlone /\ NoneForgets /\ HeldCopyIsTheLog /\ FocusIsHeld
        BY DEF Inv, OneWriter
    <2>2. \A d \in Commands : commands[d].chat # i /\ commands[d].aim # i
        BY <1>0 DEF Inv, Born
    <2>3. HandleIsHeld'
        <3> SUFFICES ASSUME NEW d \in Commands, commands'[d].at \in InTurn \cup {"found", "titleFound"}
                     PROVE  held'[commands'[d].chat] = commands'[d].copy
            BY DEF HandleIsHeld
        <3>1. CASE d = c
            BY <1>3, <1>5, <3>1
        <3>2. CASE d # c
            <4>1. commands'[d] = commands[d]
                BY <1>3, <3>2 DEF OnlyOf
            <4>2. commands[d].chat \in Ids
                BY <1>0, <4>1 DEF Typed, WellPlaced, Handles, LookedUp
            <4> QED BY <1>5, <2>1, <2>2, <4>1, <4>2 DEF HandleIsHeld
        <3> QED BY <3>1, <3>2
    <2>4. ASSUME NEW d \in Commands, commands'[d].at \in AtFiles
          PROVE  /\ held'[commands'[d].aim] = None
                 /\ \A e \in Commands : commands'[e].at \in AtFiles => e = d
                 /\ commands'[d].at \in {"loaded", "titleLoaded"} =>
                      seen'[commands'[d].aim][commands'[d].copy] = length'[commands'[d].aim]
        <3>1. d # c /\ commands'[d] = commands[d]
            BY <1>3, <2>4 DEF OnlyOf, AtFiles
        <3>2. commands[d].aim \in Ids /\ commands[d].aim # i
            BY <1>0, <2>2, <2>4, <3>1 DEF Typed, WellPlaced, AtFiles, Aiming, LookedUp, Handles
        <3>3. held'[commands'[d].aim] = None
            BY <1>5, <2>1, <2>4, <3>1, <3>2 DEF FilesAlone
        <3>4. \A e \in Commands : commands'[e].at \in AtFiles => e = d
            <4> SUFFICES ASSUME NEW e \in Commands, commands'[e].at \in AtFiles PROVE e = d
                OBVIOUS
            <4>1. e # c /\ commands'[e] = commands[e]
                BY <1>3 DEF OnlyOf, AtFiles
            <4> QED BY <2>1, <2>4, <3>1, <4>1 DEF FilesAlone
        <3>5. ASSUME commands'[d].at \in {"loaded", "titleLoaded"}
              PROVE  seen'[commands'[d].aim][commands'[d].copy] = length'[commands'[d].aim]
            <4>1. commands[d].copy \in Copies /\ commands[d].chat = commands[d].aim
                BY <1>0, <3>1, <3>5 DEF Typed, WellPlaced, Handles, LookedUp
            <4>2. InUse(commands', commands[d].aim, commands[d].copy)
                BY <3>1, <4>1 DEF InUse
            <4>3. seen'[commands[d].aim][commands[d].copy]
                    = [seen EXCEPT ![i][1] = 1][commands[d].aim][commands[d].copy]
                BY <1>2, <3>2, <4>1, <4>2 DEF SeenIs
            <4>4. seen'[commands[d].aim][commands[d].copy] = seen[commands[d].aim][commands[d].copy]
                BY <1>0, <3>2, <4>3 DEF Typed
            <4>5. seen[commands[d].aim][commands[d].copy] = length[commands[d].aim]
                BY <2>1, <2>4, <3>1, <3>5 DEF FilesAlone
            <4> QED BY <1>4, <3>1, <3>2, <4>4, <4>5
        <3> QED BY <3>3, <3>4, <3>5
    <2>5. NoneForgets'
        BY <1>3, <2>1 DEF NoneForgets, OnlyOf
    <2>6. HeldCopyIsTheLog'
        <3> SUFFICES ASSUME NEW j \in Ids, held'[j] # None, mode'[j] = "normal"
                     PROVE  seen'[j][held'[j]] = length'[j]
            BY DEF HeldCopyIsTheLog
        <3>1. held'[j] \in Copies
            BY DEF Typed
        <3>2. seen'[j][held'[j]] = [seen EXCEPT ![i][1] = 1][j][held'[j]]
            BY <1>2, <3>1 DEF SeenIs
        <3>3. CASE j = i
            BY <1>0, <1>1, <1>4, <1>5, <3>2, <3>3 DEF Typed
        <3>4. CASE j # i
            BY <1>0, <1>4, <1>5, <2>1, <3>2, <3>4 DEF Typed, HeldCopyIsTheLog
        <3> QED BY <3>3, <3>4
    <2>7. FocusIsHeld'
        BY <1>0, <1>1, <1>2, <1>5, <2>1 DEF FocusIsHeld, Typed
    <2> QED BY <2>3, <2>4, <2>5, <2>6, <2>7 DEF FilesAlone
<1> QED BY <1>6, <1>7, <1>9, <1>10, <1>11, <1>12 DEF Inv

LEMMA StartKeeps ==
    ASSUME Inv, Typed', NEW c \in Commands, NEW i \in Ids, NEW m \in {"normal", "ephemeral"},
           Start(c, i, m)
    PROVE  Inv'
<1>0. commands[c].at = "aimed"
    BY DEF Start
<1>1. CASE focus # New /\ focus = made
    <2>1. CASE held[focus] = None
        <3>1. Become(Done(c), held, focus, made, seen) /\ UNCHANGED << mode, disk >>
            BY <1>1, <2>1 DEF Start
        <3>2. commands' = Done(c) /\ ChatsStay
            BY <3>1, BecomeKeeps DEF Become, ChatsStay, disk
        <3> QED BY <3>2, EndKeeps
    <2>2. CASE held[focus] # None
        BY <1>0, <1>1, <2>2, JoinKeeps DEF Start
    <2> QED BY <2>1, <2>2
<1>2. CASE ~(focus # New /\ focus = made)
    <2>1. StartAs(i, m) /\ (StartedBy(c, i, i, i) \/ StartedBy(c, i, focus, made))
        BY <1>2 DEF Start
    <2>2. CASE StartedBy(c, i, i, i)
        BY <1>0, <2>1, <2>2, MadeKeeps
    <2>3. CASE StartedBy(c, i, focus, made)
        BY <1>0, <2>1, <2>3, MadeKeeps
    <2> QED BY <2>1, <2>2, <2>3
<1> QED BY <1>1, <1>2
\* An event recorded through a command's handle.
LEMMA RecordKeeps ==
    ASSUME Inv, Typed', NEW c \in Commands, commands[c].at \in {"turn", "titleFound", "titleLoaded"},
           Record(c), SeenIs(Longer(c)), UNCHANGED << his, focus, held, made, mode, file >>,
           \/ commands' = Done(c)
           \/ commands' = commands /\ commands[c].at # "titleLoaded"
    PROVE  Inv'
<1> DEFINE i == commands[c].chat
           k == commands[c].copy
<1>0. Typed /\ i \in Ids /\ k \in Copies
    BY DEF Inv, Typed, WellPlaced, Handles, InTurn, LookedUp
<1>1. /\ OnlyOf(c)
      /\ \/ commands'[c] = commands[c] /\ commands[c].at # "titleLoaded"
         \/ /\ commands'[c].at = "idle" /\ commands'[c].aim = New /\ commands'[c].chat = New
            /\ commands'[c].copy = None /\ commands'[c].knew = {}
    BY <1>0, DoneIs DEF Idle, OnlyOf, Typed
<1>2. New \notin Ids
    BY ChatsAssumption
<1>3. Born'
    BY <1>1, <1>2 DEF Inv, Born, OnlyOf
<1>4. TurnsApart' /\ NewMessageInNewChat' /\ MadeSince' /\ EphemeralStays'
    BY <1>1 DEF Inv, TurnsApart, NewMessageInNewChat, MadeSince, EphemeralStays, OnlyOf
<1>5. \A j \in Ids, l \in Copies :
        Longer(c)[j][l] = IF j = i /\ l = k THEN seen[j][l] + 1 ELSE seen[j][l]
    BY <1>0 DEF Longer, Typed
<1>6. /\ \A j \in Ids \ {i} : length'[j] = length[j]
      /\ mode[i] = "normal" => length'[i] = length[i] + 1
    BY <1>0 DEF Record, Typed
<1>7. OneWriter'
    <2> SUFFICES ASSUME Calm PROVE HandleIsHeld' /\ FilesAlone' /\ NoneForgets' /\ HeldCopyIsTheLog' /\ FocusIsHeld'
        BY CalmStays DEF OneWriter
    <2>1. HandleIsHeld /\ FilesAlone /\ NoneForgets /\ HeldCopyIsTheLog /\ FocusIsHeld
        BY DEF Inv, OneWriter
    <2>2. HandleIsHeld' /\ NoneForgets' /\ FocusIsHeld'
        BY <1>1, <2>1 DEF HandleIsHeld, NoneForgets, FocusIsHeld, OnlyOf, InTurn
    <2>3. IF commands[c].at = "titleLoaded" THEN held[i] = None ELSE held[i] = k
        BY <1>0, <2>1 DEF HandleIsHeld, FilesAlone, InTurn, AtFiles, Typed, WellPlaced, LookedUp
    <2>4. HeldCopyIsTheLog'
        <3> SUFFICES ASSUME NEW j \in Ids, held[j] # None, mode[j] = "normal"
                     PROVE  seen'[j][held[j]] = length'[j]
            BY DEF HeldCopyIsTheLog
        <3>1. held[j] \in Copies /\ seen[j][held[j]] = length[j]
            BY <1>0, <2>1 DEF Typed, HeldCopyIsTheLog
        <3>2. seen'[j][held[j]] = Longer(c)[j][held[j]]
            BY <3>1 DEF SeenIs
        <3> HIDE DEF i, k
        <3>3. CASE j = i
            BY <1>5, <1>6, <2>3, <3>1, <3>2, <3>3
        <3>4. CASE j # i
            BY <1>5, <1>6, <3>1, <3>2, <3>4
        <3> QED BY <3>3, <3>4
    <2>5. ASSUME NEW d \in Commands, commands'[d].at \in AtFiles
          PROVE  /\ held'[commands'[d].aim] = None
                 /\ \A e \in Commands : commands'[e].at \in AtFiles => e = d
                 /\ commands'[d].at \in {"loaded", "titleLoaded"} =>
                      seen'[commands'[d].aim][commands'[d].copy] = length'[commands'[d].aim]
        <3>1. d # c /\ commands'[d] = commands[d]
            BY <1>1, <2>5 DEF OnlyOf, AtFiles
        <3>2. commands[c].at # "titleLoaded"
            BY <2>1, <2>5, <3>1 DEF FilesAlone, AtFiles
        <3>3. held[commands[d].aim] = None /\ held[i] = k /\ k # None
            <4>1. None \notin Copies
                BY FS_CardinalityType, ChatsAssumption DEF None, Copies
            <4> QED BY <1>0, <2>1, <2>3, <2>5, <3>1, <3>2, <4>1 DEF FilesAlone
        <3>4. \A e \in Commands : commands'[e].at \in AtFiles => e = d
            BY <1>1, <2>1, <2>5, <3>1 DEF FilesAlone, OnlyOf, AtFiles
        <3>5. ASSUME commands'[d].at \in {"loaded", "titleLoaded"}
              PROVE  seen'[commands'[d].aim][commands'[d].copy] = length'[commands'[d].aim]
            <4>1. /\ commands[d].aim \in Ids /\ commands[d].copy \in Copies
                  /\ commands[d].chat = commands[d].aim /\ commands[d].aim # i
                BY <1>0, <3>1, <3>3, <3>5 DEF Typed, WellPlaced, Handles, LookedUp
            <4>2. InUse(commands', commands[d].aim, commands[d].copy)
                BY <3>1, <4>1 DEF InUse
            <4>3. seen'[commands[d].aim][commands[d].copy] = Longer(c)[commands[d].aim][commands[d].copy]
                BY <4>1, <4>2 DEF SeenIs
            <4>4. seen[commands[d].aim][commands[d].copy] = length[commands[d].aim]
                BY <2>1, <2>5, <3>1, <3>5 DEF FilesAlone
            <4> HIDE DEF i, k
            <4> QED BY <1>5, <1>6, <3>1, <4>1, <4>3, <4>4
        <3> QED BY <3>1, <3>3, <3>4, <3>5
    <2> QED BY <2>2, <2>4, <2>5 DEF FilesAlone
<1> QED BY <1>3, <1>4, <1>7 DEF Inv

LEMMA RecordsKeep ==
    ASSUME Inv, Typed', NEW c \in Commands, TurnRecords(c) \/ TitleRecords(c)
    PROVE  Inv'
<1>1. CASE TurnRecords(c)
    <2>1. /\ commands[c].at = "turn" /\ Record(c) /\ seen' = Longer(c)
          /\ UNCHANGED << his, focus, held, made, mode, file, commands >>
        BY <1>1 DEF TurnRecords, index
    <2>2. SeenIs(Longer(c))
        BY <2>1 DEF SeenIs
    <2> QED BY <2>1, <2>2, RecordKeeps
<1>2. CASE TitleRecords(c)
    <2>1. /\ commands[c].at \in {"titleFound", "titleLoaded"} /\ Record(c) /\ UNCHANGED << mode, file >>
          /\ Become(Done(c), held, focus, made, Longer(c))
        BY <1>2 DEF TitleRecords
    <2>2. commands' = Done(c) /\ UNCHANGED << his, focus, held, made >> /\ SeenIs(Longer(c))
        BY <2>1, BecomeKeeps DEF Become
    <2> QED BY <2>1, <2>2, RecordKeeps
<1> QED BY <1>1, <1>2
(***************************************************************************)
(* Steps that open a chat, load one or let one go                          *)
(***************************************************************************)

\* A chat is opened, or New chat: what h holds and nobody needs is let go.  Any
\* chat it holds that was not held is the one its command had loaded.
LEMMA OpenKeeps ==
    ASSUME Inv, Typed', NEW h, NEW f, held' = Prune(h, f), focus' = f, made' = New, SeenIs(seen),
           UNCHANGED << his, mode, file, length >>,
           \A d \in Commands : commands'[d] = commands[d] \/ commands'[d] = Idle,
           f \in Ids => mode[f] # "unborn",
           \A j \in Ids : h[j] # held[j] => held[j] = None /\ h[j] # None /\ j = f,
           Calm => /\ f \in Ids => h[f] # None
                   /\ f \in Ids => (h[f] # held[f] =>
                         /\ seen[f][h[f]] = length[f]
                         /\ \A d \in Commands : commands'[d].at \notin AtFiles)
    PROVE  Inv'
<1>0. Typed /\ New \notin Ids
    BY ChatsAssumption DEF Inv
<1>1. /\ Idle.at = "idle" /\ Idle.chat = New /\ Idle.aim = New /\ Idle.copy = None /\ Idle.knew = {}
    BY DEF Idle
<1>2. \A j \in Ids : /\ held'[j] \in {h[j], None}
                     /\ j = f \/ mode[j] = "ephemeral" \/ InUse(commands, j, h[j]) => held'[j] = h[j]
    BY DEF Prune
<1>3. Born'
    <2>1. \A j \in Ids : mode'[j] = "unborn" => held'[j] = None /\ focus' # j
        BY <1>2 DEF Inv, Born
    <2>2. \A d \in Commands :
            /\ commands'[d].chat \in Ids => mode'[commands'[d].chat] # "unborn"
            /\ commands'[d].aim \in Ids => mode'[commands'[d].aim] # "unborn"
            /\ \A j \in commands'[d].knew : mode'[j] # "unborn"
        BY <1>0, <1>1 DEF Inv, Born
    <2> QED BY <2>1, <2>2 DEF Inv, Born
<1>4. TurnsApart' /\ NewMessageInNewChat'
    BY <1>1 DEF Inv, TurnsApart, NewMessageInNewChat
<1>5. MadeSince'
    BY <1>0, <1>1 DEF MadeSince, Typed, Command
<1>6. EphemeralStays'
    BY <1>2 DEF Inv, EphemeralStays
<1>7. OneWriter'
    <2> SUFFICES ASSUME Calm PROVE HandleIsHeld' /\ FilesAlone' /\ NoneForgets' /\ HeldCopyIsTheLog' /\ FocusIsHeld'
        BY CalmStays DEF OneWriter
    <2>1. HandleIsHeld /\ FilesAlone /\ NoneForgets /\ HeldCopyIsTheLog /\ FocusIsHeld
        BY DEF Inv, OneWriter
    <2>2. HandleIsHeld'
        <3> SUFFICES ASSUME NEW d \in Commands, commands'[d].at \in InTurn \cup {"found", "titleFound"}
                     PROVE  held'[commands'[d].chat] = commands'[d].copy
            BY DEF HandleIsHeld
        <3>1. commands'[d] = commands[d]
            BY <1>1 DEF InTurn
        <3>2. /\ commands[d].chat \in Ids /\ commands[d].copy \in Copies
              /\ held[commands[d].chat] = commands[d].copy
            BY <1>0, <2>1, <3>1 DEF HandleIsHeld, Typed, WellPlaced, Handles, LookedUp
        <3>3. None \notin Copies
            BY FS_CardinalityType, ChatsAssumption DEF None, Copies
        <3>4. h[commands[d].chat] = commands[d].copy
            BY <3>2, <3>3
        <3> QED BY <1>2, <3>1, <3>2, <3>4 DEF InUse
    <2>3. ASSUME NEW d \in Commands, commands'[d].at \in AtFiles
          PROVE  /\ held'[commands'[d].aim] = None
                 /\ \A e \in Commands : commands'[e].at \in AtFiles => e = d
                 /\ commands'[d].at \in {"loaded", "titleLoaded"} =>
                      seen'[commands'[d].aim][commands'[d].copy] = length'[commands'[d].aim]
        <3>1. commands'[d] = commands[d]
            BY <1>1, <2>3 DEF AtFiles
        <3>2. commands[d].aim \in Ids /\ held[commands[d].aim] = None
            BY <1>0, <2>1, <2>3, <3>1 DEF FilesAlone, Typed, WellPlaced, AtFiles, Aiming, Handles, LookedUp
        <3>3. held'[commands'[d].aim] = None
            BY <1>2, <2>3, <3>1, <3>2
        <3>4. \A e \in Commands : commands'[e].at \in AtFiles => e = d
            BY <1>1, <2>1, <2>3, <3>1 DEF FilesAlone, AtFiles
        <3>5. ASSUME commands'[d].at \in {"loaded", "titleLoaded"}
              PROVE  seen'[commands'[d].aim][commands'[d].copy] = length'[commands'[d].aim]
            <4>1. commands[d].copy \in Copies /\ commands[d].chat = commands[d].aim
                BY <1>0, <3>1, <3>5 DEF Typed, WellPlaced, Handles, LookedUp
            <4>2. InUse(commands', commands[d].aim, commands[d].copy)
                BY <3>1, <4>1 DEF InUse
            <4> QED BY <2>1, <2>3, <3>1, <3>2, <3>5, <4>1, <4>2 DEF SeenIs, FilesAlone
        <3> QED BY <3>3, <3>4, <3>5
    <2>4. NoneForgets'
        BY <1>1, <2>1 DEF NoneForgets
    <2>5. HeldCopyIsTheLog'
        <3> SUFFICES ASSUME NEW j \in Ids, held'[j] # None, mode[j] = "normal"
                     PROVE  seen'[j][held'[j]] = length[j]
            BY DEF HeldCopyIsTheLog
        <3>1. held'[j] = h[j] /\ held'[j] \in Copies
            BY <1>2 DEF Typed
        <3>2. seen'[j][held'[j]] = seen[j][h[j]]
            BY <3>1 DEF SeenIs
        <3>3. CASE h[j] = held[j]
            BY <2>1, <3>1, <3>2, <3>3 DEF HeldCopyIsTheLog
        <3>4. CASE h[j] # held[j]
            BY <3>2, <3>4
        <3> QED BY <3>3, <3>4
    <2>6. FocusIsHeld'
        <3> SUFFICES ASSUME f # New PROVE held'[f] # None
            BY DEF FocusIsHeld
        <3>1. f \in Ids
            BY DEF Typed
        <3> QED BY <1>2, <3>1
    <2> QED BY <2>2, <2>3, <2>4, <2>5, <2>6 DEF FilesAlone
<1> QED BY <1>3, <1>4, <1>5, <1>6, <1>7 DEF Inv
LEMMA NoneIsNoCopy == None \notin Copies
BY FS_CardinalityType, ChatsAssumption DEF None, Copies

LEMMA FocusFoundKeeps ==
    ASSUME Inv, Typed', NEW c \in Commands, FocusFound(c)
    PROVE  Inv'
<1> DEFINE i == commands[c].aim
<1>0. Typed /\ i \in Ids /\ commands[c].chat = i /\ commands[c].copy \in Copies
    BY DEF Inv, Typed, WellPlaced, FocusFound, Handles, LookedUp
<1>1. Become(Done(c), Prune(held, i), i, New, seen) /\ UNCHANGED << mode, file, length >>
    BY DEF FocusFound, disk
<1>2. /\ held' = Prune(held, i) /\ focus' = i /\ made' = New /\ UNCHANGED his /\ commands' = Done(c)
    BY <1>1 DEF Become
<1>3. SeenIs(seen)
    BY <1>1, BecomeKeeps
<1>4. \A d \in Commands : commands'[d] = commands[d] \/ commands'[d] = Idle
    BY <1>0, <1>2, DoneIs DEF OnlyOf
<1>5. mode[i] # "unborn"
    BY <1>0 DEF Inv, Born
<1>6. Calm => held[i] # None
    BY <1>0, NoneIsNoCopy DEF Inv, OneWriter, HandleIsHeld, FocusFound
<1> HIDE DEF i
<1> QED BY <1>1, <1>2, <1>3, <1>4, <1>5, <1>6, OpenKeeps

LEMMA OpenLoadedKeeps ==
    ASSUME Inv, Typed', NEW c \in Commands, OpenLoaded(c)
    PROVE  Inv'
<1> DEFINE i == commands[c].aim
           h == IF held[i] # None THEN held ELSE [held EXCEPT ![i] = commands[c].copy]
<1>0. Typed /\ i \in Ids /\ commands[c].chat = i /\ commands[c].copy \in Copies
    BY DEF Inv, Typed, WellPlaced, OpenLoaded, Handles, LookedUp
<1>1. Become(Done(c), Prune(h, i), i, New, seen) /\ UNCHANGED << mode, file, length >>
    BY DEF OpenLoaded, disk
<1>2. /\ \A j \in Ids : h[j] # held[j] => held[j] = None /\ h[j] # None /\ j = i
      /\ h[i] # None /\ (h[i] # held[i] => h[i] = commands[c].copy)
    BY <1>0, NoneIsNoCopy DEF Typed
<1>3. OnlyOf(c) /\ commands'[c] = Idle
    BY <1>0, <1>1, DoneIs DEF Become
<1>4. mode[i] # "unborn"
    BY <1>0 DEF Inv, Born
<1>5. Calm => /\ seen[i][commands[c].copy] = length[i]
              /\ \A d \in Commands : commands'[d].at \notin AtFiles
    BY <1>3 DEF Inv, OneWriter, FilesAlone, OpenLoaded, AtFiles, OnlyOf, Idle
<1> HIDE DEF h, i
<1>6. /\ held' = Prune(h, i) /\ focus' = i /\ made' = New /\ UNCHANGED his
    BY <1>1 DEF Become
<1>7. SeenIs(seen)
    BY <1>1, BecomeKeeps
<1>8. \A d \in Commands : commands'[d] = commands[d] \/ commands'[d] = Idle
    BY <1>3 DEF OnlyOf
<1>9. Calm => /\ i \in Ids => h[i] # None
              /\ i \in Ids => (h[i] # held[i] =>
                    /\ seen[i][h[i]] = length[i]
                    /\ \A d \in Commands : commands'[d].at \notin AtFiles)
    BY <1>2, <1>5
<1> QED BY <1>1, <1>2, <1>4, <1>6, <1>7, <1>8, <1>9, OpenKeeps

LEMMA FocusNewKeeps ==
    ASSUME Inv, Typed', FocusNew
    PROVE  Inv'
<1>0. New \notin Ids
    BY ChatsAssumption
<1>1. Become(commands, Prune(held, New), New, New, seen) /\ UNCHANGED << mode, file, length >>
    BY DEF FocusNew, disk
<1>2. /\ held' = Prune(held, New) /\ focus' = New /\ made' = New /\ UNCHANGED << his, commands >>
    BY <1>1 DEF Become
<1>3. SeenIs(seen)
    BY <1>1, BecomeKeeps
<1> QED BY <1>0, <1>1, <1>2, <1>3, OpenKeeps

\* A chat is loaded; nobody else is at the files, or he does not say which of
\* two comes first.
LEMMA LoadLogKeeps ==
    ASSUME Inv, Typed', NEW c \in Commands, LoadLog(c)
    PROVE  Inv'
<1> DEFINE i == commands[c].aim
           k == Fresh(i)
<1>0. /\ Typed /\ i \in Ids /\ commands[c].copy = None /\ commands[c].chat = New /\ New \notin Ids
      /\ commands[c].at \in {"absent", "titleAbsent"}
    BY ChatsAssumption DEF Inv, Typed, WellPlaced, LoadLog, Aiming, Handles, InTurn, LookedUp
<1>1. k \in Copies /\ ~InUse(commands, i, k) /\ held[i] # k
    BY <1>0, FreshIs
<1>2. /\ commands' = Given(c, "loaded", i, k) \/ commands' = Given(c, "titleLoaded", i, k)
      /\ seen' = [seen EXCEPT ![i][k] = length[i]]
      /\ UNCHANGED << his, focus, held, made, mode, file, length >>
    BY DEF LoadLog, index, disk
<1>3. "loaded" \in Ats /\ "titleLoaded" \in Ats
    BY DEF Ats, Handles, LookedUp
<1> HIDE DEF i, k
<1>4. /\ OnlyOf(c) /\ commands'[c].aim = i /\ commands'[c].chat = i /\ commands'[c].copy = k
      /\ commands'[c].knew = commands[c].knew /\ commands'[c].at \in {"loaded", "titleLoaded"}
    <2>1. CASE commands' = Given(c, "loaded", i, k)
        BY <1>0, <1>1, <1>3, <2>1, GivenIs DEF i
    <2>2. CASE commands' = Given(c, "titleLoaded", i, k)
        BY <1>0, <1>1, <1>3, <2>2, GivenIs DEF i
    <2> QED BY <1>2, <2>1, <2>2
<1>5. \A j \in Ids, l \in Copies :
        seen'[j][l] = IF j = i /\ l = k THEN length[i] ELSE seen[j][l]
    BY <1>0, <1>1, <1>2 DEF Typed
<1>6. mode[i] # "unborn"
    BY <1>0 DEF Inv, Born, i
<1>7. Born'
    BY <1>2, <1>4, <1>6 DEF Inv, Born, OnlyOf
<1>8. TurnsApart' /\ NewMessageInNewChat' /\ MadeSince' /\ EphemeralStays'
    BY <1>2, <1>4 DEF Inv, TurnsApart, NewMessageInNewChat, MadeSince, EphemeralStays, OnlyOf
<1>9. OneWriter'
    <2> SUFFICES ASSUME Calm PROVE HandleIsHeld' /\ FilesAlone' /\ NoneForgets' /\ HeldCopyIsTheLog' /\ FocusIsHeld'
        BY <1>2, CalmStays DEF OneWriter
    <2>1. HandleIsHeld /\ FilesAlone /\ NoneForgets /\ HeldCopyIsTheLog /\ FocusIsHeld
        BY DEF Inv, OneWriter
    <2>2. HandleIsHeld' /\ NoneForgets' /\ FocusIsHeld'
        BY <1>2, <1>4, <2>1 DEF HandleIsHeld, NoneForgets, FocusIsHeld, OnlyOf, InTurn
    <2>3. held[i] = None /\ \A d \in Commands \ {c} : commands[d].at \notin AtFiles
        BY <1>0, <2>1 DEF FilesAlone, AtFiles, i
    <2>4. FilesAlone'
        BY <1>0, <1>1, <1>2, <1>4, <1>5, <2>3 DEF FilesAlone, OnlyOf
    <2>5. HeldCopyIsTheLog'
        BY <1>0, <1>2, <1>5, <2>1, <2>3 DEF HeldCopyIsTheLog, Typed
    <2> QED BY <2>2, <2>4, <2>5
<1> QED BY <1>7, <1>8, <1>9 DEF Inv

LEMMA ForgetKeeps ==
    ASSUME Inv, Typed', NEW c \in Commands, NEW i \in Ids, Forget(c, i)
    PROVE  Inv'
<1> DEFINE x == [Idle EXCEPT !.at = "forgot", !.aim = i]
<1>0. /\ Typed /\ New \notin Ids /\ UNCHANGED << his, mode, file, length, made >> /\ ~Calm
      /\ held' = [held EXCEPT ![i] = None] /\ focus' = (IF focus = i /\ held[i] # None THEN New ELSE focus)
      /\ commands' = [commands EXCEPT ![c] = x] /\ file[i] = "logs"
    BY ChatsAssumption DEF Inv, Forget, May, Calm, Become, disk
<1>1. x \in Command /\ x.at = "forgot" /\ x.aim = i /\ x.chat = New /\ x.knew = {}
    BY DEF Idle, Command, Ats, Handles, InTurn, LookedUp, Aiming
<1> HIDE DEF x
<1>2. OnlyOf(c) /\ commands'[c] = x
    BY <1>0, <1>1, OneRecord
<1>3. mode[i] = "normal"
    BY <1>0 DEF Inv, Born
<1>4. Born'
    BY <1>0, <1>1, <1>2, <1>3 DEF Inv, Born, OnlyOf, Typed
<1>5. TurnsApart' /\ NewMessageInNewChat'
    BY <1>1, <1>2 DEF Inv, TurnsApart, NewMessageInNewChat, OnlyOf
<1>6. MadeSince'
    BY <1>0, <1>1, <1>2 DEF Inv, MadeSince, OnlyOf, Typed, Command
<1>7. EphemeralStays'
    BY <1>0, <1>3 DEF Inv, EphemeralStays, Typed
<1>8. OneWriter'
    BY <1>0, CalmStays DEF OneWriter
<1> QED BY <1>4, <1>5, <1>6, <1>7, <1>8 DEF Inv

----------------------------------------------------------------------------
(***************************************************************************)
(* The theorems                                                            *)
(***************************************************************************)

LEMMA StepHolds == Inv /\ [Next]_vars => Inv'
<1> SUFFICES ASSUME Inv, [Next]_vars PROVE Inv'
    OBVIOUS
<1>0. Typed'
    BY StepTypes DEF Inv
<1>1. ASSUME NEW c \in Commands, NEW i \in Ids \cup {New}, ReadTarget(c, i) PROVE Inv'
    BY <1>0, <1>1, ReadTargetKeeps
<1>2. ASSUME NEW c \in Commands, NEW i \in Ids, NEW m \in {"normal", "ephemeral"}, Start(c, i, m)
      PROVE Inv'
    BY <1>0, <1>2, StartKeeps
<1>3. ASSUME NEW c \in Commands,
             LockTurn(c) \/ TurnRecords(c) \/ EndTurn(c) \/ FocusFound(c) \/ LoadLog(c) \/ LoadFailed(c)
             \/ OpenLoaded(c) \/ TitleRecords(c) \/ TitleRefused(c) \/ MoveToTrash(c)
      PROVE  Inv'
    BY <1>0, <1>3, LockTurnKeeps, RecordsKeep, EndsKeep, FocusFoundKeeps, LoadLogKeeps, OpenLoadedKeeps
<1>4. ASSUME NEW c \in Commands, NEW i \in Ids, FindToOpen(c, i) \/ FindToTitle(c, i) \/ Forget(c, i)
      PROVE  Inv'
    BY <1>0, <1>4, FindKeeps, ForgetKeeps
<1>5. CASE FocusNew
    BY <1>0, <1>5, FocusNewKeeps
<1>6. ASSUME NEW i \in Ids, RestoreFromTrash(i) PROVE Inv'
    BY <1>6, RestoreKeeps
<1>7. CASE UNCHANGED vars
    BY <1>7, StutterKeeps
<1> QED BY <1>1, <1>2, <1>3, <1>4, <1>5, <1>6, <1>7 DEF Next

\* The inductive invariant, and what it says.
THEOREM InvHolds == Spec => []Inv
<1>1. Init => Inv
    BY InitHolds
<1>2. Inv /\ [Next]_vars => Inv'
    BY StepHolds
<1> QED BY <1>1, <1>2, PTL DEF Spec

LEMMA TypesFollow == Inv => TypeOK
BY DEF Inv, Typed, Born, TurnsApart, TypeOK

\* Every variable holds what it should, one turn has a copy at a time, and a
\* chat nobody made is neither held nor open.
THEOREM TypesHold == Spec => []TypeOK
BY InvHolds, TypesFollow, PTL

LEMMA NewChatFollows == Inv => NewMessageInNewChat
BY DEF Inv

\* A message typed at New chat lands in a chat made after it was typed, in
\* whatever order messages, opens and deletes come (Chats::lock_or_start_at).
THEOREM NewChatIsNew == Spec => []NewMessageInNewChat
BY InvHolds, NewChatFollows, PTL

LEMMA HeldFollows == Inv => HeldWhileNeeded
<1> SUFFICES ASSUME Inv PROVE HeldWhileNeeded
    OBVIOUS
<1>1. EphemeralStays
    BY DEF Inv
<1>2. ASSUME Calm PROVE HeldCopyIsTheLog /\ RunningChatIsHeld /\ FocusIsHeld
    BY <1>2 DEF Inv, OneWriter, HandleIsHeld, RunningChatIsHeld, InTurn
<1> QED BY <1>1, <1>2 DEF HeldWhileNeeded, Calm

\* An ephemeral chat is never let go of; and where no chat is deleted and one
\* command at a time is at the log files, the copy held of a chat is its log,
\* a turn records into the copy that is held, and the open chat is held.
THEOREM HeldForAll == Spec => []HeldWhileNeeded
BY InvHolds, HeldFollows, PTL

LEMMA FocusStep ==
    ASSUME [Next]_vars, focus # New, focus' \notin {New, focus}
    PROVE  \E c \in Commands : commands[c].at \in {"found", "loaded"} /\ commands[c].aim = focus'
<1>1. ASSUME NEW c \in Commands, FocusFound(c) \/ OpenLoaded(c)
      PROVE  commands[c].at \in {"found", "loaded"} /\ commands[c].aim = focus'
    BY <1>1 DEF FocusFound, OpenLoaded, Become
<1>2. ASSUME NEW c \in Commands, NEW i \in Ids, NEW m \in {"normal", "ephemeral"}, Start(c, i, m)
      PROVE  FALSE
    BY <1>2 DEF Start, Joined, StartedBy, Become
<1>3. ASSUME NEW c \in Commands,
             LockTurn(c) \/ TurnRecords(c) \/ EndTurn(c) \/ LoadLog(c) \/ LoadFailed(c)
             \/ TitleRecords(c) \/ TitleRefused(c) \/ MoveToTrash(c)
      PROVE  FALSE
    BY <1>3 DEF LockTurn, TurnRecords, EndTurn, LoadLog, LoadFailed, TitleRecords, TitleRefused,
                MoveToTrash, Become, index
<1>4. ASSUME NEW c \in Commands, NEW i \in Ids \cup {New},
             ReadTarget(c, i) \/ FindToOpen(c, i) \/ FindToTitle(c, i)
      PROVE  FALSE
    BY <1>4 DEF ReadTarget, FindToOpen, FindToTitle, index
<1>5. ASSUME NEW c \in Commands, NEW i \in Ids, Forget(c, i) PROVE FALSE
    BY <1>5 DEF Forget, Become
<1>6. CASE FocusNew
    BY <1>6 DEF FocusNew, Become
<1>7. ASSUME NEW i \in Ids, RestoreFromTrash(i) PROVE FALSE
    BY <1>7 DEF RestoreFromTrash, index
<1>8. CASE UNCHANGED vars
    BY <1>8 DEF vars
<1> QED BY <1>1, <1>2, <1>3, <1>4, <1>5, <1>6, <1>7, <1>8 DEF Next

\* No turn that starts elsewhere, and no chat made for a message, takes the
\* screen from the chat that is open: only his opening another does.
THEOREM OpeningMovesTheFocus == Spec => OnlyOpeningMovesTheFocus
<1>1. [Next]_vars => [OpenedAsHeAsked]_vars
    BY FocusStep DEF OpenedAsHeAsked
<1> QED BY <1>1, PTL DEF Spec, OnlyOpeningMovesTheFocus

-----------------------------------------------------------------------------
(***************************************************************************)
(* Turn: what is true of the calls of a round, and of the flag with which  *)
(* a tool asks for a compaction.                                           *)
(***************************************************************************)

TurnSteps == {"round", "opening", "streaming", "deciding", "running", "recording", "settling"}

\* The flag is of this turn, and taken at its end.
FlagInv ==
    /\ turns \in Nat /\ plan \in DOMAIN Plans
    /\ signal \in {0, turns}
    /\ pc \notin TurnSteps => signal = 0

CallsShape ==
    /\ calls \in Seq({calls[n] : n \in DOMAIN calls})
    /\ \A n \in DOMAIN calls :
           calls[n] = [id |-> calls[n].id, tool |-> calls[n].tool, at |-> calls[n].at]

\* How far the calls are at each step of the round.
CallsSoFar ==
    /\ \A n \in DOMAIN calls :
           /\ pc = "deciding" => calls[n].at \in {"asked", "allowed", "refused"}
           /\ pc = "running" => calls[n].at \in {"allowed", "refused", "running", "done"}
           /\ pc = "recording" => calls[n].at \in {"refused", "done"}
    /\ pc \notin {"deciding", "running", "recording"} => calls = << >>

\* Calls start in call order.
StartedInOrder ==
    \A n, m \in DOMAIN calls :
        calls[n].at \in {"running", "done"} /\ calls[m].at = "allowed" => n < m

CallsInv == CallsShape /\ CallsSoFar /\ StartedInOrder /\ WritesRunAlone

LEMMA ValuesOfSeq ==
    ASSUME NEW f, NEW k \in Nat, f = [i \in 1..k |-> f[i]]
    PROVE  f \in Seq({f[n] : n \in DOMAIN f})
<1> DEFINE S == {f[n] : n \in DOMAIN f}
<1>1. DOMAIN f = 1..k
    OBVIOUS
<1>2. \A i \in 1..k : f[i] \in S
    BY <1>1
<1> HIDE DEF S
<1>3. f \in [1..k -> S]
    BY <1>2
<1>4. f \in Seq(S)
    BY <1>3
<1> QED BY <1>4 DEF S

LEMMA CallsAreSeq ==
    ASSUME CallsShape
    PROVE  Len(calls) \in Nat /\ DOMAIN calls = 1..Len(calls)
           /\ calls = [n \in 1..Len(calls) |-> calls[n]]
<1> DEFINE S == {calls[n] : n \in DOMAIN calls}
<1>1. calls \in Seq(S)
    BY DEF CallsShape
<1> HIDE DEF S
<1> QED BY <1>1

LEMMA NoCalls ==
    ASSUME calls' = << >>, pc' \notin {"deciding", "running", "recording"}
    PROVE  CallsInv'
<1>1. DOMAIN calls' = {} /\ calls' = [i \in 1..0 |-> calls'[i]]
    OBVIOUS
<1>2. CallsShape'
    BY <1>1, ValuesOfSeq DEF CallsShape
<1> QED BY <1>1, <1>2 DEF CallsInv, CallsSoFar, StartedInOrder, WritesRunAlone, At

LEMMA SameCalls ==
    ASSUME CallsInv, UNCHANGED << calls, pc >>
    PROVE  CallsInv'
BY DEF CallsInv, CallsShape, CallsSoFar, StartedInOrder, WritesRunAlone, At

\* Of a round in which nothing runs only the types and the states are asked.
LEMMA NothingRuns ==
    ASSUME CallsShape', CallsSoFar', pc' \in {"deciding", "recording"}
    PROVE  CallsInv'
<1>1. \A n \in DOMAIN calls' : calls'[n].at \in {"asked", "allowed", "refused", "done"}
                             /\ (pc' = "deciding" => calls'[n].at # "done")
                             /\ (pc' = "recording" => calls'[n].at # "allowed")
    BY DEF CallsSoFar
<1>2. StartedInOrder' /\ WritesRunAlone'
    BY <1>1 DEF StartedInOrder, WritesRunAlone, At
<1> QED BY <1>2 DEF CallsInv

-----------------------------------------------------------------------------
(***************************************************************************)
(* Sift, place by place: what it takes from a sequence that grows, and     *)
(* from one of whose places one more is kept.                              *)
(***************************************************************************)

\* A set that holds 0 and the successor of each of its numbers holds them all.
LEMMA NatInd ==
    ASSUME NEW S, 0 \in S, \A n \in Nat : n \in S => n + 1 \in S
    PROVE  Nat \subseteq S
<1>1. SUFFICES ASSUME NEW m \in Nat, m \notin S PROVE FALSE
    OBVIOUS
<1> DEFINE T == {n \in Nat : n \notin S}
<1>2. IsWellFoundedOn(OpToRel(<, Nat), Nat)
    BY NatLessThanWellFounded
<1>3. T \subseteq Nat /\ T # {}
    BY <1>1
<1>4. PICK x \in T : \A y \in T : ~(<< y, x >> \in OpToRel(<, Nat))
    <2> HIDE DEF T
    <2> QED BY <1>2, <1>3, WFMin
<1>5. \A y \in T : ~(y < x)
    BY <1>3, <1>4 DEF OpToRel
<1>6. x # 0 /\ x - 1 \in Nat /\ x - 1 < x
    OBVIOUS
<1>7. x - 1 \in S
    BY <1>5, <1>6
<1> QED BY <1>6, <1>7

\* The same, up to a bound.
LEMMA UpTo ==
    ASSUME NEW N \in Nat, NEW S, 0 \in S,
           \A n \in 0..(N - 1) : n \in S => n + 1 \in S
    PROVE  0..N \subseteq S
<1> DEFINE T == {n \in Nat : n <= N => n \in S}
<1>1. 0 \in T
    OBVIOUS
<1>2. ASSUME NEW n \in Nat, n \in T
      PROVE  n + 1 \in T
    BY <1>2
<1>3. Nat \subseteq T
    <2> HIDE DEF T
    <2> QED BY <1>1, <1>2, NatInd
<1> QED BY <1>3

\* Sift, place by place.
LEMMA SiftSteps ==
    ASSUME NEW S, NEW s \in Seq(S), NEW keep
    PROVE  \E f : /\ DOMAIN f = 0..Len(s)
                  /\ f[0] = << >>
                  /\ \A n \in 1..Len(s) :
                        f[n] = IF n \in keep THEN Append(f[n - 1], s[n]) ELSE f[n - 1]
                  /\ Sift(s, keep) = f[Len(s)]
<1> DEFINE Val(f, n) == IF n = 0 THEN << >>
                        ELSE IF n \in keep THEN Append(f[n - 1], s[n]) ELSE f[n - 1]
           Ok(f, m) == f = [n \in 0..m |-> Val(f, n)]
           G == {m \in 0..Len(s) : \E f : Ok(f, m)}
           sifted == CHOOSE f : Ok(f, Len(s))
<1>0. Len(s) \in Nat
    OBVIOUS
<1>1. 0 \in G
    <2>1. Ok([n \in 0..0 |-> << >>], 0)
        OBVIOUS
    <2> HIDE DEF Ok
    <2> QED BY <1>0, <2>1
<1>2. ASSUME NEW m \in 0..(Len(s) - 1), m \in G
      PROVE  m + 1 \in G
    <2>1. PICK f : Ok(f, m)
        BY <1>2
    <2> DEFINE g == [n \in 0..(m + 1) |-> IF n = m + 1 THEN Val(f, n) ELSE f[n]]
    <2>2. \A n \in 0..(m + 1) : g[n] = Val(g, n)
        <3>1. \A n \in 0..m : f[n] = Val(f, n)
            BY <2>1
        <3>2. \A n \in 0..m : n \in 0..(m + 1) /\ n # m + 1
            BY <1>0
        <3>3. \A n \in 0..m : g[n] = f[n]
            BY <3>2
        <3>4. \A n \in 1..(m + 1) : n - 1 \in 0..m
            BY <1>0
        <3>5. \A n \in 0..(m + 1) : Val(g, n) = Val(f, n)
            BY <1>0, <3>3, <3>4
        <3> QED BY <1>0, <3>1, <3>3, <3>5
    <2>3. Ok(g, m + 1)
        <3> HIDE DEF Val
        <3>1. g = [n \in 0..(m + 1) |-> g[n]]
            OBVIOUS
        <3> HIDE DEF g
        <3> QED BY <2>2, <3>1
    <2> HIDE DEF Ok, g
    <2> QED BY <1>0, <2>3
<1>3. Len(s) \in G
    <2> HIDE DEF G
    <2>1. 0..Len(s) \subseteq G
        BY <1>0, <1>1, <1>2, UpTo
    <2> QED BY <1>0, <2>1
<1>4. Ok(sifted, Len(s))
    <2> HIDE DEF Ok
    <2> QED BY <1>3
<1>5. Sift(s, keep) = sifted[Len(s)]
    BY DEF Sift
<1> HIDE DEF sifted
<1>6. DOMAIN sifted = 0..Len(s) /\ \A n \in 0..Len(s) : sifted[n] = Val(sifted, n)
    BY <1>4
<1>7. sifted[0] = << >>
    BY <1>0, <1>6
<1>8. \A n \in 1..Len(s) :
        sifted[n] = IF n \in keep THEN Append(sifted[n - 1], s[n]) ELSE sifted[n - 1]
    <2>1. \A n \in 1..Len(s) : n \in 0..Len(s) /\ n # 0
        BY <1>0
    <2>2. \A n \in 1..Len(s) : sifted[n] = Val(sifted, n)
        BY <1>6, <2>1
    <2> QED BY <2>1, <2>2
<1> QED BY <1>5, <1>6, <1>7, <1>8

\* What is sifted: the elements at the kept places, each once and in order.
LEMMA SiftIs ==
    ASSUME NEW S, NEW s \in Seq(S), NEW keep
    PROVE  /\ Sift(s, keep) \in Seq(S)
           /\ \E p \in [1..Len(Sift(s, keep)) -> keep \cap DOMAIN s] :
                /\ \A k \in 1..Len(Sift(s, keep)) : Sift(s, keep)[k] = s[p[k]]
                /\ \A j, k \in 1..Len(Sift(s, keep)) : j < k => p[j] < p[k]
                /\ \A n \in keep \cap DOMAIN s : \E k \in 1..Len(Sift(s, keep)) : p[k] = n
<1> DEFINE Places(n) == keep \cap (1..n)
           Picks(t, P, p) ==
               /\ p \in [1..Len(t) -> P]
               /\ \A k \in 1..Len(t) : t[k] = s[p[k]]
               /\ \A j, k \in 1..Len(t) : j < k => p[j] < p[k]
               /\ \A m \in P : \E k \in 1..Len(t) : p[k] = m
           Picked(t, P) == t \in Seq(S) /\ \E p : Picks(t, P, p)
<1>0. Len(s) \in Nat /\ DOMAIN s = 1..Len(s)
    OBVIOUS
<1>1. PICK f : /\ DOMAIN f = 0..Len(s)
               /\ f[0] = << >>
               /\ \A n \in 1..Len(s) :
                     f[n] = IF n \in keep THEN Append(f[n - 1], s[n]) ELSE f[n - 1]
               /\ Sift(s, keep) = f[Len(s)]
    BY SiftSteps
<1> DEFINE G == {n \in 0..Len(s) : Picked(f[n], Places(n))}
<1>2. 0 \in G
    <2>1. Places(0) = {}
        OBVIOUS
    <2>2. f[0] \in Seq(S) /\ Len(f[0]) = 0
        BY <1>1
    <2>3. [k \in {} |-> 0] \in [1..Len(f[0]) -> Places(0)]
        BY <2>2
    <2> HIDE DEF Places
    <2>4. Picked(f[0], Places(0))
        BY <2>1, <2>2, <2>3
    <2> HIDE DEF Picked
    <2> QED BY <1>0, <2>4
<1>3. ASSUME NEW n \in 0..(Len(s) - 1), n \in G
      PROVE  n + 1 \in G
    <2>0. n \in Nat /\ n + 1 \in 1..Len(s) /\ (n + 1) - 1 = n
        BY <1>0
    <2>1. Picked(f[n], Places(n))
        BY <1>3
    <2>2. CASE n + 1 \notin keep
        <3>1. f[n + 1] = f[n]
            BY <1>1, <2>0, <2>2
        <3>2. Places(n + 1) = Places(n)
            BY <2>0, <2>2
        <3> HIDE DEF Places
        <3>3. Picked(f[n + 1], Places(n + 1))
            BY <2>1, <3>1, <3>2
        <3> HIDE DEF Picked
        <3> QED BY <2>0, <3>3
    <2>3. CASE n + 1 \in keep
        <3>1. f[n + 1] = Append(f[n], s[n + 1])
            BY <1>1, <2>0, <2>3
        <3>2. Places(n + 1) = Places(n) \cup {n + 1}
            BY <2>0, <2>3
        <3>3. \A m \in Places(n) : m \in Nat /\ m < n + 1
            BY <2>0
        <3> HIDE DEF Places
        <3>4. f[n] \in Seq(S) /\ Len(f[n]) \in Nat /\ s[n + 1] \in S
            BY <1>0, <2>0, <2>1
        <3> DEFINE L == Len(f[n])
                   t == f[n + 1]
        <3>15. PICK p : Picks(f[n], Places(n), p)
            BY <2>1
        <3>5. /\ p \in [1..L -> Places(n)]
              /\ \A k \in 1..L : f[n][k] = s[p[k]]
              /\ \A j, k \in 1..L : j < k => p[j] < p[k]
              /\ \A m \in Places(n) : \E k \in 1..L : p[k] = m
            BY <3>15
        <3> DEFINE q == [k \in 1..(L + 1) |-> IF k = L + 1 THEN n + 1 ELSE p[k]]
        <3>6. /\ t \in Seq(S) /\ Len(t) = L + 1
              /\ t[L + 1] = s[n + 1] /\ \A k \in 1..L : t[k] = f[n][k]
            BY <3>1, <3>4
        <3>7. \A k \in 1..L : k \in 1..(L + 1) /\ k # L + 1 /\ q[k] = p[k]
            BY <3>4
        <3>8. q[L + 1] = n + 1 /\ L + 1 \in 1..(L + 1)
            BY <3>4
        <3>9. \A k \in 1..(L + 1) : k \in 1..L \/ k = L + 1
            BY <3>4
        <3>10. q \in [1..(L + 1) -> Places(n + 1)]
            BY <3>2, <3>5, <3>9
        <3> HIDE DEF q, t, L
        <3>11. \A k \in 1..(L + 1) : t[k] = s[q[k]]
            BY <3>5, <3>6, <3>7, <3>8, <3>9 DEF L
        <3>12. \A j, k \in 1..(L + 1) : j < k => q[j] < q[k]
            <4> SUFFICES ASSUME NEW j \in 1..(L + 1), NEW k \in 1..(L + 1), j < k
                         PROVE  q[j] < q[k]
                OBVIOUS
            <4>1. j \in 1..L /\ p[j] \in Places(n)
                <5>1. j \in 1..L
                    BY <3>4 DEF L
                <5> QED BY <3>5, <5>1
            <4>2. CASE k \in 1..L
                BY <3>5, <3>7, <4>1, <4>2 DEF L
            <4>3. CASE k = L + 1
                BY <3>3, <3>7, <3>8, <4>1, <4>3
            <4> QED BY <3>9, <4>2, <4>3
        <3>13. \A m \in Places(n + 1) : \E k \in 1..(L + 1) : q[k] = m
            <4> SUFFICES ASSUME NEW m \in Places(n + 1)
                         PROVE  \E k \in 1..(L + 1) : q[k] = m
                OBVIOUS
            <4>1. CASE m = n + 1
                BY <3>8, <4>1
            <4>2. CASE m \in Places(n)
                <5>1. PICK k \in 1..L : p[k] = m
                    BY <3>5, <4>2 DEF L
                <5> QED BY <3>7, <5>1
            <4> QED BY <3>2, <4>1, <4>2
        <3>14. Picked(t, Places(n + 1))
            <4>1. t \in Seq(S) /\ Len(t) = L + 1
                BY <3>6
            <4>2. Picks(t, Places(n + 1), q)
                BY <3>10, <3>11, <3>12, <3>13, <4>1
            <4> HIDE DEF Picks
            <4> QED BY <4>1, <4>2
        <3> HIDE DEF Picked
        <3> QED BY <2>0, <3>14 DEF t
    <2> QED BY <2>2, <2>3
<1>4. Picked(f[Len(s)], Places(Len(s)))
    <2> HIDE DEF G
    <2>1. 0..Len(s) \subseteq G
        BY <1>0, <1>2, <1>3, UpTo
    <2>2. Len(s) \in G
        BY <1>0, <2>1
    <2> USE DEF G
    <2> HIDE DEF Picked
    <2> QED BY <2>2
<1>5. Places(Len(s)) = keep \cap DOMAIN s
    BY <1>0
<1>6. Picked(Sift(s, keep), keep \cap DOMAIN s)
    <2> HIDE DEF Places, Picked
    <2> QED BY <1>1, <1>4, <1>5
<1> QED BY <1>6, Zenon

\* f is what has been kept up to each place.
SiftsBy(s, keep, f) ==
    /\ f[0] = << >>
    /\ \A n \in 1..Len(s) : f[n] = IF n \in keep THEN Append(f[n - 1], s[n]) ELSE f[n - 1]
    /\ Sift(s, keep) = f[Len(s)]

LEMMA Sifting ==
    ASSUME NEW S, NEW s \in Seq(S), NEW keep
    PROVE  \E f : SiftsBy(s, keep, f)
BY SiftSteps DEF SiftsBy

\* What is at no place of the sequence does not matter.
LEMMA SiftAlike ==
    ASSUME NEW S, NEW s \in Seq(S), NEW keep, NEW other,
           \A n \in DOMAIN s : n \in keep <=> n \in other
    PROVE  Sift(s, keep) = Sift(s, other)
<1>0. Len(s) \in Nat /\ DOMAIN s = 1..Len(s)
    OBVIOUS
<1>1. PICK f : SiftsBy(s, keep, f)
    BY Sifting
<1>2. PICK g : SiftsBy(s, other, g)
    BY Sifting
<1> DEFINE G == {n \in 0..Len(s) : f[n] = g[n]}
<1>3. 0 \in G
    BY <1>0, <1>1, <1>2 DEF SiftsBy
<1>4. ASSUME NEW n \in 0..(Len(s) - 1), n \in G
      PROVE  n + 1 \in G
    <2>1. n + 1 \in 1..Len(s) /\ (n + 1) - 1 = n /\ n + 1 \in 0..Len(s)
        BY <1>0
    <2>2. f[n] = g[n] /\ (n + 1 \in keep <=> n + 1 \in other)
        BY <1>0, <1>4, <2>1
    <2>3. f[n + 1] = g[n + 1]
        BY <1>1, <1>2, <2>1, <2>2 DEF SiftsBy
    <2> QED BY <2>1, <2>3
<1>5. Len(s) \in G
    <2> HIDE DEF G
    <2>1. 0..Len(s) \subseteq G
        BY <1>0, <1>3, <1>4, UpTo
    <2> QED BY <1>0, <2>1
<1> QED BY <1>1, <1>2, <1>5 DEF SiftsBy

\* One more element comes last or not at all.
LEMMA SiftAppend ==
    ASSUME NEW S, NEW s \in Seq(S), NEW e \in S, NEW keep
    PROVE  Sift(Append(s, e), keep) =
               IF Len(s) + 1 \in keep THEN Append(Sift(s, keep), e) ELSE Sift(s, keep)
<1> DEFINE t == Append(s, e)
           L == Len(s)
<1>0. /\ L \in Nat /\ t \in Seq(S) /\ Len(t) = L + 1 /\ t[L + 1] = e
      /\ \A n \in 1..L : t[n] = s[n]
    OBVIOUS
<1> HIDE DEF t
<1>1. PICK f : SiftsBy(s, keep, f)
    BY Sifting
<1>2. PICK g : SiftsBy(t, keep, g)
    BY <1>0, Sifting
<1> DEFINE G == {n \in 0..L : f[n] = g[n]}
<1>3. 0 \in G
    BY <1>0, <1>1, <1>2 DEF SiftsBy
<1>4. ASSUME NEW n \in 0..(L - 1), n \in G
      PROVE  n + 1 \in G
    <2>1. n + 1 \in 1..L /\ (n + 1) - 1 = n /\ n + 1 \in 0..L /\ n + 1 \in 1..Len(t)
        BY <1>0
    <2>2. f[n] = g[n] /\ t[n + 1] = s[n + 1]
        BY <1>0, <1>4, <2>1
    <2>3. f[n + 1] = g[n + 1]
        BY <1>1, <1>2, <2>1, <2>2 DEF SiftsBy
    <2> QED BY <2>1, <2>3
<1>5. L \in G
    <2> HIDE DEF G, L
    <2>1. 0..L \subseteq G
        BY <1>0, <1>3, <1>4, UpTo
    <2> QED BY <1>0, <2>1
<1>6. L + 1 \in 1..Len(t) /\ (L + 1) - 1 = L
    BY <1>0
<1>7. g[L + 1] = IF L + 1 \in keep THEN Append(g[L], e) ELSE g[L]
    BY <1>0, <1>2, <1>6 DEF SiftsBy
<1>8. Sift(s, keep) = f[L] /\ Sift(t, keep) = g[L + 1] /\ f[L] = g[L]
    BY <1>0, <1>1, <1>2, <1>5 DEF SiftsBy
<1> QED BY <1>7, <1>8 DEF t

\* One more place, after all that are kept.
LEMMA SiftGrows ==
    ASSUME NEW S, NEW s \in Seq(S), NEW keep, NEW m \in DOMAIN s,
           \A n \in keep \cap DOMAIN s : n < m
    PROVE  Sift(s, keep \cup {m}) = Append(Sift(s, keep), s[m])
<1> DEFINE L == Len(s)
           more == keep \cup {m}
<1>0. L \in Nat /\ DOMAIN s = 1..L /\ m \in 1..L
    OBVIOUS
<1> HIDE DEF L, more
<1>1. PICK f : SiftsBy(s, keep, f)
    BY Sifting
<1>2. PICK g : SiftsBy(s, more, g)
    BY Sifting
<1>3. \A n \in 1..L : (n \in more <=> n \in keep \/ n = m) /\ (n \in keep => n < m)
    BY <1>0 DEF more
<1> DEFINE Grown(n) == /\ n < m => g[n] = f[n]
                       /\ ~(n < m) => g[n] = Append(f[n], s[m])
           G == {n \in 0..L : Grown(n)}
<1>4. 0 \in G
    BY <1>0, <1>1, <1>2 DEF SiftsBy
<1>5. ASSUME NEW n \in 0..(L - 1), n \in G
      PROVE  n + 1 \in G
    <2>1. n + 1 \in 1..L /\ (n + 1) - 1 = n /\ n + 1 \in 0..L /\ n \in Nat /\ m \in Nat
        BY <1>0
    <2>2. /\ f[n + 1] = IF n + 1 \in keep THEN Append(f[n], s[n + 1]) ELSE f[n]
          /\ g[n + 1] = IF n + 1 \in more THEN Append(g[n], s[n + 1]) ELSE g[n]
        BY <1>1, <1>2, <2>1 DEF SiftsBy, L
    <2>3. CASE n + 1 < m
        <3>1. n < m /\ g[n] = f[n] /\ (n + 1 \in more <=> n + 1 \in keep)
            BY <1>3, <1>5, <2>1, <2>3
        <3>2. g[n + 1] = f[n + 1]
            BY <2>2, <3>1
        <3> QED BY <2>1, <2>3, <3>2
    <2>4. CASE n + 1 = m
        <3>1. n < m /\ g[n] = f[n] /\ n + 1 \in more /\ n + 1 \notin keep
            BY <1>3, <1>5, <2>1, <2>4
        <3>2. g[n + 1] = Append(f[n + 1], s[m])
            BY <2>2, <2>4, <3>1
        <3> QED BY <2>1, <2>4, <3>2
    <2>5. CASE m < n + 1
        <3>1. ~(n < m) /\ n + 1 \notin more /\ n + 1 \notin keep
            BY <1>3, <2>1, <2>5
        <3>2. g[n] = Append(f[n], s[m])
            BY <1>5, <3>1
        <3>3. g[n + 1] = Append(f[n + 1], s[m])
            BY <2>2, <3>1, <3>2
        <3> QED BY <2>1, <2>5, <3>3
    <2> QED BY <2>1, <2>3, <2>4, <2>5
<1>6. L \in G
    <2> HIDE DEF G
    <2>1. 0..L \subseteq G
        BY <1>0, <1>4, <1>5, UpTo
    <2> QED BY <1>0, <2>1
<1>7. g[L] = Append(f[L], s[m])
    <2>1. ~(L < m)
        BY <1>0
    <2> QED BY <1>6, <2>1
<1> QED BY <1>1, <1>2, <1>7 DEF SiftsBy, more, L

\* Where what is sifted comes from.
Picks(s, keep, p) ==
    /\ p \in [1..Len(Sift(s, keep)) -> keep \cap DOMAIN s]
    /\ \A k \in 1..Len(Sift(s, keep)) : Sift(s, keep)[k] = s[p[k]]
    /\ \A j, k \in 1..Len(Sift(s, keep)) : j < k => p[j] < p[k]
    /\ \A n \in keep \cap DOMAIN s : \E k \in 1..Len(Sift(s, keep)) : p[k] = n

LEMMA Picking ==
    ASSUME NEW S, NEW s \in Seq(S), NEW keep
    PROVE  Sift(s, keep) \in Seq(S) /\ \E p : Picks(s, keep, p)
BY SiftIs DEF Picks

\* The calls of a reply: its own, in its order, each to be asked about.
CallsInOrder(cs, asks) ==
    /\ \A k \in DOMAIN cs : cs[k].id[2] \in asks /\ cs[k].id = CallId(cs[k].id[2])
    /\ \A j, k \in DOMAIN cs : j < k => cs[j].id[2] < cs[k].id[2]
    /\ \A n \in asks : \E k \in DOMAIN cs : cs[k].id = CallId(n)

LEMMA CallsOfReply ==
    ASSUME NEW S, NEW shape \in Seq(S)
    PROVE  LET cs == CallsOf(shape)
           IN  /\ cs \in Seq({cs[n] : n \in DOMAIN cs})
               /\ \A n \in DOMAIN cs :
                      /\ cs[n] = [id |-> cs[n].id, tool |-> cs[n].tool, at |-> cs[n].at]
                      /\ cs[n].at = "asked"
               /\ (\A n \in DOMAIN shape : ~IsCallOf(shape[n])) => cs = << >>
               /\ CallsInOrder(cs, {n \in DOMAIN shape : IsCallOf(shape[n])})
<1> DEFINE all == [n \in DOMAIN shape |-> [id |-> CallId(n), tool |-> shape[n], at |-> "asked"]]
           asks == {n \in DOMAIN shape : IsCallOf(shape[n])}
           L == Len(shape)
           V == {all[n] : n \in DOMAIN all}
           cs == Sift(all, asks)
<1>1. L \in Nat /\ DOMAIN shape = 1..L /\ asks \subseteq 1..L
    OBVIOUS
<1>2. CallsOf(shape) = cs
    BY DEF CallsOf
<1>3. /\ all = [n \in 1..L |-> all[n]] /\ DOMAIN all = 1..L
      /\ \A n \in 1..L : /\ all[n] = [id |-> all[n].id, tool |-> all[n].tool, at |-> all[n].at]
                         /\ all[n].at = "asked" /\ all[n].id = CallId(n)
    BY <1>1
<1>4. all \in Seq(V)
    <2> HIDE DEF all
    <2> QED BY <1>1, <1>3, ValuesOfSeq
<1>5. (\A n \in DOMAIN shape : ~IsCallOf(shape[n])) => asks = {}
    OBVIOUS
<1> HIDE DEF V, all, asks
<1>6. cs \in Seq(V) /\ \E p : Picks(all, asks, p)
    BY <1>4, Picking
<1>7. PICK p : Picks(all, asks, p)
    BY <1>6
<1>8. /\ p \in [1..Len(cs) -> asks]
      /\ \A k \in 1..Len(cs) : cs[k] = all[p[k]]
      /\ \A j, k \in 1..Len(cs) : j < k => p[j] < p[k]
      /\ \A n \in asks : \E k \in 1..Len(cs) : p[k] = n
    <2>1. asks \cap DOMAIN all = asks
        BY <1>1, <1>3
    <2> QED BY <1>7, <2>1 DEF Picks
<1> HIDE DEF cs
<1>9. Len(cs) \in Nat /\ DOMAIN cs = 1..Len(cs) /\ cs = [n \in 1..Len(cs) |-> cs[n]]
    BY <1>6
<1>10. ASSUME NEW k \in 1..Len(cs)
       PROVE  /\ cs[k] = [id |-> cs[k].id, tool |-> cs[k].tool, at |-> cs[k].at]
              /\ cs[k].at = "asked" /\ cs[k].id = CallId(p[k]) /\ cs[k].id[2] = p[k]
    <2>1. p[k] \in 1..L /\ cs[k] = all[p[k]]
        BY <1>1, <1>8
    <2>2. /\ cs[k] = [id |-> cs[k].id, tool |-> cs[k].tool, at |-> cs[k].at]
          /\ cs[k].at = "asked" /\ cs[k].id = CallId(p[k])
        BY <1>3, <2>1
    <2> QED BY <2>2 DEF CallId
<1>11. cs \in Seq({cs[n] : n \in DOMAIN cs})
    BY <1>9, ValuesOfSeq
<1>12. asks = {} => cs = << >>
    <2> SUFFICES ASSUME asks = {}, Len(cs) # 0 PROVE FALSE
        BY <1>9
    <2>1. 1 \in 1..Len(cs)
        BY <1>9
    <2> QED BY <1>8, <2>1
<1>13. CallsInOrder(cs, asks)
    BY <1>8, <1>9, <1>10 DEF CallsInOrder
<1>14. \A k \in DOMAIN cs : /\ cs[k] = [id |-> cs[k].id, tool |-> cs[k].tool, at |-> cs[k].at]
                            /\ cs[k].at = "asked"
    BY <1>9, <1>10
<1> QED BY <1>2, <1>5, <1>11, <1>12, <1>13, <1>14 DEF asks

LEMMA StreamEndsCalls ==
    ASSUME FlagInv, CallsInv, StreamEnded
    PROVE  CallsInv'
<1> DEFINE asks == \E n \in DOMAIN reply : IsCallOf(reply[n])
           says == \E n \in DOMAIN reply : reply[n] = "text"
           full == IF asks \/ says THEN reply ELSE Append(reply, "text")
<1>1. reply \in Seq(STRING)
    BY TurnAssumption DEF FlagInv, StreamEnded, Replies
<1> DEFINE Named == STRING \cup {"text"}
<1>2. full \in Seq(Named)
    <2>1. reply \in Seq(Named)
        BY <1>1
    <2>2. Append(reply, "text") \in Seq(Named)
        BY <2>1
    <2> QED BY <2>1, <2>2
<1>3. calls' = CallsOf(full)
    BY DEF StreamEnded
<1>4. pc' = IF asks THEN "deciding" ELSE "settling"
    BY DEF StreamEnded, Return
<1>5. ~asks => \A n \in DOMAIN full : ~IsCallOf(full[n])
    <2> SUFFICES ASSUME ~asks, NEW n \in DOMAIN full PROVE ~IsCallOf(full[n])
        OBVIOUS
    <2>1. (n \in DOMAIN reply /\ full[n] = reply[n]) \/ full[n] = "text"
        BY <1>1
    <2>2. ~IsCallOf("text")
        BY DEF IsCallOf
    <2> QED BY <2>1, <2>2
<1> HIDE DEF full, asks, Named
<1>6. CallsShape' /\ \A n \in DOMAIN calls' : calls'[n].at = "asked"
    BY <1>2, <1>3, CallsOfReply DEF CallsShape
<1>7. CASE asks
    <2>1. pc' = "deciding"
        BY <1>4, <1>7
    <2>2. CallsSoFar'
        BY <1>6, <2>1 DEF CallsSoFar
    <2> QED BY <1>6, <2>1, <2>2, NothingRuns
<1>8. CASE ~asks
    <2>1. calls' = << >> /\ pc' = "settling"
        BY <1>2, <1>3, <1>4, <1>5, <1>8, CallsOfReply
    <2> QED BY <2>1, NoCalls
<1> QED BY <1>7, <1>8

\* Where one call, or several, go on to another state.
LEMMA CallsGoOn ==
    ASSUME CallsShape, NEW S \in SUBSET DOMAIN calls, NEW v,
           calls' = [n \in DOMAIN calls |->
                        IF n \in S THEN [calls[n] EXCEPT !.at = v] ELSE calls[n]]
    PROVE  /\ CallsShape' /\ DOMAIN calls' = DOMAIN calls
           /\ \A n \in DOMAIN calls :
                  /\ calls'[n].tool = calls[n].tool
                  /\ calls'[n].at = IF n \in S THEN v ELSE calls[n].at
           /\ \A n \in DOMAIN calls : calls'[n].id = calls[n].id
<1>1. Len(calls) \in Nat /\ DOMAIN calls = 1..Len(calls)
    BY CallsAreSeq
<1>2. \A n \in DOMAIN calls :
          calls[n] = [id |-> calls[n].id, tool |-> calls[n].tool, at |-> calls[n].at]
    BY DEF CallsShape
<1>3. DOMAIN calls' = DOMAIN calls
    OBVIOUS
<1>4. ASSUME NEW n \in DOMAIN calls
      PROVE  calls'[n] = [id |-> calls[n].id, tool |-> calls[n].tool,
                          at |-> IF n \in S THEN v ELSE calls[n].at]
    <2>1. CASE n \in S
        BY <1>2, <2>1
    <2>2. CASE n \notin S
        BY <1>2, <2>2
    <2> QED BY <2>1, <2>2
<1>5. \A n \in DOMAIN calls' :
          calls'[n] = [id |-> calls'[n].id, tool |-> calls'[n].tool, at |-> calls'[n].at]
    BY <1>3, <1>4
<1>6. calls' = [i \in 1..Len(calls) |-> calls'[i]]
    BY <1>1
<1>7. calls' \in Seq({calls'[n] : n \in DOMAIN calls'})
    BY <1>1, <1>6, ValuesOfSeq
<1>8. CallsShape'
    BY <1>5, <1>7 DEF CallsShape
<1> QED BY <1>3, <1>4, <1>8

LEMMA DecideCalls ==
    ASSUME CallsInv, NEW answer \in {"allowed", "refused"}, Decide(answer)
    PROVE  CallsInv'
<1>1. PICK n \in DOMAIN calls :
        /\ calls' = [calls EXCEPT ![n].at = answer]
        /\ pc' = IF At("asked") = {n} THEN "running" ELSE pc
    BY DEF Decide
<1>2. pc = "deciding" /\ CallsShape
    BY DEF Decide, CallsInv
<1>3. calls' = [i \in DOMAIN calls |->
                    IF i \in {n} THEN [calls[i] EXCEPT !.at = answer] ELSE calls[i]]
    BY <1>1
<1>4. /\ CallsShape' /\ DOMAIN calls' = DOMAIN calls
      /\ \A i \in DOMAIN calls :
             /\ calls'[i].tool = calls[i].tool
             /\ calls'[i].at = IF i \in {n} THEN answer ELSE calls[i].at
      /\ \A i \in DOMAIN calls : calls'[i].id = calls[i].id
    <2>1. CallsShape /\ {n} \in SUBSET DOMAIN calls
        BY <1>2
    <2> QED BY <2>1, <1>3, CallsGoOn
<1>5. \A i \in DOMAIN calls : calls[i].at \in {"asked", "allowed", "refused"}
    BY <1>2 DEF CallsInv, CallsSoFar
<1>6. CASE pc' = "deciding"
    <2>1. CallsSoFar'
        BY <1>4, <1>5, <1>6 DEF CallsSoFar
    <2> QED BY <1>4, <1>6, <2>1, NothingRuns
<1>7. CASE pc' # "deciding"
    <2>1. pc' = "running" /\ At("asked") = {n}
        BY <1>1, <1>2, <1>7
    <2>2. \A i \in DOMAIN calls' : calls'[i].at \in {"allowed", "refused"}
        BY <1>4, <1>5, <2>1 DEF At
    <2>3. CallsSoFar' /\ StartedInOrder' /\ WritesRunAlone'
        BY <2>1, <2>2 DEF CallsSoFar, StartedInOrder, WritesRunAlone, At
    <2> QED BY <1>4, <2>3 DEF CallsInv
<1> QED BY <1>6, <1>7

\* The batch that starts is a run of calls with none that waits before it, and
\* it is one call or a run of reads.
LEMMA BatchIs ==
    ASSUME CallsShape, NEW first \in DOMAIN calls, calls[first].at = "allowed"
    PROVE  /\ Batch(first) \in SUBSET DOMAIN calls /\ first \in Batch(first)
           /\ \A n \in Batch(first) : first <= n /\ calls[n].at = "allowed"
           /\ \A n \in Batch(first), k \in DOMAIN calls : first <= k /\ k <= n => k \in Batch(first)
           /\ \A n, m \in Batch(first), k \in DOMAIN calls :
                  n # m /\ n <= k /\ k <= m => ReadOnly(calls[k].tool)
<1>1. Len(calls) \in Nat /\ DOMAIN calls = 1..Len(calls) /\ first \in 1..Len(calls)
    BY CallsAreSeq
<1>2. CASE Concurrent(first)
    <2>1. Batch(first) = {m \in first..Len(calls) : \A k \in first..m : Concurrent(k)}
        BY <1>2 DEF Batch
    <2>2. first \in Batch(first)
        BY <1>1, <1>2, <2>1
    <2>3. \A n \in Batch(first) : n \in DOMAIN calls /\ first <= n /\ Concurrent(n)
        BY <1>1, <2>1
    <2>4. \A n \in Batch(first), k \in DOMAIN calls : first <= k /\ k <= n => k \in Batch(first)
        BY <1>1, <2>1
    <2>5. \A n, m \in Batch(first), k \in DOMAIN calls :
              n <= k /\ k <= m => ReadOnly(calls[k].tool)
        <3> SUFFICES ASSUME NEW n \in Batch(first), NEW m \in Batch(first), NEW k \in DOMAIN calls,
                            n <= k, k <= m
                     PROVE  ReadOnly(calls[k].tool)
            OBVIOUS
        <3>1. first <= k
            BY <1>1, <2>3
        <3>2. k \in Batch(first)
            BY <2>4, <3>1
        <3> QED BY <2>3, <3>2 DEF Concurrent
    <2> QED BY <2>2, <2>3, <2>4, <2>5 DEF Concurrent
<1>3. CASE ~Concurrent(first)
    <2>1. Batch(first) = {first}
        BY <1>3 DEF Batch
    <2> QED BY <1>1, <2>1
<1> QED BY <1>2, <1>3

LEMMA StartNextCalls ==
    ASSUME CallsInv, StartNext
    PROVE  CallsInv'
<1>1. PICK first \in DOMAIN calls :
        /\ IsFirst(first, "allowed")
        /\ calls' = [n \in DOMAIN calls |->
                        IF n \in Batch(first) THEN [calls[n] EXCEPT !.at = "running"]
                        ELSE calls[n]]
    BY DEF StartNext
<1>2. pc = "running" /\ pc' = "running" /\ CallsShape /\ At("running") = {}
    BY DEF StartNext, CallsInv
<1>3. calls[first].at = "allowed" /\ \A m \in DOMAIN calls : calls[m].at = "allowed" => first <= m
    BY <1>1 DEF IsFirst, At
<1> DEFINE B == Batch(first)
<1>4. /\ B \in SUBSET DOMAIN calls /\ first \in B
      /\ \A n \in B : first <= n /\ calls[n].at = "allowed"
      /\ \A n \in B, k \in DOMAIN calls : first <= k /\ k <= n => k \in B
      /\ \A n, m \in B, k \in DOMAIN calls : n # m /\ n <= k /\ k <= m => ReadOnly(calls[k].tool)
    BY <1>2, <1>3, BatchIs
<1> HIDE DEF B
<1>5. /\ CallsShape' /\ DOMAIN calls' = DOMAIN calls
      /\ \A n \in DOMAIN calls :
             /\ calls'[n].tool = calls[n].tool
             /\ calls'[n].at = IF n \in B THEN "running" ELSE calls[n].at
    <2>1. calls' = [n \in DOMAIN calls |->
                        IF n \in B THEN [calls[n] EXCEPT !.at = "running"] ELSE calls[n]]
        BY <1>1 DEF B
    <2>2. CallsShape /\ B \in SUBSET DOMAIN calls
        BY <1>2, <1>4
    <2>3. PICK S \in SUBSET DOMAIN calls : S = B
        BY <2>2
    <2>4. PICK v : v = "running"
        OBVIOUS
    <2>5. calls' = [n \in DOMAIN calls |->
                        IF n \in S THEN [calls[n] EXCEPT !.at = v] ELSE calls[n]]
        BY <2>1, <2>3, <2>4
    <2>6. /\ CallsShape' /\ DOMAIN calls' = DOMAIN calls
          /\ \A n \in DOMAIN calls :
                 /\ calls'[n].tool = calls[n].tool
                 /\ calls'[n].at = IF n \in S THEN v ELSE calls[n].at
          /\ \A n \in DOMAIN calls : calls'[n].id = calls[n].id
        BY <2>2, <2>5, CallsGoOn
    <2> QED BY <2>3, <2>4, <2>6
<1>6. DOMAIN calls = 1..Len(calls) /\ Len(calls) \in Nat
    BY <1>2, CallsAreSeq
<1>7. \A n \in DOMAIN calls : calls[n].at \in {"allowed", "refused", "done"}
    BY <1>2 DEF CallsInv, CallsSoFar, At
<1>8. CallsSoFar'
    BY <1>2, <1>5, <1>7 DEF CallsSoFar
<1>9. StartedInOrder'
    <2> SUFFICES ASSUME NEW n \in DOMAIN calls, NEW m \in DOMAIN calls,
                        calls'[n].at \in {"running", "done"}, calls'[m].at = "allowed"
                 PROVE  n < m
        BY <1>5 DEF StartedInOrder
    <2>1. m \notin B /\ calls[m].at = "allowed" /\ first <= m
        BY <1>3, <1>5
    <2>2. CASE n \in B
        BY <1>4, <1>6, <2>1, <2>2
    <2>3. CASE n \notin B
        <3>1. calls[n].at = "done"
            BY <1>5, <1>7, <2>3
        <3> QED BY <2>1, <3>1 DEF CallsInv, StartedInOrder
    <2> QED BY <2>2, <2>3
<1>10. WritesRunAlone'
    <2> SUFFICES ASSUME NEW n \in DOMAIN calls, calls'[n].at = "running",
                        NEW m \in DOMAIN calls, m # n
                 PROVE  \/ \A k \in (m..n) \cup (n..m) :
                               ReadOnly(calls'[k].tool) /\ calls'[k].at # "refused"
                        \/ m < n /\ calls'[m].at \in {"done", "refused"}
                        \/ m > n /\ calls'[m].at \in {"allowed", "refused"}
        BY <1>5 DEF WritesRunAlone, At
    <2>1. n \in B /\ first <= n
        BY <1>4, <1>5, <1>7
    <2>2. CASE m \in B
        <3> SUFFICES ASSUME NEW k \in (m..n) \cup (n..m)
                     PROVE  ReadOnly(calls'[k].tool) /\ calls'[k].at # "refused"
            OBVIOUS
        <3>1. k \in DOMAIN calls /\ first <= m /\ ((m <= k /\ k <= n) \/ (n <= k /\ k <= m))
            BY <1>4, <1>6, <2>2
        <3>2. first <= k
            BY <1>6, <2>1, <3>1
        <3>3. k \in B
            BY <1>4, <2>1, <2>2, <3>1, <3>2
        <3>4. ReadOnly(calls[k].tool)
            BY <1>4, <2>1, <2>2, <3>1
        <3> QED BY <1>5, <3>1, <3>3, <3>4
    <2>3. CASE m \notin B /\ m < n
        <3>1. m < first
            BY <1>4, <1>6, <2>1, <2>3
        <3>2. calls[m].at # "allowed"
            BY <1>3, <1>6, <3>1
        <3> QED BY <1>5, <1>7, <2>3, <3>2
    <2>4. CASE m \notin B /\ m > n
        <3>1. calls[m].at # "done"
            <4>1. calls[m].at = "done" => m < first
                BY <1>3 DEF CallsInv, StartedInOrder
            <4> QED BY <1>6, <2>1, <2>4, <4>1
        <3> QED BY <1>5, <1>7, <2>4, <3>1
    <2> QED BY <1>6, <2>2, <2>3, <2>4
<1> QED BY <1>5, <1>8, <1>9, <1>10 DEF CallsInv

LEMMA ToolReturnsCalls ==
    ASSUME CallsInv, NEW n \in DOMAIN calls, ToolReturns(n)
    PROVE  CallsInv'
<1>1. /\ pc = "running" /\ pc' = "running" /\ CallsShape /\ calls[n].at = "running"
      /\ calls' = [calls EXCEPT ![n].at = "done"]
    BY DEF ToolReturns, CallsInv
<1>2. calls' = [i \in DOMAIN calls |->
                    IF i \in {n} THEN [calls[i] EXCEPT !.at = "done"] ELSE calls[i]]
    BY <1>1
<1>3. /\ CallsShape' /\ DOMAIN calls' = DOMAIN calls
      /\ \A i \in DOMAIN calls :
             /\ calls'[i].tool = calls[i].tool
             /\ calls'[i].at = IF i \in {n} THEN "done" ELSE calls[i].at
      /\ \A i \in DOMAIN calls : calls'[i].id = calls[i].id
    <2>1. CallsShape /\ {n} \in SUBSET DOMAIN calls
        BY <1>1
    <2> QED BY <2>1, <1>2, CallsGoOn
<1>4. CallsSoFar'
    BY <1>1, <1>3 DEF CallsInv, CallsSoFar
<1>5. StartedInOrder'
    BY <1>1, <1>3 DEF CallsInv, StartedInOrder
<1>6. WritesRunAlone'
    <2> SUFFICES ASSUME NEW i \in DOMAIN calls, calls'[i].at = "running",
                        NEW m \in DOMAIN calls, m # i
                 PROVE  \/ \A k \in (m..i) \cup (i..m) :
                               ReadOnly(calls'[k].tool) /\ calls'[k].at # "refused"
                        \/ m < i /\ calls'[m].at \in {"done", "refused"}
                        \/ m > i /\ calls'[m].at \in {"allowed", "refused"}
        BY <1>3 DEF WritesRunAlone, At
    <2>1. i # n /\ calls[i].at = "running"
        BY <1>3
    <2>2. \/ \A k \in (m..i) \cup (i..m) : ReadOnly(calls[k].tool) /\ calls[k].at # "refused"
          \/ m < i /\ calls[m].at \in {"done", "refused"}
          \/ m > i /\ calls[m].at \in {"allowed", "refused"}
        BY <2>1 DEF CallsInv, WritesRunAlone, At
    <2>3. CASE \A k \in (m..i) \cup (i..m) : ReadOnly(calls[k].tool) /\ calls[k].at # "refused"
        <3>1. \A k \in (m..i) \cup (i..m) : k \in DOMAIN calls
            BY <1>1, CallsAreSeq
        <3> QED BY <1>3, <2>3, <3>1
    <2>4. CASE m < i /\ calls[m].at \in {"done", "refused"}
        BY <1>1, <1>3, <2>4
    <2>5. CASE m > i /\ calls[m].at \in {"allowed", "refused"}
        BY <1>1, <1>3, <2>5
    <2> QED BY <2>2, <2>3, <2>4, <2>5
<1> QED BY <1>3, <1>4, <1>5, <1>6 DEF CallsInv

LEMMA RoundRunCalls ==
    ASSUME CallsInv, RoundRun
    PROVE  CallsInv'
<1>1. /\ pc = "running" /\ pc' = "recording" /\ calls' = calls
      /\ At("allowed") = {} /\ At("running") = {}
    BY DEF RoundRun
<1>2. CallsShape'
    BY <1>1 DEF CallsInv, CallsShape
<1>3. CallsSoFar'
    BY <1>1 DEF CallsInv, CallsSoFar, At
<1> QED BY <1>1, <1>2, <1>3, NothingRuns

LEMMA RecordResultCalls ==
    ASSUME CallsInv, RecordResult
    PROVE  CallsInv'
<1> DEFINE S == {calls[n] : n \in DOMAIN calls}
           k == Len(calls)
<1>1. pc = "recording" /\ pc' = "recording" /\ calls # << >> /\ calls' = Tail(calls)
    BY DEF RecordResult
<1>2. calls \in Seq(S) /\ \A n \in DOMAIN calls :
          /\ calls[n] = [id |-> calls[n].id, tool |-> calls[n].tool, at |-> calls[n].at]
          /\ calls[n].at \in {"refused", "done"}
    BY <1>1 DEF CallsInv, CallsShape, CallsSoFar
<1> HIDE DEF S
<1>3. /\ k \in Nat \ {0} /\ DOMAIN calls = 1..k
      /\ DOMAIN calls' = 1..k - 1 /\ \A n \in 1..k - 1 : calls'[n] = calls[n + 1]
    BY <1>1, <1>2
<1>4. calls' = [i \in 1..k - 1 |-> calls'[i]] /\ k - 1 \in Nat
    <2>1. calls' \in Seq(S) /\ Len(calls') = k - 1
        BY <1>1, <1>2
    <2> QED BY <1>3, <2>1
<1>5. \A n \in DOMAIN calls' :
          /\ calls'[n] = [id |-> calls'[n].id, tool |-> calls'[n].tool, at |-> calls'[n].at]
          /\ calls'[n].at \in {"refused", "done"}
    <2> SUFFICES ASSUME NEW n \in DOMAIN calls'
                 PROVE  \E m \in DOMAIN calls : calls'[n] = calls[m]
        BY <1>2
    <2> QED BY <1>3
<1>6. CallsShape'
    BY <1>4, <1>5, ValuesOfSeq DEF CallsShape
<1>7. CallsSoFar'
    BY <1>1, <1>5 DEF CallsSoFar
<1> QED BY <1>1, <1>6, <1>7, NothingRuns

LEMMA CallsInvIsKept == FlagInv /\ CallsInv /\ [TurnNext]_turnVars => CallsInv'
<1> SUFFICES ASSUME FlagInv, CallsInv, [TurnNext]_turnVars PROVE CallsInv'
    OBVIOUS
<1> DEFINE None3 == pc \notin {"deciding", "running", "recording"}
<1>1. None3 => calls = << >>
    BY DEF CallsInv, CallsSoFar
<1>2. CASE RunTurn \/ OpenRequest \/ StopBeforeReply \/ RequestOpened \/ RequestFailed
    BY <1>1, <1>2, NoCalls DEF RunTurn, OpenRequest, StopBeforeReply, RequestOpened, RequestFailed, Return
<1>3. CASE Stop \/ StreamBlock \/ UNCHANGED turnVars
    BY <1>3, SameCalls DEF Stop, StreamBlock, turnVars
<1>4. CASE Die
    BY <1>4, NoCalls DEF Die
<1>5. CASE StopInStream \/ StreamFailed
    BY <1>1, <1>5, NoCalls DEF StopInStream, StreamFailed, CutReply, Return
<1>6. CASE StreamEnded
    BY <1>6, StreamEndsCalls
<1>7. CASE \E answer \in {"allowed", "refused"} : Decide(answer)
    BY <1>7, DecideCalls
<1>8. CASE StartNext
    BY <1>8, StartNextCalls
<1>9. CASE \E n \in DOMAIN calls : ToolReturns(n)
    BY <1>9, ToolReturnsCalls
<1>10. CASE RoundRun
    BY <1>10, RoundRunCalls
<1>11. CASE RecordResult
    BY <1>11, RecordResultCalls
<1>12. CASE EndRound
    <2>1. calls' = << >> /\ pc' \in {"settling", "round"}
        BY <1>12 DEF EndRound
    <2> QED BY <2>1, NoCalls
<1>13. AfterReply \in {"title", "idle"}
    BY DEF AfterReply
<1>14. CASE Settle
    BY <1>1, <1>13, <1>14, NoCalls DEF Settle
<1>15. CASE OpenCompaction \/ Compact \/ LeaveUncompacted \/ OpenTitle \/ TitleOpened
            \/ NameChat \/ LeaveUnnamed
    BY <1>1, <1>13, <1>15, NoCalls
       DEF OpenCompaction, Compact, LeaveUncompacted, OpenTitle, TitleOpened, NameChat, LeaveUnnamed, Go
<1> QED BY <1>2, <1>3, <1>4, <1>5, <1>6, <1>7, <1>8, <1>9, <1>10, <1>11, <1>12, <1>14, <1>15
        DEF TurnNext, EngineStep, ProviderStep

LEMMA FlagInvIsKept == FlagInv /\ [TurnNext]_turnVars => FlagInv'
<1> SUFFICES ASSUME FlagInv, [TurnNext]_turnVars PROVE FlagInv'
    OBVIOUS
<1>1. AfterReply \in {"title", "idle"} /\ TurnSteps \cap {"title", "idle", "compact", "compacting", "title_opening", "titling"} = {}
    BY DEF AfterReply, TurnSteps
<1>2. CASE RunTurn
    BY <1>2 DEF RunTurn, FlagInv, TurnSteps
<1>3. CASE Stop \/ StreamBlock \/ UNCHANGED turnVars \/ StartNext \/ RecordResult
    BY <1>3 DEF Stop, StreamBlock, turnVars, StartNext, RecordResult, FlagInv
<1>4. CASE Die
    BY <1>4 DEF Die, FlagInv
<1>5. CASE OpenRequest \/ StopBeforeReply \/ RequestOpened \/ RequestFailed \/ StopInStream
           \/ StreamFailed
    BY <1>5 DEF OpenRequest, StopBeforeReply, RequestOpened, RequestFailed, StopInStream,
                StreamFailed, CutReply, Return, FlagInv, TurnSteps
<1>6. CASE StreamEnded
    <2>1. pc' \in TurnSteps /\ UNCHANGED << signal, turns, plan >>
        BY <1>6 DEF StreamEnded, Return, TurnSteps
    <2> QED BY <2>1 DEF FlagInv
<1>7. CASE \E answer \in {"allowed", "refused"} : Decide(answer)
    <2>1. pc' \in TurnSteps /\ UNCHANGED << signal, turns, plan >>
        BY <1>7 DEF Decide, TurnSteps
    <2> QED BY <2>1 DEF FlagInv
<1>8. CASE \E n \in DOMAIN calls : ToolReturns(n)
    BY <1>8 DEF ToolReturns, FlagInv, TurnSteps
<1>9. CASE RoundRun \/ EndRound
    <2>1. pc' \in TurnSteps /\ UNCHANGED << signal, turns, plan >>
        BY <1>9 DEF RoundRun, EndRound, TurnSteps
    <2> QED BY <2>1 DEF FlagInv
<1>10. CASE Settle
    BY <1>10 DEF Settle, FlagInv
<1>11. CASE OpenCompaction \/ Compact \/ LeaveUncompacted \/ OpenTitle \/ TitleOpened
            \/ NameChat \/ LeaveUnnamed
    <2>1. pc \notin TurnSteps /\ pc' \notin TurnSteps /\ UNCHANGED << signal, turns, plan >>
        BY <1>1, <1>11 DEF OpenCompaction, Compact, LeaveUncompacted, OpenTitle, TitleOpened,
                           NameChat, LeaveUnnamed, Go, TurnSteps
    <2> QED BY <2>1 DEF FlagInv
<1> QED BY <1>2, <1>3, <1>4, <1>5, <1>6, <1>7, <1>8, <1>9, <1>10, <1>11
        DEF TurnNext, EngineStep, ProviderStep

LEMMA TurnInvAlways == TurnSpec => [](FlagInv /\ CallsInv)
<1>1. TurnInit => FlagInv
    BY DEF TurnInit, FlagInv
<1>2. TurnInit => CallsInv
    <2> SUFFICES ASSUME TurnInit PROVE CallsInv
        OBVIOUS
    <2>1. calls = << >> /\ pc = "idle" /\ DOMAIN calls = {} /\ calls = [i \in 1..0 |-> calls[i]]
        BY DEF TurnInit
    <2>2. CallsShape
        BY <2>1, ValuesOfSeq DEF CallsShape
    <2> QED BY <2>1, <2>2 DEF CallsInv, CallsSoFar, StartedInOrder, WritesRunAlone, At
<1> QED BY <1>1, <1>2, CallsInvIsKept, FlagInvIsKept, PTL DEF TurnSpec

\* Only reads asked for side by side overlap (turn.rs, execute), whatever the
\* replies ask for, whatever is refused and wherever the turn is stopped.
THEOREM WritesAreAlone == TurnSpec => []WritesRunAlone
<1>1. CallsInv => WritesRunAlone
    BY DEF CallsInv
<1> QED BY <1>1, TurnInvAlways, PTL

\* A compaction at a turn's end is one that a tool asked for in that turn
\* (turn.rs, run_turn_as: the flag is taken whatever became of the turn).
THEOREM CompactsAsAsked == TurnSpec => CompactsWhenAskedThisTurn
<1>1. FlagInv /\ [TurnNext]_turnVars =>
          [pc = "settling" /\ pc' = "compact" => signal = turns]_turnVars
    <2> SUFFICES ASSUME FlagInv, [TurnNext]_turnVars, pc = "settling", pc' = "compact"
                 PROVE  signal = turns
        OBVIOUS
    <2>1. Settle
        BY DEF TurnNext, EngineStep, ProviderStep, turnVars, RunTurn, Stop, Die, OpenRequest,
               StopBeforeReply, RequestOpened, RequestFailed, StreamBlock, StopInStream,
               StreamFailed, StreamEnded, Decide, StartNext, ToolReturns, RoundRun, RecordResult,
               EndRound, OpenCompaction, Compact, LeaveUncompacted, OpenTitle, TitleOpened,
               NameChat, LeaveUnnamed
    <2>2. signal # 0
        BY <2>1 DEF Settle, AfterReply
    <2> QED BY <2>2 DEF FlagInv
<1> QED BY <1>1, TurnInvAlways, PTL DEF TurnSpec, CompactsWhenAskedThisTurn

-----------------------------------------------------------------------------
(***************************************************************************)
(* Turn: every call has its result and every message its answer.           *)
(***************************************************************************)

TurnBlock == [kind : {"tool_use"}, id : Nat \X Nat] \cup [kind : {"text", "thinking"}]

TurnEvent ==
    {Created("build"), UserMsg("said", 0), StandIn, Compaction, Title, Todo}
    \cup {Assistant(bs) : bs \in Seq(TurnBlock)} \cup {Result(id) : id \in Nat \X Nat}

\* The calls of a reply that are answered: all but the lost ones.
Answerable(bs, lost) == {n \in DOMAIN bs : IsCall(bs[n]) /\ bs[n].id \notin lost}
Due(bs, lost) == Sift(bs, Answerable(bs, lost))

\* The calls without a result: those still open and those a death took.
Lost(ids, gone) == gone \cup {ids[k] : k \in DOMAIN ids}

Numbered(said) ==
    /\ said \in Seq(TurnEvent)
    /\ \A i \in DOMAIN said : IsAssistant(said[i]) =>
           \A n \in DOMAIN said[i].blocks :
               IsCall(said[i].blocks[n]) => said[i].blocks[n].id = << i, n >>

InPlace(said, lost, i) ==
    IsAssistant(said[i]) =>
        \A k \in DOMAIN Due(said[i].blocks, lost) :
            i + k \in DOMAIN said /\ said[i + k] = Result(Due(said[i].blocks, lost)[k].id)

\* The open calls are calls of the reply at a, in its order and after those
\* that have their result, and the results are all that followed it.
AskedBy(said, ids, lost, a) ==
    /\ a \in DOMAIN said /\ IsAssistant(said[a])
    /\ Len(said) = a + Len(Due(said[a].blocks, lost))
    /\ \A k \in DOMAIN ids :
           /\ ids[k] = << a, ids[k][2] >> /\ ids[k][2] \in DOMAIN said[a].blocks
           /\ IsCall(said[a].blocks[ids[k][2]])
           /\ \A n \in Answerable(said[a].blocks, lost) : n < ids[k][2]
    /\ \A j, k \in DOMAIN ids : j < k => ids[j][2] < ids[k][2]

Answered(said, ids, gone) ==
    /\ Numbered(said)
    /\ ids \in Seq(Nat \X Nat)
    /\ gone \subseteq (1..Len(said)) \X Nat
    /\ \A k \in DOMAIN ids : ids[k] \notin gone
    /\ \A i \in DOMAIN said : InPlace(said, Lost(ids, gone), i)
    /\ ids # << >> => \E a \in DOMAIN said : AskedBy(said, ids, Lost(ids, gone), a)

LEMMA BlocksOfEvent ==
    ASSUME NEW e \in TurnEvent, IsAssistant(e)
    PROVE  e.blocks \in Seq(TurnBlock)
<1> DEFINE block == [kind |-> "text"]
<1>0. block \in TurnBlock
    <2>1. block \in [kind : {"text", "thinking"}]
        OBVIOUS
    <2> HIDE DEF block
    <2> QED BY <2>1 DEF TurnBlock
<1>1. << block >> \in Seq(TurnBlock)
    <2> HIDE DEF block
    <2> QED BY <1>0
<1>2. CASE e = StandIn
    BY <1>1, <1>2 DEF StandIn
<1>3. CASE \E bs \in Seq(TurnBlock) : e = Assistant(bs)
    BY <1>3 DEF Assistant
<1>4. CASE e \in {Created("build"), UserMsg("said", 0), Compaction, Title, Todo}
    BY <1>4 DEF IsAssistant, Created, UserMsg, Compaction, Title, Todo
<1>5. CASE \E id \in Nat \X Nat : e = Result(id)
    BY <1>5 DEF IsAssistant, Result
<1> QED BY <1>2, <1>3, <1>4, <1>5 DEF TurnEvent

LEMMA BlocksOfSaid ==
    ASSUME NEW said, Numbered(said), NEW i \in DOMAIN said, IsAssistant(said[i])
    PROVE  said[i].blocks \in Seq(TurnBlock)
<1>1. said[i] \in TurnEvent
    BY DEF Numbered
<1> QED BY <1>1, BlocksOfEvent

\* What is due is a sequence.
LEMMA DueIsSeq ==
    ASSUME NEW bs \in Seq(TurnBlock), NEW lost
    PROVE  /\ Due(bs, lost) \in Seq(TurnBlock)
           /\ Len(Due(bs, lost)) \in Nat /\ DOMAIN Due(bs, lost) = 1..Len(Due(bs, lost))
           /\ Answerable(bs, lost) = {} => Len(Due(bs, lost)) = 0
<1> DEFINE keep == Answerable(bs, lost)
           t == Sift(bs, keep)
<1>1. t \in Seq(TurnBlock) /\ \E p \in [1..Len(t) -> keep \cap DOMAIN bs] : TRUE
    <2> HIDE DEF keep
    <2>1. /\ t \in Seq(TurnBlock)
          /\ \E p \in [1..Len(t) -> keep \cap DOMAIN bs] :
                /\ \A k \in 1..Len(t) : t[k] = bs[p[k]]
                /\ \A j, k \in 1..Len(t) : j < k => p[j] < p[k]
                /\ \A n \in keep \cap DOMAIN bs : \E k \in 1..Len(t) : p[k] = n
        BY SiftIs
    <2> HIDE DEF t
    <2> QED BY <2>1
<1>2. t = Due(bs, lost)
    BY DEF Due
<1> HIDE DEF t, keep
<1>3. Len(t) \in Nat /\ DOMAIN t = 1..Len(t)
    BY <1>1
<1>4. keep = {} => Len(t) = 0
    <2> SUFFICES ASSUME keep = {}, Len(t) # 0 PROVE FALSE
        OBVIOUS
    <2>1. PICK p \in [1..Len(t) -> keep \cap DOMAIN bs] : TRUE
        BY <1>1
    <2>2. 1 \in 1..Len(t)
        BY <1>3
    <2>3. p[1] \in keep
        BY <2>1, <2>2
    <2> QED BY <2>3
<1> QED BY <1>1, <1>2, <1>3, <1>4 DEF keep

\* Two sets of lost calls that agree on a reply's own.
LEMMA DueAlike ==
    ASSUME NEW bs \in Seq(TurnBlock), NEW lost, NEW other,
           \A n \in DOMAIN bs : IsCall(bs[n]) => (bs[n].id \in lost <=> bs[n].id \in other)
    PROVE  Due(bs, lost) = Due(bs, other) /\ Answerable(bs, lost) = Answerable(bs, other)
<1>1. Answerable(bs, lost) = Answerable(bs, other)
    BY DEF Answerable
<1> QED BY <1>1 DEF Due

\* The events before, and what is due of their calls, stay.
LEMMA StaysInPlace ==
    ASSUME NEW said, Numbered(said), NEW e, NEW lost, NEW other, NEW i \in DOMAIN said,
           InPlace(said, lost, i),
           \A n \in Nat : << i, n >> \in lost <=> << i, n >> \in other
    PROVE  InPlace(Append(said, e), other, i)
<1> DEFINE more == Append(said, e)
           L == Len(said)
<1>1. said \in Seq(TurnEvent)
    BY DEF Numbered
<1>2. /\ L \in Nat /\ DOMAIN said = 1..L /\ DOMAIN more = 1..(L + 1)
      /\ \A n \in 1..L : more[n] = said[n]
    BY <1>1
<1>3. more[i] = said[i] /\ i \in Nat
    BY <1>2
<1> HIDE DEF more, L
<1>4. ASSUME IsAssistant(said[i])
      PROVE  /\ Due(said[i].blocks, lost) = Due(said[i].blocks, other)
             /\ DOMAIN Due(said[i].blocks, lost) = 1..Len(Due(said[i].blocks, lost))
             /\ \A k \in DOMAIN Due(said[i].blocks, lost) : i + k \in DOMAIN said
             /\ \A k \in DOMAIN Due(said[i].blocks, lost) :
                    said[i + k] = Result(Due(said[i].blocks, lost)[k].id)
    <2> DEFINE bs == said[i].blocks
    <2>1. bs \in Seq(TurnBlock)
        BY <1>4, BlocksOfSaid
    <2>2. \A n \in DOMAIN bs : n \in Nat /\ (IsCall(bs[n]) => bs[n].id = << i, n >>)
        BY <1>4, <2>1 DEF Numbered
    <2> HIDE DEF bs
    <2>3. \A n \in DOMAIN bs : IsCall(bs[n]) => (bs[n].id \in lost <=> bs[n].id \in other)
        BY <2>2
    <2>4. Due(bs, lost) = Due(bs, other)
        BY <2>1, <2>3, DueAlike
    <2>5. DOMAIN Due(bs, lost) = 1..Len(Due(bs, lost))
        BY <2>1, DueIsSeq
    <2> QED BY <1>4, <2>4, <2>5 DEF InPlace, bs
<1> SUFFICES ASSUME IsAssistant(said[i]), NEW k \in DOMAIN Due(said[i].blocks, other)
             PROVE  i + k \in DOMAIN more /\ more[i + k] = Result(Due(said[i].blocks, other)[k].id)
    BY <1>3 DEF InPlace, more
<1>5. i + k \in DOMAIN said /\ said[i + k] = Result(Due(said[i].blocks, other)[k].id)
    BY <1>4
<1> QED BY <1>2, <1>5

\* An event while no call is open; if it is a reply, its calls are the ones
\* that are open then.
LEMMA AnsweredMore ==
    ASSUME NEW said, NEW gone, Answered(said, << >>, gone), NEW e \in TurnEvent,
           NEW ids \in Seq(Nat \X Nat),
           ids # << >> => IsAssistant(e),
           IsAssistant(e) =>
               /\ \A k \in DOMAIN ids :
                      /\ ids[k] = << Len(said) + 1, ids[k][2] >>
                      /\ ids[k][2] \in DOMAIN e.blocks /\ IsCall(e.blocks[ids[k][2]])
               /\ \A j, k \in DOMAIN ids : j < k => ids[j][2] < ids[k][2]
               /\ \A n \in DOMAIN e.blocks : IsCall(e.blocks[n]) =>
                      /\ e.blocks[n].id = << Len(said) + 1, n >>
                      /\ \E k \in DOMAIN ids : ids[k] = << Len(said) + 1, n >>
    PROVE  Answered(Append(said, e), ids, gone)
<1> DEFINE more == Append(said, e)
           L == Len(said)
           before == Lost(<< >>, gone)
           lost == Lost(ids, gone)
<1>0. Numbered(said) /\ said \in Seq(TurnEvent)
    BY DEF Answered, Numbered
<1>1. /\ L \in Nat /\ DOMAIN said = 1..L /\ DOMAIN more = 1..(L + 1)
      /\ more[L + 1] = e /\ more \in Seq(TurnEvent) /\ Len(more) = L + 1
      /\ \A n \in 1..L : more[n] = said[n]
    BY <1>0
<1>2. before = gone
    BY DEF Lost
<1>3. ids = << >> \/ \A k \in DOMAIN ids : ids[k][1] = L + 1
    OBVIOUS
<1>4. \A i \in 1..L, n \in Nat : << i, n >> \in before <=> << i, n >> \in lost
    <2> SUFFICES ASSUME NEW i \in 1..L, NEW n \in Nat, << i, n >> \in lost, << i, n >> \notin gone
                 PROVE  FALSE
        BY <1>2 DEF Lost
    <2>1. PICK k \in DOMAIN ids : ids[k] = << i, n >>
        BY DEF Lost
    <2>2. ids[k][1] = L + 1
        BY <1>3, <2>1
    <2> QED BY <1>1, <2>1, <2>2
<1>5. gone \subseteq (1..L) \X Nat /\ \A i \in DOMAIN said : InPlace(said, before, i)
    BY DEF Answered
<1>6. \A i \in 1..L : InPlace(more, lost, i)
    <2> SUFFICES ASSUME NEW i \in 1..L PROVE InPlace(more, lost, i)
        OBVIOUS
    <2>1. i \in DOMAIN said /\ InPlace(said, before, i)
        BY <1>1, <1>5
    <2>2. \A n \in Nat : << i, n >> \in before <=> << i, n >> \in lost
        BY <1>4
    <2> HIDE DEF before, lost
    <2> QED BY <1>0, <2>1, <2>2, StaysInPlace
<1> HIDE DEF before
<1>7. ASSUME IsAssistant(e)
      PROVE  /\ Answerable(e.blocks, lost) = {}
             /\ Len(Due(e.blocks, lost)) = 0 /\ DOMAIN Due(e.blocks, lost) = {}
    <2>1. e.blocks \in Seq(TurnBlock)
        BY <1>7, BlocksOfEvent
    <2>2. \A n \in DOMAIN e.blocks : IsCall(e.blocks[n]) => e.blocks[n].id \in lost
        BY <1>7 DEF Lost
    <2>3. Answerable(e.blocks, lost) = {}
        BY <2>2 DEF Answerable
    <2> HIDE DEF lost
    <2>4. DOMAIN Due(e.blocks, lost) = 1..Len(Due(e.blocks, lost)) /\ Len(Due(e.blocks, lost)) = 0
        BY <2>1, <2>3, DueIsSeq
    <2> QED BY <2>3, <2>4
<1>8. InPlace(more, lost, L + 1)
    BY <1>1, <1>7 DEF InPlace
<1>9. \A i \in DOMAIN more : InPlace(more, lost, i)
    <2>1. \A i \in DOMAIN more : i \in 1..L \/ i = L + 1
        BY <1>1
    <2> HIDE DEF more, lost
    <2> QED BY <1>6, <1>8, <2>1
<1>10. Numbered(more)
    <2> SUFFICES ASSUME NEW i \in DOMAIN more, IsAssistant(more[i]),
                        NEW n \in DOMAIN more[i].blocks, IsCall(more[i].blocks[n])
                 PROVE  more[i].blocks[n].id = << i, n >>
        BY <1>1 DEF Numbered
    <2>1. CASE i \in 1..L
        BY <1>0, <1>1, <2>1 DEF Numbered
    <2>2. CASE i = L + 1
        BY <1>1, <2>2
    <2> QED BY <1>1, <2>1, <2>2
<1>11. gone \subseteq (1..Len(more)) \X Nat
    <2>1. 1..L \subseteq 1..(L + 1)
        BY <1>1
    <2> QED BY <1>1, <1>5, <2>1
<1>12. \A k \in DOMAIN ids : ids[k] \notin gone
    <2> SUFFICES ASSUME NEW k \in DOMAIN ids, ids[k] \in gone PROVE FALSE
        OBVIOUS
    <2>1. ids[k][1] = L + 1 /\ ids[k][1] \in 1..L
        BY <1>3, <1>5
    <2> QED BY <1>1, <2>1
<1>13. ids # << >> => AskedBy(more, ids, lost, L + 1)
    <2> SUFFICES ASSUME ids # << >> PROVE AskedBy(more, ids, lost, L + 1)
        OBVIOUS
    <2>1. IsAssistant(e)
        OBVIOUS
    <2>2. Len(more) = L + 1 + Len(Due(e.blocks, lost))
        BY <1>1, <1>7, <2>1
    <2>3. Answerable(e.blocks, lost) = {}
        BY <1>7, <2>1
    <2>4. L + 1 \in DOMAIN more /\ more[L + 1] = e
        BY <1>1
    <2> HIDE DEF more, lost
    <2> QED BY <2>1, <2>2, <2>3, <2>4 DEF AskedBy
<1>14. L + 1 \in DOMAIN more
    BY <1>1
<1> HIDE DEF more, L
<1> QED BY <1>9, <1>10, <1>11, <1>12, <1>13, <1>14 DEF Answered, more, lost

\* An event that is no reply with calls, and opens none.
LEMMA AnsweredPlain ==
    ASSUME NEW said, NEW gone, Answered(said, << >>, gone), NEW e \in TurnEvent,
           IsAssistant(e) => \A n \in DOMAIN e.blocks : ~IsCall(e.blocks[n])
    PROVE  Answered(Append(said, e), << >>, gone)
<1> DEFINE ids == << >>
<1>1. ids \in Seq(Nat \X Nat) /\ DOMAIN ids = {} /\ ids = << >>
    OBVIOUS
<1> HIDE DEF ids
<1>2. Answered(Append(said, e), ids, gone)
    BY <1>1, AnsweredMore
<1> QED BY <1>1, <1>2

\* The result of the first of the open calls.
LEMMA AnsweredResult ==
    ASSUME NEW said, NEW ids, NEW gone, Answered(said, ids, gone), ids # << >>
    PROVE  Answered(Append(said, Result(Head(ids))), Tail(ids), gone)
<1> DEFINE id == Head(ids)
           e == Result(id)
           left == Tail(ids)
           more == Append(said, e)
           L == Len(said)
           lost == Lost(ids, gone)
           after == Lost(left, gone)
<1>0. Numbered(said) /\ said \in Seq(TurnEvent) /\ ids \in Seq(Nat \X Nat)
    BY DEF Answered, Numbered
<1>1. /\ id \in Nat \X Nat /\ id = ids[1] /\ 1 \in DOMAIN ids
      /\ left \in Seq(Nat \X Nat) /\ DOMAIN left = 1..(Len(ids) - 1) /\ Len(ids) \in Nat
      /\ DOMAIN ids = 1..Len(ids)
      /\ \A k \in DOMAIN left : left[k] = ids[k + 1] /\ k + 1 \in DOMAIN ids /\ k \in Nat /\ 1 < k + 1
    BY <1>0
<1>2. e \in TurnEvent /\ ~IsAssistant(e) /\ e = Result(ids[1])
    BY <1>1 DEF TurnEvent, Result, IsAssistant
<1> HIDE DEF e, left, id
<1>3. /\ L \in Nat /\ DOMAIN said = 1..L /\ DOMAIN more = 1..(L + 1)
      /\ more[L + 1] = e /\ more \in Seq(TurnEvent) /\ Len(more) = L + 1
      /\ \A n \in 1..L : more[n] = said[n]
    BY <1>0, <1>2
<1> HIDE DEF more, L
<1>4. PICK a \in DOMAIN said : AskedBy(said, ids, lost, a)
    BY DEF Answered
<1>5. /\ IsAssistant(said[a]) /\ L = a + Len(Due(said[a].blocks, lost))
      /\ \A k \in DOMAIN ids :
             /\ ids[k] = << a, ids[k][2] >> /\ ids[k][2] \in DOMAIN said[a].blocks
             /\ IsCall(said[a].blocks[ids[k][2]])
             /\ \A n \in Answerable(said[a].blocks, lost) : n < ids[k][2]
      /\ \A j, k \in DOMAIN ids : j < k => ids[j][2] < ids[k][2]
    BY <1>4 DEF AskedBy, L
<1> DEFINE bs == said[a].blocks
           m == ids[1][2]
<1>6. bs \in Seq(TurnBlock) /\ Len(bs) \in Nat /\ DOMAIN bs = 1..Len(bs)
    <2>1. bs \in Seq(TurnBlock)
        BY <1>0, <1>4, <1>5, BlocksOfSaid
    <2> HIDE DEF bs
    <2> QED BY <2>1
<1>7. /\ m \in DOMAIN bs /\ IsCall(bs[m]) /\ bs[m].id = ids[1] /\ ids[1] = << a, m >>
      /\ \A n \in DOMAIN bs : IsCall(bs[n]) => bs[n].id = << a, n >>
    BY <1>0, <1>1, <1>5 DEF Numbered
<1>8. /\ \A x : x \in lost <=> x \in after \/ x = ids[1]
      /\ ids[1] \notin after
    <2>1. ASSUME NEW k \in DOMAIN left
          PROVE  ids[1][2] < ids[k + 1][2] /\ ids[k + 1][2] \in Nat
        <3>1. k + 1 \in DOMAIN ids /\ 1 < k + 1 /\ 1 \in DOMAIN ids
            BY <1>1
        <3>2. ids[1][2] < ids[k + 1][2] /\ ids[k + 1][2] \in DOMAIN bs
            BY <1>5, <3>1
        <3> HIDE DEF bs
        <3> QED BY <1>6, <3>2
    <2>2. \A k \in DOMAIN left : left[k] # ids[1]
        <3> SUFFICES ASSUME NEW k \in DOMAIN left, left[k] = ids[1] PROVE FALSE
            OBVIOUS
        <3>1. ids[k + 1][2] = ids[1][2]
            BY <1>1
        <3> QED BY <2>1, <3>1
    <2>3. \A k \in DOMAIN ids : k = 1 \/ (k - 1 \in DOMAIN left /\ left[k - 1] = ids[k])
        <3> SUFFICES ASSUME NEW k \in DOMAIN ids, k # 1
                     PROVE  k - 1 \in DOMAIN left /\ left[k - 1] = ids[k]
            OBVIOUS
        <3>1. k \in 1..Len(ids)
            BY <1>1
        <3>2. k - 1 \in DOMAIN left /\ (k - 1) + 1 = k
            BY <1>1, <3>1
        <3> QED BY <1>1, <3>2
    <2>4. ids[1] \notin gone
        BY <1>1 DEF Answered
    <2>5. \A k \in DOMAIN left : k + 1 \in DOMAIN ids /\ left[k] = ids[k + 1]
        BY <1>1
    <2>6. ASSUME NEW x
          PROVE  (\E k \in DOMAIN ids : x = ids[k]) <=> (\E k \in DOMAIN left : x = left[k]) \/ x = ids[1]
        <3>1. ASSUME NEW k \in DOMAIN ids, x = ids[k]
              PROVE  (\E j \in DOMAIN left : x = left[j]) \/ x = ids[1]
            BY <2>3, <3>1
        <3>2. ASSUME NEW k \in DOMAIN left, x = left[k]
              PROVE  \E j \in DOMAIN ids : x = ids[j]
            BY <2>5, <3>2
        <3>3. 1 \in DOMAIN ids
            BY <1>1
        <3> QED BY <3>1, <3>2, <3>3
    <2> QED BY <2>2, <2>4, <2>6 DEF Lost
<1> HIDE DEF lost, after
<1>9. Answerable(bs, after) = Answerable(bs, lost) \cup {m}
    <2> SUFFICES ASSUME NEW n \in DOMAIN bs, IsCall(bs[n])
                 PROVE  bs[n].id \notin after <=> bs[n].id \notin lost \/ n = m
        BY <1>7 DEF Answerable
    <2>1. bs[n].id = << a, n >> /\ (<< a, n >> = << a, m >> <=> n = m)
        BY <1>7
    <2> QED BY <1>7, <1>8, <2>1
<1>10. Due(bs, after) = Append(Due(bs, lost), bs[m])
    <2> DEFINE keep == Answerable(bs, lost)
    <2>1. \A n \in keep \cap DOMAIN bs : n < m
        BY <1>1, <1>5
    <2> HIDE DEF keep, m, bs
    <2>2. Sift(bs, keep \cup {m}) = Append(Sift(bs, keep), bs[m])
        BY <1>6, <1>7, <2>1, SiftGrows
    <2> QED BY <1>9, <2>2 DEF Due, keep
<1> DEFINE due == Due(bs, lost)
           now == Due(bs, after)
<1>11. due \in Seq(TurnBlock) /\ Len(due) \in Nat /\ DOMAIN due = 1..Len(due)
    <2> HIDE DEF bs
    <2> QED BY <1>6, DueIsSeq
<1>12. /\ Len(now) = Len(due) + 1 /\ DOMAIN now = 1..(Len(due) + 1)
       /\ now[Len(due) + 1] = bs[m] /\ \A k \in 1..Len(due) : now[k] = due[k]
    <2>1. bs[m] \in TurnBlock
        <3> HIDE DEF bs, m
        <3> QED BY <1>6, <1>7
    <2> HIDE DEF due, bs, m
    <2>2. now = Append(due, bs[m])
        BY <1>10 DEF due
    <2> HIDE DEF now
    <2> QED BY <1>11, <2>1, <2>2
<1>13. a \in 1..L /\ more[a] = said[a]
    BY <1>3, <1>4
<1>14. InPlace(more, after, a)
    <2> SUFFICES ASSUME NEW k \in DOMAIN now
                 PROVE  a + k \in DOMAIN more /\ more[a + k] = Result(now[k].id)
        BY <1>13 DEF InPlace
    <2>1. L = a + Len(due)
        BY <1>5
    <2> HIDE DEF now, bs, m
    <2>2. CASE k \in 1..Len(due)
        <3>1. InPlace(said, lost, a)
            BY <1>4 DEF Answered, lost
        <3>2. a + k \in DOMAIN said /\ said[a + k] = Result(due[k].id)
            BY <1>5, <1>11, <2>2, <3>1 DEF InPlace, bs
        <3>3. a + k \in DOMAIN more /\ more[a + k] = said[a + k]
            BY <1>3, <3>2
        <3> QED BY <1>12, <2>2, <3>2, <3>3
    <2>3. CASE k = Len(due) + 1
        <3>1. a + k = L + 1
            BY <1>11, <1>13, <1>3, <2>1, <2>3
        <3>2. L + 1 \in DOMAIN more /\ more[L + 1] = Result(ids[1])
            BY <1>2, <1>3
        <3>3. now[k].id = ids[1]
            BY <1>7, <1>12, <2>3
        <3> QED BY <3>1, <3>2, <3>3
    <2>4. k \in 1..Len(due) \/ k = Len(due) + 1
        BY <1>11, <1>12
    <2> QED BY <2>2, <2>3, <2>4
<1>15. \A i \in 1..L : InPlace(more, after, i)
    <2> SUFFICES ASSUME NEW i \in 1..L, i # a PROVE InPlace(more, after, i)
        BY <1>14
    <2>1. InPlace(said, lost, i) /\ i \in DOMAIN said
        BY <1>3 DEF Answered, lost
    <2>2. \A n \in Nat : << i, n >> \in lost <=> << i, n >> \in after
        <3> SUFFICES ASSUME NEW n \in Nat PROVE << i, n >> # ids[1]
            BY <1>8
        <3> QED BY <1>7
    <2> QED BY <1>0, <2>1, <2>2, StaysInPlace DEF more
<1>16. \A i \in DOMAIN more : InPlace(more, after, i)
    <2>1. InPlace(more, after, L + 1)
        BY <1>2, <1>3 DEF InPlace
    <2>2. \A i \in DOMAIN more : i \in 1..L \/ i = L + 1
        BY <1>3
    <2> QED BY <1>15, <2>1, <2>2
<1>17. Numbered(more)
    <2> SUFFICES ASSUME NEW i \in DOMAIN more, IsAssistant(more[i]),
                        NEW n \in DOMAIN more[i].blocks, IsCall(more[i].blocks[n])
                 PROVE  more[i].blocks[n].id = << i, n >>
        BY <1>3 DEF Numbered
    <2>1. i # L + 1
        BY <1>2, <1>3
    <2>2. i \in 1..L
        BY <1>3, <2>1
    <2> QED BY <1>0, <1>3, <2>2 DEF Numbered
<1>18. gone \subseteq (1..Len(more)) \X Nat /\ \A k \in DOMAIN left : left[k] \notin gone
    <2>1. 1..L \subseteq 1..(L + 1)
        BY <1>3
    <2>2. gone \subseteq (1..L) \X Nat /\ \A k \in DOMAIN ids : ids[k] \notin gone
        BY DEF Answered, L
    <2> QED BY <1>1, <1>3, <2>1, <2>2
<1>19. AskedBy(more, left, after, a)
    <2>1. Len(more) = a + Len(now) /\ a \in DOMAIN more
        <3>1. L = a + Len(due) /\ a \in Nat
            BY <1>3, <1>5, <1>13
        <3>2. Len(due) \in Nat /\ Len(now) = Len(due) + 1
            BY <1>11, <1>12
        <3>3. L \in Nat /\ Len(more) = L + 1
            BY <1>3
        <3>4. a \in DOMAIN more
            BY <1>3, <1>13
        <3> HIDE DEF due, now
        <3>5. Len(more) = a + Len(now)
            BY <3>1, <3>2, <3>3
        <3> QED BY <3>4, <3>5
    <2>2. ASSUME NEW k \in DOMAIN left
          PROVE  /\ left[k] = << a, left[k][2] >> /\ left[k][2] \in DOMAIN bs
                 /\ IsCall(bs[left[k][2]])
                 /\ \A n \in Answerable(bs, after) : n < left[k][2]
        <3>1. left[k] = ids[k + 1] /\ k + 1 \in DOMAIN ids /\ m < ids[k + 1][2]
            BY <1>1, <1>5, <2>2
        <3>2. \A n \in Answerable(bs, lost) : n < ids[k + 1][2]
            BY <1>5, <3>1
        <3> QED BY <1>5, <1>9, <3>1, <3>2
    <2>3. \A j, k \in DOMAIN left : j < k => left[j][2] < left[k][2]
        <3> SUFFICES ASSUME NEW j \in DOMAIN left, NEW k \in DOMAIN left, j < k
                     PROVE  left[j][2] < left[k][2]
            OBVIOUS
        <3>1. j + 1 < k + 1 /\ j + 1 \in DOMAIN ids /\ k + 1 \in DOMAIN ids
            BY <1>1
        <3> QED BY <1>1, <1>5, <3>1
    <2> QED BY <1>5, <1>13, <2>1, <2>2, <2>3 DEF AskedBy
<1>20. \E b \in DOMAIN more : AskedBy(more, left, after, b)
    BY <1>3, <1>13, <1>19
<1>21. Answered(more, left, gone)
    BY <1>1, <1>16, <1>17, <1>18, <1>20 DEF Answered, after
<1> QED BY <1>21 DEF more, left, e, id

\* A death loses the open calls.
LEMMA AnsweredDie ==
    ASSUME NEW said, NEW ids, NEW gone, Answered(said, ids, gone)
    PROVE  Answered(said, << >>, gone \cup {ids[k] : k \in DOMAIN ids})
<1> DEFINE all == gone \cup {ids[k] : k \in DOMAIN ids}
           none == << >>
<1>1. none \in Seq(Nat \X Nat) /\ DOMAIN none = {}
    OBVIOUS
<1>2. Lost(none, all) = all /\ Lost(ids, gone) = all
    BY <1>1 DEF Lost
<1>3. \A k \in DOMAIN ids : ids[k] \in (1..Len(said)) \X Nat
    <2> SUFFICES ASSUME NEW k \in DOMAIN ids PROVE ids[k] \in (1..Len(said)) \X Nat
        OBVIOUS
    <2>1. ids \in Seq(Nat \X Nat) /\ said \in Seq(TurnEvent)
        BY DEF Answered, Numbered
    <2>2. ids # << >>
        BY <2>1
    <2>3. PICK a \in DOMAIN said : AskedBy(said, ids, Lost(ids, gone), a)
        BY <2>2 DEF Answered
    <2>4. ids[k] = << a, ids[k][2] >> /\ ids[k] \in Nat \X Nat
        BY <2>1, <2>3 DEF AskedBy
    <2>5. a \in 1..Len(said)
        BY <2>1, <2>3
    <2> QED BY <2>4, <2>5
<1>4. all \subseteq (1..Len(said)) \X Nat
    BY <1>3 DEF Answered
<1> HIDE DEF all
<1>5. Numbered(said) /\ \A i \in DOMAIN said : InPlace(said, Lost(ids, gone), i)
    BY DEF Answered
<1>6. \A i \in DOMAIN said : InPlace(said, Lost(none, all), i)
    BY <1>2, <1>5
<1>7. none = << >>
    OBVIOUS
<1> HIDE DEF none
<1>8. Answered(said, none, all)
    BY <1>1, <1>4, <1>5, <1>6, <1>7 DEF Answered
<1> QED BY <1>7, <1>8 DEF all

\* What a step appends of the exchange.
IsSpoken(e) == e.type \notin {"title", "todo_state"}

LEMMA SpokenAppend ==
    ASSUME NEW events \in Seq(TurnEvent), NEW e \in TurnEvent
    PROVE  Spoken(Append(events, e)) =
               IF IsSpoken(e) THEN Append(Spoken(events), e) ELSE Spoken(events)
<1> DEFINE more == Append(events, e)
           keep == {n \in DOMAIN events : events[n].type \notin {"title", "todo_state"}}
           now == {n \in DOMAIN more : more[n].type \notin {"title", "todo_state"}}
           L == Len(events)
<1>1. /\ L \in Nat /\ DOMAIN events = 1..L /\ DOMAIN more = 1..(L + 1) /\ more[L + 1] = e
      /\ \A n \in 1..L : more[n] = events[n]
    OBVIOUS
<1>2. L + 1 \in now <=> IsSpoken(e)
    BY <1>1 DEF IsSpoken
<1>3. \A n \in DOMAIN events : n \in now <=> n \in keep
    BY <1>1
<1>4. Spoken(events) = Sift(events, keep) /\ Spoken(more) = Sift(more, now)
    BY DEF Spoken
<1> HIDE DEF keep, now
<1>5. Sift(more, now) = IF L + 1 \in now THEN Append(Sift(events, now), e) ELSE Sift(events, now)
    BY SiftAppend
<1>6. Sift(events, now) = Sift(events, keep)
    BY <1>3, SiftAlike
<1> QED BY <1>2, <1>4, <1>5, <1>6 DEF more

LEMMA SpokenIs ==
    ASSUME NEW events \in Seq(TurnEvent)
    PROVE  Spoken(events) \in Seq(TurnEvent)
<1> DEFINE keep == {n \in DOMAIN events : events[n].type \notin {"title", "todo_state"}}
<1>1. Spoken(events) = Sift(events, keep)
    BY DEF Spoken
<1> HIDE DEF keep
<1>2. Sift(events, keep) \in Seq(TurnEvent)
    BY SiftIs
<1> QED BY <1>1, <1>2

\* The ids of the calls at hand.
OpenIds == [n \in DOMAIN calls |-> calls[n].id]

\* At these steps the last thing said is not his.
Heard ==
    \/ pc \in {"deciding", "running", "recording", "compact", "compacting", "title",
               "title_opening", "titling"}
    \/ pc = "idle" /\ outcome # "died"
    \/ pc = "settling" /\ outcome \in {"replied", "round_limit"}

\* What is true of the log at every step of a turn.
SaidInv ==
    /\ log \in Seq(TurnEvent) /\ reply \in Seq(STRING)
    /\ Spoken(log) # << >>
    /\ Answered(Spoken(log), OpenIds, torn)
    /\ pc = "settling" => outcome \in {"replied", "round_limit", "interrupted", "error"}
    /\ Heard => ~IsUser(Last(Spoken(log)))

\* The blocks of a shape.
LEMMA BlocksAre ==
    ASSUME log \in Seq(TurnEvent), NEW S, NEW shape \in Seq(S)
    PROVE  /\ Blocks(shape) \in Seq(TurnBlock)
           /\ DOMAIN Blocks(shape) = DOMAIN shape
           /\ \A n \in DOMAIN shape :
                  /\ IsCall(Blocks(shape)[n]) <=> IsCallOf(shape[n])
                  /\ IsCallOf(shape[n]) => Blocks(shape)[n].id = CallId(n)
<1> DEFINE bs == Blocks(shape)
           L == Len(shape)
           block(n) == IF IsCallOf(shape[n]) THEN [kind |-> "tool_use", id |-> CallId(n)]
                       ELSE [kind |-> shape[n]]
<1>1. L \in Nat /\ DOMAIN shape = 1..L
    OBVIOUS
<1>2. bs = [n \in 1..L |-> block(n)]
    BY <1>1 DEF Blocks
<1>3. \A n \in 1..L : CallId(n) \in Nat \X Nat
    <2>1. Spoken(log) \in Seq(TurnEvent)
        BY SpokenIs
    <2>2. Len(Spoken(log)) + 1 \in Nat
        BY <2>1
    <2> QED BY <2>2 DEF CallId
<1>4. ASSUME NEW n \in 1..L
      PROVE  /\ block(n) \in TurnBlock
             /\ IsCall(block(n)) <=> IsCallOf(shape[n])
             /\ IsCallOf(shape[n]) => block(n).id = CallId(n)
    <2>1. CASE IsCallOf(shape[n])
        BY <1>3, <2>1 DEF TurnBlock, IsCall
    <2>2. CASE ~IsCallOf(shape[n])
        <3>1. shape[n] \in {"text", "thinking"}
            BY <2>2 DEF IsCallOf
        <3>2. block(n) = [kind |-> shape[n]]
            BY <2>2
        <3> HIDE DEF block
        <3> QED BY <2>2, <3>1, <3>2 DEF TurnBlock, IsCall
    <2> QED BY <2>1, <2>2
<1> HIDE DEF block, bs
<1>5. DOMAIN bs = 1..L /\ \A n \in 1..L : bs[n] = block(n)
    BY <1>2
<1>6. bs \in [1..L -> TurnBlock]
    BY <1>2, <1>4
<1>7. bs \in Seq(TurnBlock)
    BY <1>1, <1>6
<1> QED BY <1>1, <1>4, <1>5, <1>7 DEF bs

\* Of a cut reply no call is kept.
LEMMA KeptAre ==
    ASSUME NEW S, NEW shape \in Seq(S)
    PROVE  /\ KeptOfCut(shape) \in Seq(S)
           /\ \A n \in DOMAIN KeptOfCut(shape) : ~IsCallOf(KeptOfCut(shape)[n])
<1> DEFINE keep == {n \in DOMAIN shape : ~IsCallOf(shape[n])}
           t == Sift(shape, keep)
<1>1. /\ t \in Seq(S)
      /\ \E p \in [1..Len(t) -> keep \cap DOMAIN shape] :
            /\ \A k \in 1..Len(t) : t[k] = shape[p[k]]
            /\ \A j, k \in 1..Len(t) : j < k => p[j] < p[k]
            /\ \A n \in keep \cap DOMAIN shape : \E k \in 1..Len(t) : p[k] = n
    <2> HIDE DEF keep
    <2> QED BY SiftIs
<1>2. KeptOfCut(shape) = t
    BY DEF KeptOfCut
<1> HIDE DEF t
<1>3. PICK p \in [1..Len(t) -> keep \cap DOMAIN shape] : \A k \in 1..Len(t) : t[k] = shape[p[k]]
    BY <1>1
<1>4. \A n \in DOMAIN t : ~IsCallOf(t[n])
    <2> SUFFICES ASSUME NEW n \in DOMAIN t PROVE ~IsCallOf(t[n])
        OBVIOUS
    <2>1. n \in 1..Len(t)
        BY <1>1
    <2>2. p[n] \in keep /\ t[n] = shape[p[n]]
        BY <1>3, <2>1
    <2> QED BY <2>2
<1> QED BY <1>1, <1>2, <1>4


LEMMA LastOfMore ==
    ASSUME NEW S, NEW s \in Seq(S), NEW e \in S
    PROVE  Append(s, e) # << >> /\ Last(Append(s, e)) = e
<1>1. Len(Append(s, e)) = Len(s) + 1 /\ Append(s, e)[Len(s) + 1] = e
    OBVIOUS
<1> QED BY <1>1 DEF Last

LEMMA NoneOpen ==
    ASSUME calls = << >>
    PROVE  OpenIds = << >>
BY DEF OpenIds

\* The calls' ids, as long as the calls are the same.
LEMMA SameIds ==
    ASSUME DOMAIN calls' = DOMAIN calls, \A n \in DOMAIN calls : calls'[n].id = calls[n].id
    PROVE  OpenIds' = OpenIds
BY DEF OpenIds

\* A step that leaves the log as it is.
LEMMA NothingSaid ==
    ASSUME SaidInv, UNCHANGED << log, torn >>, OpenIds' = OpenIds, reply' \in Seq(STRING),
           pc' = "settling" => outcome' \in {"replied", "round_limit", "interrupted", "error"},
           Heard' => ~IsUser(Last(Spoken(log)))
    PROVE  SaidInv'
<1>1. Spoken(log') = Spoken(log)
    OBVIOUS
<1>2. Answered(Spoken(log'), OpenIds', torn')
    BY <1>1 DEF SaidInv
<1>3. log' \in Seq(TurnEvent) /\ Spoken(log') # << >>
    BY <1>1 DEF SaidInv
<1>4. Heard' => ~IsUser(Last(Spoken(log')))
    BY <1>1
<1> QED BY <1>2, <1>3, <1>4 DEF SaidInv

\* A step that appends what is not of the exchange.
LEMMA SomethingNoted ==
    ASSUME SaidInv, NEW e \in {Title, Todo}, log' = Append(log, e), torn' = torn,
           OpenIds' = OpenIds, reply' \in Seq(STRING),
           pc' = "settling" => outcome' \in {"replied", "round_limit", "interrupted", "error"},
           Heard' => ~IsUser(Last(Spoken(log)))
    PROVE  SaidInv'
<1>1. e \in TurnEvent /\ ~IsSpoken(e)
    BY DEF TurnEvent, IsSpoken, Title, Todo
<1>2. log \in Seq(TurnEvent)
    BY DEF SaidInv
<1>3. Spoken(log') = Spoken(log) /\ log' \in Seq(TurnEvent)
    BY <1>1, <1>2, SpokenAppend
<1>4. Answered(Spoken(log'), OpenIds', torn')
    BY <1>3 DEF SaidInv
<1>5. Spoken(log') # << >>
    BY <1>3 DEF SaidInv
<1>6. Heard' => ~IsUser(Last(Spoken(log')))
    BY <1>3
<1> QED BY <1>3, <1>4, <1>5, <1>6 DEF SaidInv

\* A step that appends something of the exchange that asks for nothing.
LEMMA SomethingSaid ==
    ASSUME SaidInv, calls = << >>, NEW e \in TurnEvent, IsSpoken(e),
           IsAssistant(e) => \A n \in DOMAIN e.blocks : ~IsCall(e.blocks[n]),
           log' = Append(log, e), torn' = torn, calls' = << >>, reply' \in Seq(STRING),
           pc' = "settling" => outcome' \in {"replied", "round_limit", "interrupted", "error"},
           Heard' => ~IsUser(e)
    PROVE  SaidInv'
<1>1. log \in Seq(TurnEvent) /\ Spoken(log) \in Seq(TurnEvent)
    BY SpokenIs DEF SaidInv
<1>2. Spoken(log') = Append(Spoken(log), e) /\ log' \in Seq(TurnEvent)
    BY <1>1, SpokenAppend
<1>3. OpenIds = << >> /\ OpenIds' = << >>
    BY NoneOpen DEF OpenIds
<1>4. Answered(Spoken(log'), OpenIds', torn')
    <2>1. Answered(Spoken(log), << >>, torn)
        BY <1>3 DEF SaidInv
    <2>2. Answered(Append(Spoken(log), e), << >>, torn)
        BY <2>1, AnsweredPlain
    <2> QED BY <1>2, <1>3, <2>2
<1>5. Spoken(log') # << >> /\ Last(Spoken(log')) = e
    BY <1>1, <1>2, LastOfMore
<1> QED BY <1>2, <1>4, <1>5 DEF SaidInv

LEMMA StreamBlockSaid ==
    ASSUME FlagInv, SaidInv, StreamBlock
    PROVE  SaidInv'
<1>1. PICK full \in Replies : IsStrictPrefix(reply, full) /\ reply' = Append(reply, full[Len(reply) + 1])
    BY DEF StreamBlock
<1>2. full \in Seq(STRING) /\ reply \in Seq(STRING)
    BY TurnAssumption DEF FlagInv, Replies, SaidInv
<1>3. Len(reply) < Len(full)
    <2>1. /\ Len(reply) \in Nat /\ Len(full) \in Nat /\ Len(reply) <= Len(full) /\ reply # full
          /\ SubSeq(reply, 1, Len(reply)) = SubSeq(full, 1, Len(reply))
        BY <1>1, <1>2 DEF IsStrictPrefix, IsPrefix
    <2>2. SubSeq(reply, 1, Len(reply)) = reply /\ SubSeq(full, 1, Len(full)) = full
        BY <1>2
    <2> QED BY <2>1, <2>2
<1>4. full[Len(reply) + 1] \in STRING
    BY <1>2, <1>3
<1>5. reply' \in Seq(STRING)
    BY <1>1, <1>2, <1>4
<1>6. UNCHANGED << log, torn, calls, pc, outcome >> /\ pc = "streaming"
    BY DEF StreamBlock
<1>7. ~Heard'
    BY <1>6 DEF Heard
<1>8. OpenIds' = OpenIds
    BY <1>6, SameIds
<1> QED BY <1>5, <1>6, <1>7, <1>8, NothingSaid

LEMMA CutSaid ==
    ASSUME SaidInv, calls = << >>, NEW result \in {"interrupted", "error"}, CutReply(result)
    PROVE  SaidInv'
<1>1. /\ pc' = "settling" /\ outcome' = result /\ calls' = << >> /\ torn' = torn /\ reply' = << >>
      /\ log' = IF KeptOfCut(reply) = << >> THEN log
                ELSE Append(log, Assistant(Blocks(KeptOfCut(reply))))
    BY DEF CutReply, Return
<1>2. ~Heard' /\ reply' \in Seq(STRING)
    BY <1>1 DEF Heard
<1>3. OpenIds' = OpenIds
    BY <1>1, SameIds
<1>4. CASE KeptOfCut(reply) = << >>
    BY <1>1, <1>2, <1>3, <1>4, NothingSaid
<1>5. CASE KeptOfCut(reply) # << >>
    <2> DEFINE kept == KeptOfCut(reply)
               e == Assistant(Blocks(kept))
    <2>1. kept \in Seq(STRING) /\ \A n \in DOMAIN kept : ~IsCallOf(kept[n])
        BY KeptAre DEF SaidInv
    <2> HIDE DEF kept
    <2>2. /\ Blocks(kept) \in Seq(TurnBlock) /\ DOMAIN Blocks(kept) = DOMAIN kept
          /\ \A n \in DOMAIN kept : IsCall(Blocks(kept)[n]) <=> IsCallOf(kept[n])
        BY <2>1, BlocksAre DEF SaidInv
    <2>3. e \in TurnEvent
        BY <2>2 DEF TurnEvent
    <2>4. /\ IsSpoken(e) /\ ~IsUser(e) /\ e.blocks = Blocks(kept)
        BY DEF Assistant, IsSpoken, IsUser
    <2>5. \A n \in DOMAIN e.blocks : ~IsCall(e.blocks[n])
        BY <2>1, <2>2, <2>4
    <2>6. log' = Append(log, e)
        BY <1>1, <1>5 DEF kept
    <2> HIDE DEF e
    <2> QED BY <1>1, <1>2, <2>3, <2>4, <2>5, <2>6, SomethingSaid
<1> QED BY <1>4, <1>5

LEMMA StreamEndedSaid ==
    ASSUME FlagInv, SaidInv, calls = << >>, StreamEnded
    PROVE  SaidInv'
<1> DEFINE asks == \E n \in DOMAIN reply : IsCallOf(reply[n])
           says == \E n \in DOMAIN reply : reply[n] = "text"
           full == IF asks \/ says THEN reply ELSE Append(reply, "text")
           Named == STRING \cup {"text"}
           e == Assistant(Blocks(full))
           said == Spoken(log)
<1>1. /\ log' = Append(log, e) /\ reply' = << >> /\ calls' = CallsOf(full) /\ torn' = torn
      /\ IF asks THEN pc' = "deciding" /\ outcome' = outcome
         ELSE pc' = "settling" /\ outcome' = "replied"
    BY DEF StreamEnded, Return
<1>2. full \in Seq(Named)
    <2>1. reply \in Seq(Named)
        BY DEF SaidInv
    <2>2. Append(reply, "text") \in Seq(Named)
        BY <2>1
    <2> QED BY <2>1, <2>2
<1> HIDE DEF full, Named
<1>3. log \in Seq(TurnEvent) /\ said \in Seq(TurnEvent)
    BY SpokenIs DEF SaidInv
<1>4. /\ Blocks(full) \in Seq(TurnBlock) /\ DOMAIN Blocks(full) = DOMAIN full
      /\ \A n \in DOMAIN full :
             /\ IsCall(Blocks(full)[n]) <=> IsCallOf(full[n])
             /\ IsCallOf(full[n]) => Blocks(full)[n].id = CallId(n)
    BY <1>2, <1>3, BlocksAre
<1>5. e \in TurnEvent
    BY <1>4 DEF TurnEvent
<1>6. IsSpoken(e) /\ ~IsUser(e) /\ IsAssistant(e) /\ e.blocks = Blocks(full)
    BY DEF Assistant, IsSpoken, IsUser, IsAssistant
<1> HIDE DEF e
<1>7. Spoken(log') = Append(said, e) /\ log' \in Seq(TurnEvent)
    BY <1>1, <1>3, <1>5, <1>6, SpokenAppend
<1> DEFINE wanted == {n \in DOMAIN full : IsCallOf(full[n])}
<1>8. calls' \in Seq({calls'[n] : n \in DOMAIN calls'}) /\ CallsInOrder(calls', wanted)
    <2> DEFINE cs == CallsOf(full)
    <2>1. cs \in Seq({cs[n] : n \in DOMAIN cs}) /\ CallsInOrder(cs, wanted)
        BY <1>2, CallsOfReply
    <2>2. calls' = cs
        BY <1>1
    <2> HIDE DEF cs, wanted
    <2> QED BY <2>1, <2>2
<1> DEFINE ids == OpenIds'
           C == {calls'[n] : n \in DOMAIN calls'}
           L == Len(said)
<1>9. DOMAIN ids = DOMAIN calls' /\ \A k \in DOMAIN calls' : ids[k] = calls'[k].id
    BY DEF OpenIds
<1>10. ids = [k \in 1..Len(calls') |-> ids[k]] /\ Len(calls') \in Nat /\ DOMAIN calls' = 1..Len(calls')
    <2>1. calls' \in Seq(C)
        BY <1>8
    <2> HIDE DEF C
    <2>2. Len(calls') \in Nat /\ DOMAIN calls' = 1..Len(calls')
        BY <2>1
    <2>3. ids = [k \in DOMAIN calls' |-> ids[k]]
        BY DEF OpenIds
    <2> QED BY <2>2, <2>3
<1>11. L \in Nat /\ \A n : CallId(n) = << L + 1, n >>
    BY <1>3 DEF CallId
<1> HIDE DEF ids, L
<1>12. ASSUME NEW k \in DOMAIN ids
       PROVE  /\ ids[k] = << L + 1, ids[k][2] >>
              /\ ids[k][2] \in DOMAIN e.blocks /\ IsCall(e.blocks[ids[k][2]])
    <2>1. ids[k][2] \in wanted /\ ids[k] = CallId(ids[k][2])
        BY <1>8, <1>9 DEF CallsInOrder
    <2> QED BY <1>4, <1>6, <1>11, <2>1
<1>13. \A j, k \in DOMAIN ids : j < k => ids[j][2] < ids[k][2]
    BY <1>8, <1>9 DEF CallsInOrder
<1>14. ASSUME NEW n \in DOMAIN e.blocks, IsCall(e.blocks[n])
       PROVE  /\ e.blocks[n].id = << L + 1, n >>
              /\ \E k \in DOMAIN ids : ids[k] = << L + 1, n >>
    <2>1. n \in wanted /\ e.blocks[n].id = CallId(n)
        BY <1>4, <1>6, <1>14
    <2>2. \E k \in DOMAIN calls' : calls'[k].id = CallId(n)
        BY <1>8, <2>1 DEF CallsInOrder
    <2> QED BY <1>9, <1>11, <2>1, <2>2
<1>15. ids \in Seq(Nat \X Nat)
    <2>1. \A k \in DOMAIN ids : ids[k] \in Nat \X Nat
        <3> SUFFICES ASSUME NEW k \in DOMAIN ids PROVE ids[k] \in Nat \X Nat
            OBVIOUS
        <3>1. ids[k] = << L + 1, ids[k][2] >> /\ ids[k][2] \in DOMAIN full
            BY <1>4, <1>6, <1>12
        <3>2. ids[k][2] \in Nat
            BY <1>2, <3>1
        <3> QED BY <1>11, <3>1, <3>2
    <2>2. ids \in [1..Len(calls') -> Nat \X Nat]
        BY <1>9, <1>10, <2>1
    <2> QED BY <1>10, <2>2
<1>16. Answered(said, << >>, torn)
    BY NoneOpen DEF SaidInv
<1>17. Answered(Append(said, e), ids, torn)
    BY <1>5, <1>6, <1>12, <1>13, <1>14, <1>15, <1>16, AnsweredMore DEF L
<1>18. Answered(Spoken(log'), OpenIds', torn')
    BY <1>1, <1>7, <1>17 DEF ids
<1>19. Spoken(log') # << >> /\ Last(Spoken(log')) = e
    BY <1>3, <1>5, <1>7, LastOfMore
<1>20. reply' \in Seq(STRING)
    BY <1>1
<1> QED BY <1>1, <1>6, <1>7, <1>18, <1>19, <1>20 DEF SaidInv

LEMMA RecordResultSaid ==
    ASSUME CallsInv, SaidInv, RecordResult
    PROVE  SaidInv'
<1> DEFINE e == Result(Head(calls).id)
<1>1. /\ pc' = "recording" /\ calls # << >> /\ log' = Append(log, e) /\ calls' = Tail(calls)
      /\ UNCHANGED << reply, outcome, torn >>
    BY DEF RecordResult
<1>2. log \in Seq(TurnEvent) /\ Spoken(log) \in Seq(TurnEvent)
    BY SpokenIs DEF SaidInv
<1>3. /\ OpenIds \in Seq(Nat \X Nat) /\ OpenIds # << >>
      /\ Head(OpenIds) = Head(calls).id /\ Tail(OpenIds) = OpenIds'
    <2> DEFINE C == {calls[n] : n \in DOMAIN calls}
               ids == OpenIds
    <2>1. calls \in Seq(C)
        BY DEF CallsInv, CallsShape
    <2> HIDE DEF C
    <2>2. /\ Len(calls) \in Nat /\ DOMAIN calls = 1..Len(calls) /\ Head(calls) = calls[1]
          /\ Len(calls) # 0 /\ 1 \in DOMAIN calls
          /\ DOMAIN calls' = 1..(Len(calls) - 1)
          /\ \A k \in 1..(Len(calls) - 1) : calls'[k] = calls[k + 1] /\ k + 1 \in DOMAIN calls
        BY <1>1, <2>1
    <2>3. ids \in Seq(Nat \X Nat)
        BY DEF SaidInv, Answered
    <2>4. DOMAIN ids = DOMAIN calls /\ \A k \in DOMAIN calls : ids[k] = calls[k].id
        BY DEF OpenIds
    <2>5. OpenIds' = [k \in 1..(Len(calls) - 1) |-> ids[k + 1]]
        BY <2>2, <2>4 DEF OpenIds
    <2> HIDE DEF ids
    <2>6. Len(ids) = Len(calls) /\ ids # << >> /\ Head(ids) = ids[1]
        BY <2>2, <2>3, <2>4
    <2>7. Tail(ids) = [k \in 1..(Len(ids) - 1) |-> ids[k + 1]]
        <3>1. /\ Tail(ids) \in Seq(Nat \X Nat) /\ Len(Tail(ids)) = Len(ids) - 1
              /\ \A k \in 1..(Len(ids) - 1) : Tail(ids)[k] = ids[k + 1]
            BY <2>3, <2>6
        <3> DEFINE t == Tail(ids)
        <3>2. t \in Seq(Nat \X Nat) /\ Len(t) = Len(ids) - 1
            BY <3>1
        <3>3. \A k \in 1..(Len(ids) - 1) : t[k] = ids[k + 1]
            BY <3>1
        <3> HIDE DEF t
        <3>4. t = [k \in 1..(Len(ids) - 1) |-> t[k]]
            BY <3>2
        <3>5. t = [k \in 1..(Len(ids) - 1) |-> ids[k + 1]]
            BY <3>3, <3>4
        <3> QED BY <3>5 DEF t
    <2>8. Tail(ids) = OpenIds' /\ Head(ids) = Head(calls).id
        BY <2>2, <2>4, <2>5, <2>6, <2>7
    <2> QED BY <2>3, <2>6, <2>8 DEF ids
<1>4. e \in TurnEvent
    <2>1. Head(OpenIds) \in Nat \X Nat
        BY <1>3
    <2>2. Head(calls).id \in Nat \X Nat
        BY <1>3, <2>1
    <2> QED BY <2>2 DEF TurnEvent
<1>5. IsSpoken(e) /\ ~IsUser(e)
    BY DEF IsSpoken, IsUser, Result
<1>6. Answered(Append(Spoken(log), e), OpenIds', torn)
    <2>1. Answered(Spoken(log), OpenIds, torn)
        BY DEF SaidInv
    <2> DEFINE ids == OpenIds
               said == Spoken(log)
    <2>2. Answered(said, ids, torn) /\ ids # << >>
        BY <1>3, <2>1
    <2> HIDE DEF ids, said
    <2>3. Answered(Append(said, Result(Head(ids))), Tail(ids), torn)
        BY <2>2, AnsweredResult
    <2> QED BY <1>3, <2>3 DEF ids, said
<1> HIDE DEF e
<1>7. Spoken(log') = Append(Spoken(log), e) /\ log' \in Seq(TurnEvent)
    BY <1>1, <1>2, <1>4, <1>5, SpokenAppend
<1>8. Answered(Spoken(log'), OpenIds', torn')
    BY <1>1, <1>6, <1>7
<1>9. Spoken(log') # << >> /\ Last(Spoken(log')) = e
    BY <1>2, <1>4, <1>7, LastOfMore
<1>10. pc' # "settling" /\ reply' \in Seq(STRING)
    BY <1>1 DEF SaidInv
<1> QED BY <1>5, <1>7, <1>8, <1>9, <1>10 DEF SaidInv

LEMMA DieSaid ==
    ASSUME SaidInv, Die
    PROVE  SaidInv'
<1>1. /\ log' = log /\ calls' = << >> /\ reply' = << >> /\ pc' = "idle" /\ outcome' = "died"
      /\ torn' = torn \cup {calls[n].id : n \in DOMAIN calls}
    BY DEF Die
<1>2. OpenIds' = << >>
    BY <1>1 DEF OpenIds
<1>3. torn' = torn \cup {OpenIds[n] : n \in DOMAIN OpenIds}
    BY <1>1 DEF OpenIds
<1>4. Answered(Spoken(log'), OpenIds', torn')
    <2>1. Answered(Spoken(log), OpenIds, torn)
        BY DEF SaidInv
    <2> DEFINE ids == OpenIds
    <2>2. Answered(Spoken(log), ids, torn)
        BY <2>1
    <2> HIDE DEF ids
    <2>3. Answered(Spoken(log), << >>, torn \cup {ids[n] : n \in DOMAIN ids})
        BY <2>2, AnsweredDie
    <2>4. Answered(Spoken(log), << >>, torn')
        BY <1>3, <2>3 DEF ids
    <2> QED BY <1>1, <1>2, <2>4
<1>5. ~Heard'
    BY <1>1 DEF Heard
<1>6. reply' \in Seq(STRING) /\ pc' # "settling" /\ log' \in Seq(TurnEvent) /\ Spoken(log') # << >>
    BY <1>1 DEF SaidInv
<1> QED BY <1>4, <1>5, <1>6 DEF SaidInv

LEMMA SettleSaid ==
    ASSUME SaidInv, calls = << >>, Settle
    PROVE  SaidInv'
<1>1. /\ pc = "settling" /\ pc' # "settling" /\ UNCHANGED << reply, calls, outcome, torn >>
      /\ log' = IF Unanswered(log) THEN Append(log, StandIn) ELSE log
      /\ outcome \in {"replied", "round_limit", "interrupted", "error"}
    BY DEF Settle, SaidInv, AfterReply
<1>2. reply' \in Seq(STRING) /\ OpenIds' = OpenIds /\ calls' = << >>
    BY <1>1, SameIds DEF SaidInv
<1>3. CASE Unanswered(log)
    <2> DEFINE e == StandIn
    <2>1. e \in TurnEvent /\ IsSpoken(e) /\ ~IsUser(e)
        BY DEF TurnEvent, StandIn, IsSpoken, IsUser
    <2>2. \A n \in DOMAIN e.blocks : ~IsCall(e.blocks[n])
        BY DEF StandIn, IsCall
    <2>3. log' = Append(log, e)
        BY <1>1, <1>3
    <2> HIDE DEF e
    <2> QED BY <1>1, <1>2, <2>1, <2>2, <2>3, SomethingSaid
<1>4. CASE ~Unanswered(log)
    <2>1. ~IsUser(Last(Spoken(log)))
        <3>1. CASE outcome \in {"replied", "round_limit"}
            BY <1>1, <3>1 DEF SaidInv, Heard
        <3>2. CASE outcome \in {"interrupted", "error"}
            BY <1>4, <3>2 DEF Unanswered
        <3> QED BY <1>1, <3>1, <3>2
    <2> QED BY <1>1, <1>2, <1>4, <2>1, NothingSaid
<1> QED BY <1>3, <1>4

LEMMA EndRoundSaid ==
    ASSUME SaidInv, EndRound
    PROVE  SaidInv'
<1>1. /\ pc = "recording" /\ UNCHANGED << reply, calls, torn >>
      /\ log' = IF noted THEN Append(log, Todo) ELSE log
      /\ pc' = "settling" => outcome' = "round_limit"
    BY DEF EndRound
<1>2. reply' \in Seq(STRING) /\ OpenIds' = OpenIds
    BY <1>1, SameIds DEF SaidInv
<1>3. ~IsUser(Last(Spoken(log)))
    BY <1>1 DEF SaidInv, Heard
<1> QED BY <1>1, <1>2, <1>3, NothingSaid, SomethingNoted

\* His message, the summary and the name.
LEMMA RunTurnSaid ==
    ASSUME SaidInv, calls = << >>, RunTurn
    PROVE  SaidInv'
<1> DEFINE e == UserMsg("said", 0)
<1>1. /\ pc' = "round" /\ log' = Append(log, e) /\ UNCHANGED << reply, calls, torn >>
    BY DEF RunTurn
<1>2. e \in TurnEvent /\ IsSpoken(e) /\ ~IsAssistant(e)
    BY DEF TurnEvent, UserMsg, IsSpoken, IsAssistant
<1>3. ~Heard' /\ reply' \in Seq(STRING)
    BY <1>1 DEF Heard, SaidInv
<1> HIDE DEF e
<1> QED BY <1>1, <1>2, <1>3, SomethingSaid

LEMMA CompactSaid ==
    ASSUME SaidInv, calls = << >>, Compact
    PROVE  SaidInv'
<1> DEFINE e == Compaction
<1>1. /\ pc' # "settling" /\ log' = Append(log, e) /\ UNCHANGED << reply, calls, torn >>
    BY DEF Compact, Go, AfterReply
<1>2. e \in TurnEvent /\ IsSpoken(e) /\ ~IsAssistant(e) /\ ~IsUser(e)
    BY DEF TurnEvent, Compaction, IsSpoken, IsAssistant, IsUser
<1>3. reply' \in Seq(STRING)
    BY <1>1 DEF SaidInv
<1> HIDE DEF e
<1> QED BY <1>1, <1>2, <1>3, SomethingSaid

LEMMA NameChatSaid ==
    ASSUME SaidInv, NameChat
    PROVE  SaidInv'
<1>1. /\ pc = "titling" /\ pc' = "idle" /\ log' = Append(log, Title)
      /\ UNCHANGED << reply, calls, torn >>
    BY DEF NameChat, Go
<1>2. reply' \in Seq(STRING) /\ OpenIds' = OpenIds
    BY <1>1, SameIds DEF SaidInv
<1>3. ~IsUser(Last(Spoken(log)))
    BY <1>1 DEF SaidInv, Heard
<1> QED BY <1>1, <1>2, <1>3, SomethingNoted

\* The steps within a round leave the calls' ids.
LEMMA RoundIds ==
    ASSUME CallsInv,
           \/ \E answer \in {"allowed", "refused"} : Decide(answer)
           \/ StartNext \/ RoundRun
           \/ \E n \in DOMAIN calls : ToolReturns(n)
    PROVE  OpenIds' = OpenIds
<1>1. CallsShape
    BY DEF CallsInv
<1>2. ASSUME NEW S \in SUBSET DOMAIN calls, NEW v,
             calls' = [n \in DOMAIN calls |->
                          IF n \in S THEN [calls[n] EXCEPT !.at = v] ELSE calls[n]]
      PROVE  OpenIds' = OpenIds
    <2>1. DOMAIN calls' = DOMAIN calls /\ \A n \in DOMAIN calls : calls'[n].id = calls[n].id
        BY <1>1, <1>2, CallsGoOn
    <2> QED BY <2>1, SameIds
<1>3. ASSUME NEW n \in DOMAIN calls, NEW v, calls' = [calls EXCEPT ![n].at = v]
      PROVE  OpenIds' = OpenIds
    <2>1. calls' = [i \in DOMAIN calls |->
                        IF i \in {n} THEN [calls[i] EXCEPT !.at = v] ELSE calls[i]]
        BY <1>3
    <2>2. {n} \in SUBSET DOMAIN calls
        OBVIOUS
    <2> QED BY <1>2, <2>1, <2>2
<1>4. CASE \E answer \in {"allowed", "refused"} : Decide(answer)
    <2>1. PICK answer \in {"allowed", "refused"} : Decide(answer)
        BY <1>4
    <2>2. PICK n \in DOMAIN calls : calls' = [calls EXCEPT ![n].at = answer]
        BY <2>1 DEF Decide
    <2> QED BY <1>3, <2>2
<1>5. CASE StartNext
    <2>1. PICK first \in DOMAIN calls :
              calls' = [n \in DOMAIN calls |->
                    IF n \in Batch(first) THEN [calls[n] EXCEPT !.at = "running"]
                    ELSE calls[n]]
        BY <1>5 DEF StartNext
    <2> DEFINE S == Batch(first) \cap DOMAIN calls
    <2>2. calls' = [n \in DOMAIN calls |->
                    IF n \in S THEN [calls[n] EXCEPT !.at = "running"] ELSE calls[n]]
        BY <2>1
    <2>3. S \in SUBSET DOMAIN calls
        OBVIOUS
    <2> HIDE DEF S
    <2> QED BY <1>2, <2>2, <2>3
<1>6. CASE RoundRun
    BY <1>6, SameIds DEF RoundRun
<1>7. CASE \E n \in DOMAIN calls : ToolReturns(n)
    <2>1. PICK n \in DOMAIN calls : calls' = [calls EXCEPT ![n].at = "done"]
        BY <1>7 DEF ToolReturns
    <2> QED BY <1>3, <2>1
<1> QED BY <1>4, <1>5, <1>6, <1>7

LEMMA RoundSaid ==
    ASSUME CallsInv, SaidInv,
           \/ \E answer \in {"allowed", "refused"} : Decide(answer)
           \/ StartNext \/ RoundRun
           \/ \E n \in DOMAIN calls : ToolReturns(n)
    PROVE  SaidInv'
<1>1. /\ pc \in {"deciding", "running"} /\ pc' # "settling" /\ UNCHANGED << log, torn, reply, outcome >>
    BY DEF Decide, StartNext, RoundRun, ToolReturns
<1>2. OpenIds' = OpenIds
    BY RoundIds
<1>3. ~IsUser(Last(Spoken(log))) /\ reply' \in Seq(STRING)
    BY <1>1 DEF SaidInv, Heard
<1> QED BY <1>1, <1>2, <1>3, NothingSaid

\* The other steps that leave the log.
LEMMA QuietSaid ==
    ASSUME SaidInv,
           \/ Stop \/ OpenRequest \/ StopBeforeReply \/ RequestOpened \/ RequestFailed
           \/ OpenCompaction \/ LeaveUncompacted \/ OpenTitle \/ TitleOpened \/ LeaveUnnamed
           \/ UNCHANGED turnVars
    PROVE  SaidInv'
<1>1. /\ UNCHANGED << log, torn, calls, reply >>
      /\ \/ UNCHANGED << pc, outcome >>
         \/ pc' = "settling" /\ outcome' \in {"interrupted", "error"}
         \/ pc' \in {"opening", "streaming"}
         \/ /\ pc \in {"compact", "compacting", "title", "title_opening", "titling"}
            /\ pc' # "settling"
    BY DEF Stop, OpenRequest, StopBeforeReply, RequestOpened, RequestFailed, OpenCompaction,
           LeaveUncompacted, OpenTitle, TitleOpened, LeaveUnnamed, turnVars, Return, Go, AfterReply
<1>2. OpenIds' = OpenIds
    BY <1>1, SameIds
<1>3. reply' \in Seq(STRING)
    BY <1>1 DEF SaidInv
<1>4. pc' = "settling" => outcome' \in {"replied", "round_limit", "interrupted", "error"}
    BY <1>1 DEF SaidInv
<1>5. Heard' => ~IsUser(Last(Spoken(log)))
    BY <1>1 DEF SaidInv, Heard
<1> QED BY <1>1, <1>2, <1>3, <1>4, <1>5, NothingSaid

LEMMA SaidInvIsKept == FlagInv /\ CallsInv /\ SaidInv /\ [TurnNext]_turnVars => SaidInv'
<1> SUFFICES ASSUME FlagInv, CallsInv, SaidInv, [TurnNext]_turnVars PROVE SaidInv'
    OBVIOUS
<1>1. pc \notin {"deciding", "running", "recording"} => calls = << >>
    BY DEF CallsInv, CallsSoFar
<1>2. CASE RunTurn
    <2>1. calls = << >>
        BY <1>1, <1>2 DEF RunTurn
    <2> QED BY <1>2, <2>1, RunTurnSaid
<1>3. CASE Die
    BY <1>3, DieSaid
<1>4. CASE StreamBlock
    BY <1>4, StreamBlockSaid
<1>5. CASE StopInStream \/ StreamFailed
    <2>1. calls = << >> /\ (CutReply("interrupted") \/ CutReply("error"))
        BY <1>1, <1>5 DEF StopInStream, StreamFailed
    <2> QED BY <2>1, CutSaid
<1>6. CASE StreamEnded
    <2>1. calls = << >>
        BY <1>1, <1>6 DEF StreamEnded
    <2> QED BY <1>6, <2>1, StreamEndedSaid
<1>7. CASE RecordResult
    BY <1>7, RecordResultSaid
<1>8. CASE EndRound
    BY <1>8, EndRoundSaid
<1>9. CASE Settle
    <2>1. calls = << >>
        BY <1>1, <1>9 DEF Settle
    <2> QED BY <1>9, <2>1, SettleSaid
<1>10. CASE Compact
    <2>1. calls = << >>
        BY <1>1, <1>10 DEF Compact
    <2> QED BY <1>10, <2>1, CompactSaid
<1>11. CASE NameChat
    BY <1>11, NameChatSaid
<1>12. CASE \/ \E answer \in {"allowed", "refused"} : Decide(answer)
            \/ StartNext \/ RoundRun
            \/ \E n \in DOMAIN calls : ToolReturns(n)
    BY <1>12, RoundSaid
<1>13. CASE \/ Stop \/ OpenRequest \/ StopBeforeReply \/ RequestOpened \/ RequestFailed
            \/ OpenCompaction \/ LeaveUncompacted \/ OpenTitle \/ TitleOpened \/ LeaveUnnamed
            \/ UNCHANGED turnVars
    BY <1>13, QuietSaid
<1> QED BY <1>2, <1>3, <1>4, <1>5, <1>6, <1>7, <1>8, <1>9, <1>10, <1>11, <1>12, <1>13
        DEF TurnNext, EngineStep, ProviderStep

\* The exchange of a log with one event of it.
LEMMA SpokenAtFirst ==
    ASSUME NEW e \in TurnEvent, IsSpoken(e)
    PROVE  Spoken(<< e >>) = << e >>
<1> DEFINE none == << >>
           keep == {n \in DOMAIN none : none[n].type \notin {"title", "todo_state"}}
<1>1. /\ none \in Seq(TurnEvent) /\ DOMAIN none = {} /\ Len(none) = 0
      /\ Append(none, e) = << e >>
    OBVIOUS
<1>2. Spoken(none) = Sift(none, keep)
    BY DEF Spoken
<1> HIDE DEF none, keep
<1>3. PICK f : SiftsBy(none, keep, f)
    BY <1>1, Sifting
<1>4. Spoken(none) = << >>
    BY <1>1, <1>2, <1>3 DEF SiftsBy
<1>5. Spoken(Append(none, e)) = Append(Spoken(none), e)
    BY <1>1, SpokenAppend
<1> QED BY <1>1, <1>4, <1>5

LEMMA SaidInvHolds == TurnInit => SaidInv
<1> SUFFICES ASSUME TurnInit PROVE SaidInv
    OBVIOUS
<1> DEFINE e == Created("build")
           none == << >>
<1>1. /\ log = << e >> /\ pc = "idle" /\ outcome = "none" /\ calls = << >> /\ reply = << >>
      /\ torn = {}
    BY DEF TurnInit
<1>2. e \in TurnEvent /\ IsSpoken(e) /\ ~IsAssistant(e) /\ ~IsUser(e)
    BY DEF TurnEvent, Created, IsSpoken, IsAssistant, IsUser
<1> HIDE DEF e
<1>3. none \in Seq(TurnEvent) /\ none \in Seq(Nat \X Nat) /\ DOMAIN none = {} /\ Len(none) = 0
      /\ log = Append(none, e) /\ log \in Seq(TurnEvent) /\ none = << >>
    BY <1>1, <1>2
<1> HIDE DEF none
<1>4. Spoken(log) = Append(none, e)
    BY <1>1, <1>2, <1>3, SpokenAtFirst
<1>5. Answered(none, << >>, {})
    BY <1>3 DEF Answered, Numbered
<1>6. Answered(Spoken(log), OpenIds, torn)
    <2>1. Answered(Append(none, e), << >>, {})
        BY <1>2, <1>5, AnsweredPlain
    <2> QED BY <1>1, <1>4, <2>1, NoneOpen
<1>7. Spoken(log) # << >> /\ Last(Spoken(log)) = e
    BY <1>2, <1>3, <1>4, LastOfMore
<1>8. reply \in Seq(STRING)
    BY <1>1
<1> QED BY <1>1, <1>2, <1>3, <1>6, <1>7, <1>8 DEF SaidInv

LEMMA SaidInvGives ==
    ASSUME CallsInv, SaidInv
    PROVE  EverythingIsAnswered
<1>1. NothingLeftUnanswered
    BY DEF SaidInv, Heard, NothingLeftUnanswered
<1>2. CallsAreAnswered
    <2> DEFINE said == Spoken(log)
    <2> SUFFICES ASSUME pc \in {"idle", "round", "opening", "streaming", "settling"},
                        NEW i \in DOMAIN said, IsAssistant(said[i]),
                        NEW k \in DOMAIN Due(said[i].blocks, torn)
                 PROVE  i + k \in DOMAIN said /\ said[i + k] = Result(Due(said[i].blocks, torn)[k].id)
        BY DEF CallsAreAnswered, Due, Answerable
    <2>1. OpenIds = << >>
        BY NoneOpen DEF CallsInv, CallsSoFar
    <2>2. Lost(OpenIds, torn) = torn
        BY <2>1 DEF Lost
    <2>3. InPlace(said, torn, i)
        BY <2>2 DEF SaidInv, Answered
    <2> HIDE DEF said
    <2> QED BY <2>3 DEF InPlace
<1> QED BY <1>1, <1>2 DEF EverythingIsAnswered

\* Every call the engine records has its result right after the reply, in call
\* order, and every message an answer, whatever the replies ask for and wherever
\* the turn is stopped or fails: only a death of the process leaves one without
\* (turn.rs, execute: "an interrupted round still finishes"; record_unanswered).
THEOREM AllIsAnswered == TurnSpec => []EverythingIsAnswered
<1>1. TurnSpec => []SaidInv
    BY SaidInvHolds, SaidInvIsKept, TurnInvAlways, PTL DEF TurnSpec
<1> QED BY <1>1, SaidInvGives, TurnInvAlways, PTL

-----------------------------------------------------------------------------
(***************************************************************************)
(* Turn as SessionLog sees it: the conversation it summarises has a reply. *)
(***************************************************************************)

\* FlattenSeq and the pass of the projection, step by step.
LEMMA FlattenSteps ==
    ASSUME NEW S, NEW ss \in Seq(Seq(S))
    PROVE  \E f : /\ DOMAIN f = 0..Len(ss)
                  /\ f[0] = << >>
                  /\ \A n \in 1..Len(ss) : f[n] = f[n - 1] \o ss[n]
                  /\ Exchange!FlattenSeq(ss) = f[Len(ss)]
<1> DEFINE Val(f, n) == IF n = 1 THEN ss[n] ELSE f[n - 1] \o ss[n]
           Ok(f, m) == f = [n \in 1..m |-> Val(f, n)]
           G == {m \in 0..Len(ss) : \E f : Ok(f, m)}
           flat == CHOOSE f : Ok(f, Len(ss))
<1>0. Len(ss) \in Nat
    OBVIOUS
<1>1. 0 \in G
    <2>1. Ok([n \in 1..0 |-> << >>], 0)
        OBVIOUS
    <2> HIDE DEF Ok
    <2> QED BY <1>0, <2>1
<1>2. ASSUME NEW m \in 0..(Len(ss) - 1), m \in G
      PROVE  m + 1 \in G
    <2>1. PICK f : Ok(f, m)
        BY <1>2
    <2> DEFINE g == [n \in 1..(m + 1) |-> IF n = m + 1 THEN Val(f, n) ELSE f[n]]
    <2>2. \A n \in 1..(m + 1) : g[n] = Val(g, n)
        <3>1. \A n \in 1..m : f[n] = Val(f, n)
            BY <2>1
        <3>2. \A n \in 1..m : n \in 1..(m + 1) /\ n # m + 1
            BY <1>0
        <3>3. \A n \in 1..m : g[n] = f[n]
            BY <3>2
        <3>4. \A n \in 1..(m + 1) : n = 1 \/ n - 1 \in 1..m
            BY <1>0
        <3>5. \A n \in 1..(m + 1) : Val(g, n) = Val(f, n)
            BY <1>0, <3>3, <3>4
        <3>6. g[m + 1] = Val(f, m + 1)
            BY <1>0
        <3> HIDE DEF g, Val
        <3>7. \A n \in 1..(m + 1) : n \in 1..m \/ n = m + 1
            BY <1>0
        <3> QED BY <3>1, <3>3, <3>5, <3>6, <3>7
    <2>3. Ok(g, m + 1)
        <3> HIDE DEF Val
        <3>1. g = [n \in 1..(m + 1) |-> g[n]]
            OBVIOUS
        <3> HIDE DEF g
        <3> QED BY <2>2, <3>1
    <2> HIDE DEF Ok, g
    <2> QED BY <1>0, <2>3
<1>3. Len(ss) \in G
    <2> HIDE DEF G
    <2>1. 0..Len(ss) \subseteq G
        BY <1>0, <1>1, <1>2, UpTo
    <2> QED BY <1>0, <2>1
<1>4. Ok(flat, Len(ss))
    <2> HIDE DEF Ok
    <2> QED BY <1>3
<1>5. Len(ss) # 0 => Exchange!FlattenSeq(ss) = flat[Len(ss)]
    BY DEF Exchange!FlattenSeq
<1> HIDE DEF flat
<1>6. \A n \in 1..Len(ss) : flat[n] = Val(flat, n)
    BY <1>4
<1> DEFINE h == [n \in 0..Len(ss) |-> IF n = 0 THEN << >> ELSE flat[n]]
<1>7. \A n \in 1..Len(ss) : n \in 0..Len(ss) /\ n # 0 /\ n - 1 \in 0..Len(ss) /\ ss[n] \in Seq(S)
    BY <1>0
<1>8. h[0] = << >>
    BY <1>0
<1>9. \A n \in 1..Len(ss) : h[n] = h[n - 1] \o ss[n]
    <2> SUFFICES ASSUME NEW n \in 1..Len(ss) PROVE h[n] = h[n - 1] \o ss[n]
        OBVIOUS
    <2>1. h[n] = flat[n] /\ flat[n] = Val(flat, n) /\ ss[n] \in Seq(S)
        BY <1>6, <1>7
    <2>2. CASE n = 1
        <3>1. h[n - 1] = << >>
            BY <1>8, <2>2
        <3>2. << >> \o ss[n] = ss[n]
            BY <2>1
        <3> QED BY <2>1, <2>2, <3>1, <3>2
    <2>3. CASE n # 1
        <3>1. n - 1 # 0 /\ n - 1 \in 0..Len(ss)
            BY <1>0, <2>3
        <3>2. h[n - 1] = flat[n - 1]
            BY <3>1
        <3> QED BY <2>1, <2>3, <3>2
    <2> QED BY <2>2, <2>3
<1>10. Exchange!FlattenSeq(ss) = h[Len(ss)]
    <2>1. CASE Len(ss) = 0
        <3>1. Exchange!FlattenSeq(ss) = ss
            BY <2>1 DEF Exchange!FlattenSeq
        <3> QED BY <1>8, <2>1, <3>1
    <2>2. CASE Len(ss) # 0
        BY <1>0, <1>5, <2>2
    <2> QED BY <2>1, <2>2
<1>11. DOMAIN h = 0..Len(ss)
    OBVIOUS
<1> HIDE DEF h
<1> QED BY <1>8, <1>9, <1>10, <1>11

LEMMA PassSteps ==
    ASSUME NEW its, Len(its) \in Nat
    PROVE  /\ DOMAIN Exchange!PassOver(its) = 0..Len(its)
           /\ Exchange!PassOver(its)[0] = [ms |-> << >>, told |-> Exchange!BornKind(its), switch |-> 0]
           /\ \A i \in 1..Len(its) :
                 Exchange!PassOver(its)[i] =
                     IF i \in Exchange!Live(its)
                     THEN Exchange!StepAt(its, Exchange!Live(its), Exchange!ElidedIn(its, Exchange!Live(its)),
                                 Exchange!RemovedCalls(its, Exchange!Live(its)), Exchange!PassOver(its)[i - 1], i)
                     ELSE Exchange!PassOver(its)[i - 1]
<1> DEFINE St(st, i) == Exchange!StepAt(its, Exchange!Live(its), Exchange!ElidedIn(its, Exchange!Live(its)),
                               Exchange!RemovedCalls(its, Exchange!Live(its)), st, i)
           start == [ms |-> << >>, told |-> Exchange!BornKind(its), switch |-> 0]
           Val(f, n) == IF n = 0 THEN start
                        ELSE IF n \in Exchange!Live(its) THEN St(f[n - 1], n) ELSE f[n - 1]
           Ok(f, m) == f = [n \in 0..m |-> Val(f, n)]
           G == {m \in 0..Len(its) : \E f : Ok(f, m)}
           pass == CHOOSE f : Ok(f, Len(its))
<1> HIDE DEF St, start
<1>1. 0 \in G
    <2>1. Ok([n \in 0..0 |-> start], 0)
        OBVIOUS
    <2> HIDE DEF Ok
    <2> QED BY <2>1
<1>2. ASSUME NEW m \in 0..(Len(its) - 1), m \in G
      PROVE  m + 1 \in G
    <2>1. PICK f : Ok(f, m)
        BY <1>2
    <2> DEFINE g == [n \in 0..(m + 1) |-> IF n = m + 1 THEN Val(f, n) ELSE f[n]]
    <2>2. \A n \in 0..(m + 1) : g[n] = Val(g, n)
        <3>1. \A n \in 0..m : f[n] = Val(f, n)
            BY <2>1
        <3>2. \A n \in 0..m : n \in 0..(m + 1) /\ n # m + 1
            OBVIOUS
        <3>3. \A n \in 0..m : g[n] = f[n]
            BY <3>2
        <3>4. \A n \in 1..(m + 1) : n - 1 \in 0..m
            OBVIOUS
        <3>5. \A n \in 0..(m + 1) : Val(g, n) = Val(f, n)
            BY <3>3, <3>4
        <3> QED BY <3>1, <3>3, <3>5
    <2>3. Ok(g, m + 1)
        <3> HIDE DEF Val
        <3>1. g = [n \in 0..(m + 1) |-> g[n]]
            OBVIOUS
        <3> HIDE DEF g
        <3> QED BY <2>2, <3>1
    <2> HIDE DEF Ok, g
    <2> QED BY <2>3
<1>3. Len(its) \in G
    <2> HIDE DEF G
    <2>1. 0..Len(its) \subseteq G
        BY <1>1, <1>2, UpTo
    <2> QED BY <2>1
<1>4. Ok(pass, Len(its))
    <2> HIDE DEF Ok
    <2> QED BY <1>3
<1>5. Exchange!PassOver(its) = pass
    BY DEF Exchange!PassOver, St, start
<1> HIDE DEF pass
<1>6. DOMAIN pass = 0..Len(its) /\ \A n \in 0..Len(its) : pass[n] = Val(pass, n)
    BY <1>4
<1>7. pass[0] = start
    BY <1>6
<1>8. ASSUME NEW n \in 1..Len(its)
      PROVE  pass[n] = IF n \in Exchange!Live(its) THEN St(pass[n - 1], n) ELSE pass[n - 1]
    <2>1. n \in 0..Len(its) /\ n # 0
        OBVIOUS
    <2> QED BY <1>6, <2>1
<1> QED BY <1>5, <1>6, <1>7, <1>8 DEF St, start

\* What is first in one of the sequences is in the whole.
LEMMA FlattenHolds ==
    ASSUME NEW S, NEW ss \in Seq(Seq(S)), NEW k \in DOMAIN ss, ss[k] # << >>
    PROVE  \E j \in DOMAIN Exchange!FlattenSeq(ss) : Exchange!FlattenSeq(ss)[j] = ss[k][1]
<1> DEFINE L == Len(ss)
           x == ss[k][1]
<1>0. L \in Nat /\ DOMAIN ss = 1..L /\ \A n \in 1..L : ss[n] \in Seq(S)
    OBVIOUS
<1>1. PICK f : /\ f[0] = << >>
               /\ \A n \in 1..L : f[n] = f[n - 1] \o ss[n]
               /\ Exchange!FlattenSeq(ss) = f[L]
    BY FlattenSteps
<1> HIDE DEF L
<1> DEFINE In(s) == s \in Seq(S) /\ \E j \in DOMAIN s : s[j] = x
           G == {n \in 0..L : f[n] \in Seq(S) /\ (k <= n => In(f[n]))}
<1>2. 0 \in G
    <2>1. 0 \in 0..L /\ ~(k <= 0)
        BY <1>0
    <2>2. f[0] \in Seq(S)
        BY <1>1
    <2> HIDE DEF In
    <2> QED BY <2>1, <2>2
<1>3. ASSUME NEW n \in 0..(L - 1), n \in G
      PROVE  n + 1 \in G
    <2>1. n + 1 \in 1..L /\ (n + 1) - 1 = n /\ n + 1 \in 0..L /\ k \in Nat
        BY <1>0
    <2> DEFINE s == f[n]
               t == ss[n + 1]
               u == f[n + 1]
    <2>2. u = s \o t /\ s \in Seq(S) /\ t \in Seq(S)
        BY <1>0, <1>1, <1>3, <2>1
    <2>3. k <= n => In(s)
        BY <1>3
    <2>4. k = n + 1 => t # << >> /\ t[1] = x
        OBVIOUS
    <2> HIDE DEF s, t, u
    <2>5. /\ u \in Seq(S) /\ Len(u) = Len(s) + Len(t) /\ Len(s) \in Nat /\ Len(t) \in Nat
          /\ DOMAIN s = 1..Len(s) /\ DOMAIN t = 1..Len(t) /\ DOMAIN u = 1..Len(u)
          /\ \A j \in 1..Len(s) : u[j] = s[j]
          /\ \A j \in 1..Len(t) : u[Len(s) + j] = t[j]
        BY <2>2
    <2>6. ASSUME k <= n
          PROVE  In(u)
        <3>1. PICK j \in DOMAIN s : s[j] = x
            BY <2>3, <2>6
        <3>2. j \in DOMAIN u /\ u[j] = x
            BY <2>5, <3>1
        <3> QED BY <2>5, <3>2
    <2>7. ASSUME k = n + 1
          PROVE  In(u)
        <3>1. Len(s) + 1 \in DOMAIN u /\ u[Len(s) + 1] = t[1]
            <4>1. 1 \in 1..Len(t)
                BY <2>2, <2>4, <2>5, <2>7
            <4>2. Len(s) + 1 \in 1..Len(u)
                BY <2>5, <4>1
            <4> QED BY <2>5, <4>1, <4>2
        <3> QED BY <2>4, <2>5, <2>7, <3>1
    <2>8. k <= n + 1 => k <= n \/ k = n + 1
        BY <2>1
    <2> QED BY <2>1, <2>5, <2>6, <2>7, <2>8 DEF u
<1>4. L \in G
    <2> HIDE DEF G
    <2>1. 0..L \subseteq G
        BY <1>0, <1>2, <1>3, UpTo
    <2> QED BY <1>0, <2>1
<1>5. k <= L
    BY <1>0
<1> QED BY <1>1, <1>4, <1>5

IsMsg(m) == m = [role |-> m.role, content |-> m.content]

Listed(ms) == \E S : ms \in Seq(S)

MsOk(ms) == Listed(ms) /\ \A k \in DOMAIN ms : IsMsg(ms[k])

\* The model has said something.
Speaks(ms) == \E k \in DOMAIN ms : ms[k].role = "assistant"

IsState(st) == st = [ms |-> st.ms, told |-> st.told, switch |-> st.switch] /\ MsOk(st.ms)

LEMMA OneMore ==
    ASSUME NEW ms, MsOk(ms), NEW role, NEW content
    PROVE  LET more == Append(ms, [role |-> role, content |-> content])
           IN  MsOk(more) /\ (Speaks(ms) \/ role = "assistant" => Speaks(more))
<1> DEFINE m == [role |-> role, content |-> content]
           more == Append(ms, m)
<1>1. PICK S : ms \in Seq(S)
    BY DEF MsOk, Listed
<1>2. IsMsg(m) /\ m.role = role
    BY DEF IsMsg
<1> HIDE DEF m
<1> DEFINE T == S \cup {m}
<1>3. ms \in Seq(T) /\ m \in T
    BY <1>1
<1> HIDE DEF T
<1>4. /\ more \in Seq(T) /\ Len(ms) \in Nat /\ DOMAIN ms = 1..Len(ms)
      /\ DOMAIN more = 1..(Len(ms) + 1) /\ more[Len(ms) + 1] = m
      /\ \A k \in 1..Len(ms) : more[k] = ms[k]
    BY <1>3
<1> HIDE DEF more
<1>5. \A k \in DOMAIN more : k \in 1..Len(ms) \/ k = Len(ms) + 1
    BY <1>4
<1>6. MsOk(more)
    BY <1>2, <1>4, <1>5 DEF MsOk, Listed
<1>7. 1..Len(ms) \subseteq DOMAIN more /\ Len(ms) + 1 \in DOMAIN more
    BY <1>4
<1>8. Speaks(ms) \/ role = "assistant" => Speaks(more)
    BY <1>2, <1>4, <1>7 DEF Speaks
<1> QED BY <1>6, <1>8 DEF more, m

\* The last message grows, and what has been said stays said.
LEMMA OneLonger ==
    ASSUME NEW ms, MsOk(ms), NEW m \in DOMAIN ms, NEW content
    PROVE  LET longer == [ms EXCEPT ![m].content = content]
           IN  MsOk(longer) /\ (Speaks(ms) => Speaks(longer))
<1> DEFINE longer == [ms EXCEPT ![m].content = content]
           grown == [role |-> ms[m].role, content |-> content]
<1>1. PICK S : ms \in Seq(S)
    BY DEF MsOk, Listed
<1>2. ms[m] = [role |-> ms[m].role, content |-> ms[m].content]
    BY DEF MsOk, IsMsg
<1>3. [ms[m] EXCEPT !.content = content] = grown
    BY <1>2
<1>4. longer = [k \in DOMAIN ms |-> IF k = m THEN grown ELSE ms[k]]
    <2>1. longer = [ms EXCEPT ![m] = [ms[m] EXCEPT !.content = content]]
        OBVIOUS
    <2> HIDE DEF longer, grown
    <2> QED BY <1>3, <2>1
<1>5. grown.role = ms[m].role /\ IsMsg(grown)
    BY DEF IsMsg
<1> DEFINE T == S \cup {grown}
<1> HIDE DEF longer, grown
<1>6. Len(ms) \in Nat /\ DOMAIN ms = 1..Len(ms) /\ \A k \in DOMAIN ms : ms[k] \in T
    BY <1>1
<1>7. grown \in T
    OBVIOUS
<1> HIDE DEF T
<1>8. longer \in [1..Len(ms) -> T]
    BY <1>4, <1>6, <1>7
<1>9. longer \in Seq(T) /\ DOMAIN longer = DOMAIN ms
    BY <1>6, <1>8
<1>10. \A k \in DOMAIN ms : IsMsg(longer[k]) /\ longer[k].role = ms[k].role
    BY <1>4, <1>5 DEF MsOk
<1>11. MsOk(longer)
    BY <1>9, <1>10 DEF MsOk, Listed
<1>12. Speaks(ms) => Speaks(longer)
    BY <1>9, <1>10 DEF Speaks
<1> QED BY <1>11, <1>12 DEF longer

\* What an event of the exchange does to what has been said.
LEMMA StepSpeaks ==
    ASSUME NEW its, NEW live, NEW elided, NEW removed, NEW st, IsState(st), NEW i,
           its[i].type # "kind"
    PROVE  LET next == Exchange!StepAt(its, live, elided, removed, st, i)
           IN  /\ IsState(next)
               /\ Speaks(st.ms) /\ its[i].type # "compaction" => Speaks(next.ms)
               /\ IsAssistant(its[i]) /\ ~its[i].stand_in => Speaks(next.ms)
<1> DEFINE e == its[i]
           next == Exchange!StepAt(its, live, elided, removed, st, i)
           With(ms) == [ms |-> ms, told |-> st.told, switch |-> st.switch]
<1>1. MsOk(st.ms) /\ st = With(st.ms) /\ \A ms : With(ms).ms = ms
    BY DEF IsState
<1>2. ASSUME NEW ms, MsOk(ms), NEW t, NEW s
      PROVE  IsState([ms |-> ms, told |-> t, switch |-> s]) /\ [ms |-> ms, told |-> t, switch |-> s].ms = ms
    BY <1>2 DEF IsState
<1>3. \A ms : [st EXCEPT !.ms = ms] = With(ms)
    BY <1>1
<1>4. CASE IsUser(e)
    <2>1. e.type = "user_message" /\ ~IsAssistant(e)
        BY <1>4 DEF IsUser, IsAssistant
    <2>2. next = Exchange!UserStep(its, live, elided, st, i)
        BY <2>1 DEF Exchange!StepAt, Exchange!IsUser, Exchange!IsAssistant
    <2>3. \E c, t, s : next = [ms |-> Append(st.ms, [role |-> "user", content |-> c]), told |-> t, switch |-> s]
        BY <2>2 DEF Exchange!UserStep, Exchange!Msg
    <2>4. PICK c, t, s : next = [ms |-> Append(st.ms, [role |-> "user", content |-> c]), told |-> t, switch |-> s]
        BY <2>3
    <2> DEFINE more == Append(st.ms, [role |-> "user", content |-> c])
    <2>5. MsOk(more) /\ (Speaks(st.ms) => Speaks(more))
        BY <1>1, OneMore
    <2> HIDE DEF more, next
    <2>6. IsState(next) /\ next.ms = more
        BY <1>2, <2>4, <2>5 DEF more
    <2> QED BY <2>1, <2>5, <2>6 DEF next
<1>5. CASE IsAssistant(e) /\ ~e.stand_in
    <2>1. e.type = "assistant_message"
        BY <1>5 DEF IsAssistant
    <2> DEFINE c == Exchange!AssistantContent(its, live, elided, i)
               more == Append(st.ms, [role |-> "assistant", content |-> c])
    <2>2. next = [st EXCEPT !.ms = Append(@, Exchange!Msg("assistant", c))]
        BY <1>5, <2>1 DEF Exchange!StepAt, Exchange!IsUser, Exchange!IsAssistant
    <2>3. next = With(more)
        BY <1>3, <2>2 DEF Exchange!Msg
    <2>4. MsOk(more) /\ Speaks(more)
        BY <1>1, OneMore
    <2> HIDE DEF more, next
    <2>5. IsState(next) /\ next.ms = more
        BY <1>2, <2>3, <2>4
    <2> QED BY <2>4, <2>5 DEF next
<1>6. CASE e.type = "tool_result"
    <2>1. ~IsUser(e) /\ ~IsAssistant(e)
        BY <1>6 DEF IsUser, IsAssistant
    <2>2. next = Exchange!AnswerStep(its, elided, removed, st, i)
        BY <1>6 DEF Exchange!StepAt, Exchange!IsUser, Exchange!IsAssistant
    <2> DEFINE ms == st.ms
               block == Exchange!ResultBlock(its[i].id, IF i \in elided THEN "marker" ELSE "kept", i)
    <2>3. CASE its[i].id \in removed
        <3>1. next = st
            BY <2>2, <2>3 DEF Exchange!AnswerStep
        <3> QED BY <2>1, <3>1
    <2>4. CASE its[i].id \notin removed /\ Exchange!RoundIsOpen(st.ms)
        <3> DEFINE m == Len(ms)
                   content == Append(ms[m].content, block)
                   longer == [ms EXCEPT ![m].content = content]
        <3>1. m \in DOMAIN ms
            <4>1. ms # << >>
                BY <2>4 DEF Exchange!RoundIsOpen
            <4>2. PICK S : ms \in Seq(S)
                BY <1>1 DEF MsOk, Listed
            <4> HIDE DEF ms
            <4> QED BY <4>1, <4>2
        <3>2. next = [st EXCEPT !.ms[Len(st.ms)].content = Append(@, block)]
            BY <2>2, <2>4 DEF Exchange!AnswerStep
        <3>3. next = With(longer)
            <4>1. next = [st EXCEPT !.ms = longer]
                BY <3>2
            <4> HIDE DEF longer
            <4> QED BY <1>3, <4>1
        <3>4. MsOk(longer) /\ (Speaks(ms) => Speaks(longer))
            <4> HIDE DEF m, content, ms
            <4>1. MsOk(ms)
                BY <1>1 DEF ms
            <4> QED BY <3>1, <4>1, OneLonger
        <3> HIDE DEF longer, next
        <3>5. IsState(next) /\ next.ms = longer
            BY <1>2, <3>3, <3>4
        <3> QED BY <2>1, <3>4, <3>5 DEF next
    <2>5. CASE its[i].id \notin removed /\ ~Exchange!RoundIsOpen(st.ms)
        <3> DEFINE more == Append(ms, [role |-> "user", content |-> << block >>])
        <3>1. next = [st EXCEPT !.ms = Append(@, Exchange!Msg("user", << block >>))]
            BY <2>2, <2>5 DEF Exchange!AnswerStep
        <3>2. next = With(more)
            BY <1>3, <3>1 DEF Exchange!Msg
        <3>3. MsOk(more) /\ (Speaks(ms) => Speaks(more))
            BY <1>1, OneMore
        <3> HIDE DEF more, next
        <3>4. IsState(next) /\ next.ms = more
            BY <1>2, <3>2, <3>3
        <3> QED BY <2>1, <3>3, <3>4 DEF next
    <2> QED BY <2>3, <2>4, <2>5
<1>7. CASE e.type = "compaction"
    <2>1. ~IsUser(e) /\ ~IsAssistant(e)
        BY <1>7 DEF IsUser, IsAssistant
    <2> DEFINE m == [role |-> "user", content |-> << [kind |-> "summary", src |-> i] >>]
               one == << m >>
    <2>2. next = [st EXCEPT !.ms = << Exchange!Msg("user", << [kind |-> "summary", src |-> i] >>) >>]
        BY <1>7 DEF Exchange!StepAt, Exchange!IsUser, Exchange!IsAssistant
    <2>3. next = With(one)
        BY <1>3, <2>2 DEF Exchange!Msg
    <2>4. MsOk(one)
        <3>1. IsMsg(m)
            BY DEF IsMsg
        <3> HIDE DEF m
        <3>2. one \in Seq({m}) /\ DOMAIN one = {1} /\ one[1] = m
            OBVIOUS
        <3> HIDE DEF one
        <3> QED BY <3>1, <3>2 DEF MsOk, Listed
    <2> HIDE DEF one, next
    <2>5. IsState(next)
        BY <1>2, <2>3, <2>4
    <2> QED BY <1>7, <2>1, <2>5 DEF next
<1>8. CASE /\ ~IsUser(e) /\ ~(IsAssistant(e) /\ ~e.stand_in)
           /\ e.type \notin {"tool_result", "compaction"}
    <2>1. next = st
        <3>1. /\ e.type # "kind" /\ ~Exchange!IsUser(e) /\ ~(Exchange!IsAssistant(e) /\ ~e.stand_in)
              /\ e.type # "tool_result" /\ e.type # "compaction"
            BY <1>8 DEF IsUser, IsAssistant, Exchange!IsUser, Exchange!IsAssistant
        <3> QED BY <3>1 DEF Exchange!StepAt
    <2> QED BY <1>8, <2>1
<1> QED BY <1>4, <1>5, <1>6, <1>7, <1>8

\* In what a turn records nothing is rewound and the kind never changes.
LEMMA AllLive ==
    ASSUME NEW its \in Seq(TurnEvent)
    PROVE  /\ Exchange!Live(its) = DOMAIN its /\ Live(its) = DOMAIN its
           /\ \A i \in DOMAIN its : its[i].type # "kind"
<1>1. ASSUME NEW e \in TurnEvent
      PROVE  e.type \notin {"rewind", "unrewind", "kind"}
    BY DEF TurnEvent, Created, UserMsg, StandIn, Compaction, Title, Todo, Assistant, Result
<1>2. \A i \in DOMAIN its : its[i].type \notin {"rewind", "unrewind", "kind"}
    BY <1>1
<1>3. Exchange!Live(its) = DOMAIN its
    BY <1>2 DEF Exchange!Live, Exchange!Standing
<1>4. Live(its) = DOMAIN its
    BY <1>2 DEF Live, Standing
<1> QED BY <1>2, <1>3, <1>4

\* Once the model has said something, and no compaction follows, the pass
\* ends with a message of its.
LEMMA PassSpeaks ==
    ASSUME NEW its \in Seq(TurnEvent), NEW a \in DOMAIN its,
           IsAssistant(its[a]), ~its[a].stand_in,
           \A j \in DOMAIN its : j > a => its[j].type # "compaction"
    PROVE  MsOk(Exchange!ProjectRaw(its)) /\ Speaks(Exchange!ProjectRaw(its))
<1> DEFINE pass == Exchange!PassOver(its)
           L == Len(its)
           live == Exchange!Live(its)
           elided == Exchange!ElidedIn(its, live)
           removed == Exchange!RemovedCalls(its, live)
           G == {n \in 0..L : IsState(pass[n]) /\ (a <= n => Speaks(pass[n].ms))}
<1>0. L \in Nat /\ DOMAIN its = 1..L /\ a \in 1..L
    OBVIOUS
<1>1. /\ pass[0] = [ms |-> << >>, told |-> Exchange!BornKind(its), switch |-> 0]
      /\ \A i \in 1..L : pass[i] = IF i \in live THEN Exchange!StepAt(its, live, elided, removed, pass[i - 1], i)
                                   ELSE pass[i - 1]
    BY <1>0, PassSteps
<1>2. live = DOMAIN its /\ \A i \in DOMAIN its : its[i].type # "kind"
    BY AllLive
<1> HIDE DEF pass, live, elided, removed
<1>3. 0 \in G
    <2> DEFINE none == << >>
    <2>1. MsOk(none)
        <3>1. none \in Seq({}) /\ DOMAIN none = {}
            OBVIOUS
        <3> HIDE DEF none
        <3> QED BY <3>1 DEF MsOk, Listed
    <2> HIDE DEF none
    <2>2. pass[0] = [ms |-> none, told |-> Exchange!BornKind(its), switch |-> 0]
        BY <1>1 DEF none
    <2>3. IsState(pass[0])
        BY <2>1, <2>2 DEF IsState
    <2> QED BY <1>0, <2>3
<1>4. ASSUME NEW n \in 0..(L - 1), n \in G
      PROVE  n + 1 \in G
    <2> DEFINE i == n + 1
               st == pass[n]
               next == Exchange!StepAt(its, live, elided, removed, st, i)
    <2>1. i \in 1..L /\ i \in DOMAIN its /\ i - 1 = n /\ i \in 0..L
        BY <1>0
    <2>2. pass[i] = next
        BY <1>1, <1>2, <2>1
    <2>3. IsState(st) /\ (a <= n => Speaks(st.ms)) /\ its[i].type # "kind"
        BY <1>2, <1>4, <2>1
    <2> HIDE DEF st, i
    <2>4. /\ IsState(next)
          /\ Speaks(st.ms) /\ its[i].type # "compaction" => Speaks(next.ms)
          /\ IsAssistant(its[i]) /\ ~its[i].stand_in => Speaks(next.ms)
        BY <2>3, StepSpeaks
    <2> HIDE DEF next
    <2>5. a <= i => a <= n \/ a = i
        BY <1>0, <2>1
    <2>6. a <= n => its[i].type # "compaction"
        BY <1>0, <2>1
    <2>7. a <= i => Speaks(next.ms)
        BY <2>3, <2>4, <2>5, <2>6
    <2> QED BY <2>1, <2>2, <2>4, <2>7 DEF i
<1>5. L \in G
    <2> HIDE DEF G
    <2>1. 0..L \subseteq G
        BY <1>0, <1>3, <1>4, UpTo
    <2> QED BY <1>0, <2>1
<1>6. MsOk(pass[L].ms) /\ Speaks(pass[L].ms)
    BY <1>0, <1>5 DEF IsState
<1> QED BY <1>6 DEF pass, Exchange!ProjectRaw

\* The repair answers calls and takes nothing away.
LEMMA RepairSpeaks ==
    ASSUME NEW ms, MsOk(ms), Speaks(ms)
    PROVE  Speaks(Exchange!AnswerOrphanedCalls(ms))
<1> DEFINE with(k) == Exchange!WithRepairs(ms, k)
           lacks(k) == Exchange!Msg("user", Exchange!Missing(ms, k))
           part(k) == IF Exchange!NoRound(ms, k) THEN << with(k), lacks(k) >> ELSE << with(k) >>
           M == {with(k) : k \in DOMAIN ms} \cup {lacks(k) : k \in DOMAIN ms}
           ss == [k \in DOMAIN ms |-> part(k)]
<1>1. PICK a \in DOMAIN ms : ms[a].role = "assistant"
    BY DEF Speaks
<1>2. with(a).role = "assistant"
    <2>1. ms[a].role # "user"
        BY <1>1
    <2>2. with(a) = ms[a]
        BY <2>1 DEF Exchange!WithRepairs, Exchange!IsRound
    <2> QED BY <1>1, <2>2
<1>3. Len(ms) \in Nat /\ DOMAIN ms = 1..Len(ms)
    BY DEF MsOk, Listed
<1>4. \A k \in DOMAIN ms : with(k) \in M /\ lacks(k) \in M
    OBVIOUS
<1>5. Exchange!AnswerOrphanedCalls(ms) = Exchange!FlattenSeq(ss)
    BY DEF Exchange!AnswerOrphanedCalls
<1> HIDE DEF with, lacks, M
<1>6. \A k \in DOMAIN ms : part(k) \in Seq(M) /\ part(k) # << >> /\ part(k)[1] = with(k)
    BY <1>4
<1>7. DOMAIN ss = DOMAIN ms /\ \A k \in DOMAIN ms : ss[k] = part(k)
    OBVIOUS
<1> HIDE DEF part
<1>8. ss \in Seq(Seq(M))
    <2>1. ss \in [1..Len(ms) -> Seq(M)]
        BY <1>3, <1>6
    <2> HIDE DEF ss
    <2> QED BY <1>3, <2>1
<1> HIDE DEF ss
<1> DEFINE flat == Exchange!FlattenSeq(ss)
<1>9. \E j \in DOMAIN flat : flat[j] = ss[a][1]
    BY <1>1, <1>6, <1>7, <1>8, FlattenHolds
<1> HIDE DEF flat
<1>10. Speaks(flat)
    BY <1>1, <1>2, <1>6, <1>7, <1>9 DEF Speaks
<1> QED BY <1>5, <1>10 DEF flat

\* What the engine looks for before it compacts is what SessionLog asks for.
LEMMA ReplyIsHeard ==
    ASSUME log \in Seq(TurnEvent), HasReply
    PROVE  \E k \in DOMAIN Exchange!Project(Spoken(log)) :
               Exchange!Project(Spoken(log))[k].role = "assistant"
<1> DEFINE its == Spoken(log)
           keep == {n \in DOMAIN log : log[n].type \notin {"title", "todo_state"}}
<1>1. its \in Seq(TurnEvent) /\ its = Sift(log, keep)
    <2>1. its = Sift(log, keep)
        BY DEF Spoken
    <2> QED BY <2>1, SpokenIs
<1>2. PICK i \in DOMAIN log : /\ IsAssistant(log[i]) /\ ~log[i].stand_in
                              /\ \A j \in DOMAIN log : j > i => log[j].type # "compaction"
    <2>1. Live(log) = DOMAIN log
        BY AllLive
    <2> QED BY <2>1 DEF HasReply
<1>3. i \in keep \cap DOMAIN log
    BY <1>2 DEF IsAssistant
<1> HIDE DEF keep
<1>4. PICK p : Picks(log, keep, p)
    BY Picking
<1>5. /\ DOMAIN its = 1..Len(its)
      /\ p \in [1..Len(its) -> keep \cap DOMAIN log]
      /\ \A k \in 1..Len(its) : its[k] = log[p[k]]
      /\ \A j, k \in 1..Len(its) : j < k => p[j] < p[k]
      /\ \A n \in keep \cap DOMAIN log : \E k \in 1..Len(its) : p[k] = n
    BY <1>1, <1>4 DEF Picks
<1> HIDE DEF its
<1>6. PICK a \in DOMAIN its : p[a] = i
    BY <1>3, <1>5
<1>7. its[a] = log[i]
    BY <1>5, <1>6
<1>8. \A j \in DOMAIN its : j > a => its[j].type # "compaction"
    <2> SUFFICES ASSUME NEW j \in DOMAIN its, j > a PROVE its[j].type # "compaction"
        OBVIOUS
    <2>1. a < j /\ p[a] < p[j] /\ p[j] \in DOMAIN log /\ its[j] = log[p[j]]
        BY <1>5, <1>6
    <2>2. p[j] > i
        BY <1>6, <2>1
    <2> QED BY <1>2, <2>1, <2>2
<1>9. MsOk(Exchange!ProjectRaw(its)) /\ Speaks(Exchange!ProjectRaw(its))
    BY <1>1, <1>2, <1>7, <1>8, PassSpeaks
<1>10. Speaks(Exchange!Project(its))
    BY <1>9, RepairSpeaks DEF Exchange!Project
<1> QED BY <1>10 DEF Speaks, its

\* The reply so far is the beginning of one a provider may stream, and a
\* summary is asked for only of a conversation with a reply in it.
Begun(r) == \E full \in Replies : \E n \in 1..Len(full) : r = SubSeq(full, 1, n)

MoreInv ==
    /\ reply # << >> => Begun(reply)
    /\ pc = "compacting" => HasReply

LEMMA BegunGoesOn ==
    ASSUME FlagInv, SaidInv, StreamBlock
    PROVE  Begun(reply')
<1>1. PICK full \in Replies : IsStrictPrefix(reply, full) /\ reply' = Append(reply, full[Len(reply) + 1])
    BY DEF StreamBlock
<1>2. full \in Seq(STRING) /\ reply \in Seq(STRING)
    BY TurnAssumption DEF FlagInv, Replies, SaidInv
<1>3. /\ Len(reply) \in Nat /\ Len(full) \in Nat /\ Len(reply) <= Len(full) /\ reply # full
      /\ SubSeq(reply, 1, Len(reply)) = SubSeq(full, 1, Len(reply))
    BY <1>1, <1>2 DEF IsStrictPrefix, IsPrefix
<1>4. SubSeq(reply, 1, Len(reply)) = reply /\ SubSeq(full, 1, Len(full)) = full
    BY <1>2
<1>5. Len(reply) + 1 \in 1..Len(full)
    BY <1>3, <1>4
<1> DEFINE m == Len(reply) + 1
           cut == SubSeq(full, 1, m)
           more == Append(reply, full[m])
<1>6. full[m] \in STRING /\ m \in Nat
    BY <1>2, <1>3, <1>5
<1>7. /\ cut \in Seq(STRING) /\ Len(cut) = m /\ \A n \in 1..m : cut[n] = full[n]
    BY <1>2, <1>3, <1>5
<1>8. /\ more \in Seq(STRING) /\ Len(more) = m /\ more[m] = full[m]
      /\ \A n \in 1..Len(reply) : more[n] = reply[n]
    BY <1>2, <1>6
<1>9. \A n \in 1..Len(reply) : reply[n] = full[n]
    <2>1. reply = SubSeq(full, 1, Len(reply))
        BY <1>3, <1>4
    <2>2. \A n \in 1..Len(reply) : SubSeq(full, 1, Len(reply))[n] = full[n]
        BY <1>2, <1>3
    <2> QED BY <2>1, <2>2, Zenon
<1>10. \A n \in 1..m : n \in 1..Len(reply) \/ n = m
    BY <1>3
<1>11. reply' = more
    BY <1>1
<1> HIDE DEF cut, more
<1>12. cut = more
    BY <1>6, <1>7, <1>8, <1>9, <1>10
<1> QED BY <1>5, <1>11, <1>12 DEF Begun, cut, m

LEMMA MoreInvIsKept == FlagInv /\ SaidInv /\ MoreInv /\ [TurnNext]_turnVars => MoreInv'
<1> SUFFICES ASSUME FlagInv, SaidInv, MoreInv, [TurnNext]_turnVars PROVE MoreInv'
    OBVIOUS
<1>1. plan' = plan
    BY DEF TurnNext, EngineStep, ProviderStep, RunTurn, Stop, Die, OpenRequest, StopBeforeReply,
           StopInStream, StartNext, RoundRun, RecordResult, EndRound, Settle, OpenCompaction,
           OpenTitle, RequestOpened, RequestFailed, StreamBlock, StreamFailed, StreamEnded,
           Compact, LeaveUncompacted, TitleOpened, NameChat, LeaveUnnamed, Decide, ToolReturns,
           CutReply, Return, Go, turnVars
<1>2. reply' \in {reply, << >>} \/ StreamBlock
    BY DEF TurnNext, EngineStep, ProviderStep, RunTurn, Stop, Die, OpenRequest, StopBeforeReply,
           StopInStream, StartNext, RoundRun, RecordResult, EndRound, Settle, OpenCompaction,
           OpenTitle, RequestOpened, RequestFailed, StreamFailed, StreamEnded,
           Compact, LeaveUncompacted, TitleOpened, NameChat, LeaveUnnamed, Decide, ToolReturns,
           CutReply, Return, Go, turnVars
<1>3. reply' # << >> => Begun(reply)'
    <2>1. reply' # << >> => Begun(reply')
        BY <1>2, BegunGoesOn DEF MoreInv
    <2>2. Begun(reply)' <=> Begun(reply')
        BY <1>1 DEF Begun, Replies
    <2> QED BY <2>1, <2>2
<1>4. pc' = "compacting" => (pc = "compacting" \/ HasReply) /\ log' = log
    BY DEF TurnNext, EngineStep, ProviderStep, RunTurn, Stop, Die, OpenRequest, StopBeforeReply,
           StopInStream, StartNext, RoundRun, RecordResult, EndRound, Settle, OpenCompaction,
           OpenTitle, RequestOpened, RequestFailed, StreamBlock, StreamFailed, StreamEnded,
           Compact, LeaveUncompacted, TitleOpened, NameChat, LeaveUnnamed, Decide, ToolReturns,
           CutReply, Return, Go, AfterReply, turnVars
<1>5. pc' = "compacting" => HasReply'
    BY <1>4 DEF MoreInv, HasReply
<1> QED BY <1>3, <1>5 DEF MoreInv

\* The shapes of what is recorded, and their blocks as SessionLog has them.
LEMMA ShapesAre ==
    ASSUME FlagInv
    PROVE  /\ \A full \in Replies : full # << >> => KindsOf(full) \in Shapes
           /\ \A full \in Replies : KindsOf(Append(full, "text")) \in Shapes
           /\ \A r : Begun(r) /\ KeptOfCut(r) # << >> => KindsOf(KeptOfCut(r)) \in Shapes
<1> DEFINE all == UNION {Plans[p].replies : p \in DOMAIN Plans}
           cuts == UNION {{SubSeq(full, 1, n) : n \in 0..Len(full)} : full \in all}
           recorded == all \cup {Append(full, "text") : full \in all} \cup {KeptOfCut(cut) : cut \in cuts}
<1>1. Shapes = {KindsOf(shape) : shape \in recorded} \ {<< >>}
    BY DEF Shapes
<1>2. \A full \in Replies : full \in all /\ full \in Seq(STRING)
    BY TurnAssumption DEF FlagInv, Replies
<1>3. \A full \in Replies : full \in recorded /\ Append(full, "text") \in recorded
    <2> HIDE DEF all
    <2> QED BY <1>2
<1>4. \A r : Begun(r) => r \in cuts
    <2> SUFFICES ASSUME NEW r, Begun(r) PROVE r \in cuts
        OBVIOUS
    <2>1. PICK full \in Replies : \E n \in 1..Len(full) : r = SubSeq(full, 1, n)
        BY DEF Begun
    <2>2. \E n \in 0..Len(full) : r = SubSeq(full, 1, n)
        BY <2>1
    <2>3. full \in all
        BY <1>2, <2>1
    <2> HIDE DEF all
    <2> QED BY <2>2, <2>3
<1>5. \A r : Begun(r) => KeptOfCut(r) \in recorded
    <2> HIDE DEF all, cuts
    <2> QED BY <1>4
<1> HIDE DEF recorded
<1>6. \A S : \A shape \in Seq(S) : shape # << >> => KindsOf(shape) # << >>
    <2> SUFFICES ASSUME NEW S, NEW shape \in Seq(S), shape # << >>, KindsOf(shape) = << >> PROVE FALSE
        OBVIOUS
    <2>1. DOMAIN KindsOf(shape) = DOMAIN shape
        BY DEF KindsOf
    <2>2. 1 \in DOMAIN shape
        OBVIOUS
    <2> QED BY <2>1, <2>2
<1>7. \A full \in Replies : full # << >> => KindsOf(full) # << >>
    BY <1>2, <1>6
<1>8. \A full \in Replies : KindsOf(Append(full, "text")) # << >>
    <2> SUFFICES ASSUME NEW full \in Replies PROVE KindsOf(Append(full, "text")) # << >>
        OBVIOUS
    <2> DEFINE Named == STRING \cup {"text"}
               longer == Append(full, "text")
    <2>1. full \in Seq(Named)
        BY <1>2
    <2>2. longer \in Seq(Named) /\ longer # << >>
        BY <2>1
    <2> HIDE DEF longer, Named
    <2> QED BY <1>6, <2>2 DEF longer
<1>9. \A r : Begun(r) /\ KeptOfCut(r) # << >> => KindsOf(KeptOfCut(r)) # << >>
    <2> SUFFICES ASSUME NEW r, Begun(r), KeptOfCut(r) # << >> PROVE KindsOf(KeptOfCut(r)) # << >>
        OBVIOUS
    <2>1. r \in Seq(STRING)
        BY <1>2 DEF Begun
    <2>2. KeptOfCut(r) \in Seq(STRING)
        BY <2>1, KeptAre
    <2> QED BY <1>6, <2>2
<1>10. \A shape \in recorded : KindsOf(shape) # << >> => KindsOf(shape) \in Shapes
    BY <1>1
<1> QED BY <1>3, <1>5, <1>7, <1>8, <1>9, <1>10

LEMMA BlocksAgree ==
    ASSUME NEW S, NEW shape \in Seq(S)
    PROVE  Exchange!BlocksOf(KindsOf(shape), Len(Spoken(log)) + 1) = Blocks(shape)
<1> DEFINE kinds == KindsOf(shape)
           i == Len(Spoken(log)) + 1
           block(n) == IF IsCallOf(shape[n]) THEN [kind |-> "tool_use", id |-> << i, n >>]
                       ELSE [kind |-> shape[n]]
           outs(n) == IF kinds[n] = "tool_use" THEN [kind |-> "tool_use", id |-> << i, n >>]
                      ELSE [kind |-> kinds[n]]
<1>1. DOMAIN kinds = DOMAIN shape
      /\ \A n \in DOMAIN shape : kinds[n] = IF IsCallOf(shape[n]) THEN "tool_use" ELSE shape[n]
    BY DEF KindsOf
<1>2. Blocks(shape) = [n \in DOMAIN shape |-> block(n)]
    BY DEF Blocks, CallId
<1>3. Exchange!BlocksOf(kinds, i) = [n \in DOMAIN kinds |-> outs(n)]
    BY DEF Exchange!BlocksOf
<1>4. ASSUME NEW n \in DOMAIN shape
      PROVE  outs(n) = block(n)
    <2>1. CASE IsCallOf(shape[n])
        BY <1>1, <2>1
    <2>2. CASE ~IsCallOf(shape[n])
        <3>1. kinds[n] = shape[n] /\ shape[n] \in {"text", "thinking"}
            BY <1>1, <2>2 DEF IsCallOf
        <3>2. kinds[n] # "tool_use"
            BY <3>1
        <3> QED BY <2>2, <3>1, <3>2
    <2> QED BY <2>1, <2>2
<1> HIDE DEF outs, block, kinds, i
<1> QED BY <1>1, <1>2, <1>3, <1>4 DEF kinds, i

----------------------------------------------------------------------------
\* What becomes of the exchange.
Said(e) == Spoken(log') = Append(Spoken(log), e)
Hushed == Spoken(log') = Spoken(log) /\ ExchangeOpen' = ExchangeOpen
Within == Len(Spoken(log)) <= MaxSaid

LEMMA WithinIs ==
    ASSUME SaidInv, Within', NEW e, Said(e)
    PROVE  ~Exchange!Full
<1>1. Spoken(log) \in Seq(TurnEvent)
    BY SpokenIs DEF SaidInv
<1> DEFINE s == Spoken(log)
           T == TurnEvent \cup {e}
<1>2. s \in Seq(T) /\ e \in T
    BY <1>1
<1>3. Spoken(log') = Append(s, e) /\ Len(Spoken(log')) <= MaxSaid
    BY DEF Said, Within
<1> HIDE DEF s, T
<1>4. Len(Append(s, e)) = Len(s) + 1 /\ Len(s) \in Nat
    BY <1>2
<1>5. MaxSaid \in Nat
    BY TurnAssumption
<1>6. Len(s) < MaxSaid
    BY <1>3, <1>4, <1>5
<1> QED BY <1>4, <1>5, <1>6 DEF Exchange!Full, s

ExStep == Exchange!TurnNext \/ UNCHANGED Exchange!vars

LEMMA SilentStep ==
    ASSUME Hushed, ExchangeRuns' <=> ExchangeRuns
    PROVE  ExStep
<1>1. ExchangeRuns' = ExchangeRuns
    BY DEF ExchangeRuns
<1> QED BY <1>1 DEF ExStep, Hushed, Exchange!vars

\* The turn is over, or was.
LEMMA LeavingStep ==
    ASSUME Spoken(log') = Spoken(log), calls' = << >>,
           calls = << >> \/ ExchangeRuns, ExchangeRuns' => ExchangeRuns /\ calls = << >>
    PROVE  ExStep
<1>1. ExchangeOpen' = {}
    BY DEF ExchangeOpen
<1>2. calls = << >> => ExchangeOpen = {}
    BY DEF ExchangeOpen
<1>3. CASE calls = << >> /\ (ExchangeRuns' <=> ExchangeRuns)
    BY <1>1, <1>2, <1>3, SilentStep DEF Hushed
<1>4. CASE ExchangeRuns /\ ~ExchangeRuns'
    <2>1. ExchangeRuns' = FALSE
        BY <1>4 DEF ExchangeRuns
    <2>2. Exchange!Stop
        BY <1>1, <1>4, <2>1 DEF Exchange!Stop
    <2> QED BY <2>2 DEF ExStep, Exchange!TurnNext
<1> QED BY <1>3, <1>4

LEMMA RunTurnMaps ==
    ASSUME SaidInv, Within', RunTurn
    PROVE  ExStep
<1> DEFINE e == UserMsg("said", 0)
<1>1. pc = "idle" /\ pc' = "round" /\ log' = Append(log, e) /\ calls' = calls
    BY DEF RunTurn
<1>2. Said(e)
    <2>1. e \in TurnEvent /\ IsSpoken(e)
        BY DEF TurnEvent, UserMsg, IsSpoken
    <2> HIDE DEF e
    <2> QED BY <1>1, <2>1, SpokenAppend DEF SaidInv, Said
<1>3. ~Exchange!Full
    <2> HIDE DEF e
    <2> QED BY <1>2, WithinIs
<1>4. ~ExchangeRuns /\ ExchangeRuns' = TRUE
    BY <1>1 DEF ExchangeRuns
<1>5. ExchangeOpen' = ExchangeOpen
    BY <1>1 DEF ExchangeOpen
<1>6. Exchange!RecordUser("said", 0)
    <2>1. Exchange!Record(Exchange!UserMsg("said", 0))
        BY <1>2 DEF Said, Exchange!Record, UserMsg, Exchange!UserMsg
    <2>2. "said" # ""
        OBVIOUS
    <2> QED BY <1>3, <1>4, <1>5, <2>1, <2>2 DEF Exchange!RecordUser
<1> QED BY <1>6 DEF ExStep, Exchange!TurnNext

\* A reply, or what is left of one.
LEMMA ReplyMaps ==
    ASSUME SaidInv, Within', NEW S, NEW shape \in Seq(S), KindsOf(shape) \in Shapes,
           pc = "streaming", calls = << >>,
           log' = Append(log, Assistant(Blocks(shape))),
           ExchangeOpen' = {Blocks(shape)[n].id : n \in {m \in DOMAIN shape : IsCallOf(shape[m])}},
           \/ pc' = "deciding" /\ \E n \in DOMAIN shape : IsCallOf(shape[n])
           \/ pc' = "settling" /\ \A n \in DOMAIN shape : ~IsCallOf(shape[n])
    PROVE  ExStep
<1> DEFINE bs == Blocks(shape)
           e == Assistant(bs)
           kinds == KindsOf(shape)
           wanted == {m \in DOMAIN shape : IsCallOf(shape[m])}
<1>1. log \in Seq(TurnEvent) /\ Spoken(log) \in Seq(TurnEvent)
    BY SpokenIs DEF SaidInv
<1>2. /\ bs \in Seq(TurnBlock) /\ DOMAIN bs = DOMAIN shape
      /\ \A n \in DOMAIN shape : IsCall(bs[n]) <=> IsCallOf(shape[n])
    BY <1>1, BlocksAre
<1>3. e \in TurnEvent /\ IsSpoken(e) /\ IsAssistant(e)
    <2>1. e \in TurnEvent
        BY <1>2 DEF TurnEvent
    <2>2. IsSpoken(e) /\ IsAssistant(e)
        BY DEF Assistant, IsSpoken, IsAssistant
    <2> QED BY <2>1, <2>2
<1>4. Said(e)
    <2>1. log' = Append(log, e)
        OBVIOUS
    <2> HIDE DEF e
    <2> QED BY <1>1, <1>3, <2>1, SpokenAppend DEF Said
<1>5. ~Exchange!Full
    <2> HIDE DEF e
    <2> QED BY <1>4, WithinIs
<1>6. IsAssistant(Last(Spoken(log')))
    <2> HIDE DEF e
    <2> QED BY <1>1, <1>3, <1>4, LastOfMore DEF Said
<1>7. ExchangeRuns /\ ExchangeOpen = {}
    BY DEF ExchangeRuns, ExchangeOpen
<1>8. Exchange!BlocksOf(kinds, Len(Spoken(log)) + 1) = bs
    BY BlocksAgree
<1>9. Exchange!CallIds(bs) = {bs[n].id : n \in wanted}
    <2>1. {m \in DOMAIN bs : Exchange!IsCall(bs[m])} = wanted
        BY <1>2 DEF IsCall, Exchange!IsCall
    <2> HIDE DEF wanted, bs
    <2> QED BY <2>1 DEF Exchange!CallIds
<1>10. Exchange!Assistant(bs) = e
    BY DEF Assistant, Exchange!Assistant
<1>11. ExchangeOpen' = Exchange!CallIds(bs) /\ (ExchangeOpen' = {} <=> wanted = {})
    <2>1. ExchangeOpen' = {bs[n].id : n \in wanted}
        OBVIOUS
    <2> HIDE DEF wanted, bs
    <2> QED BY <1>9, <2>1
<1>12. ExchangeRuns' = (ExchangeOpen' # {})
    <2>1. CASE pc' = "deciding" /\ \E n \in DOMAIN shape : IsCallOf(shape[n])
        <3>1. ExchangeOpen' # {}
            BY <1>11, <2>1
        <3>2. ExchangeRuns' = TRUE
            BY <2>1 DEF ExchangeRuns
        <3> QED BY <3>1, <3>2
    <2>2. CASE pc' = "settling" /\ \A n \in DOMAIN shape : ~IsCallOf(shape[n])
        <3>1. ExchangeOpen' = {}
            BY <1>11, <2>2
        <3>2. ExchangeRuns' = FALSE
            BY <1>6, <2>2 DEF ExchangeRuns
        <3> QED BY <3>1, <3>2
    <2> QED BY <2>1, <2>2
<1> HIDE DEF bs, e, kinds
<1>13. Exchange!Record(Exchange!Assistant(bs))
    BY <1>4, <1>10 DEF Said, Exchange!Record
<1>14. Exchange!RecordAssistant(kinds)
    BY <1>5, <1>7, <1>8, <1>11, <1>12, <1>13 DEF Exchange!RecordAssistant
<1>15. kinds \in Shapes
    BY DEF kinds
<1> QED BY <1>14, <1>15 DEF ExStep, Exchange!TurnNext

LEMMA CutMaps ==
    ASSUME FlagInv, SaidInv, MoreInv, Within', calls = << >>, pc = "streaming",
           NEW result \in {"interrupted", "error"}, CutReply(result)
    PROVE  ExStep
<1> DEFINE kept == KeptOfCut(reply)
<1>1. /\ pc' = "settling" /\ calls' = << >>
      /\ log' = IF kept = << >> THEN log ELSE Append(log, Assistant(Blocks(kept)))
    BY DEF CutReply, Return
<1>2. kept \in Seq(STRING) /\ \A n \in DOMAIN kept : ~IsCallOf(kept[n])
    BY KeptAre DEF SaidInv
<1>3. CASE kept = << >>
    <2>1. Spoken(log') = Spoken(log) /\ ExchangeRuns
        BY <1>1, <1>3 DEF ExchangeRuns
    <2> QED BY <1>1, <2>1, LeavingStep
<1>4. CASE kept # << >>
    <2>1. reply # << >>
        <3> SUFFICES ASSUME reply = << >> PROVE FALSE
            OBVIOUS
        <3> DEFINE none == << >>
                   keep == {n \in DOMAIN none : ~IsCallOf(none[n])}
        <3>1. none \in Seq(STRING) /\ Len(none) = 0
            OBVIOUS
        <3>2. kept = Sift(none, keep)
            BY DEF KeptOfCut
        <3> HIDE DEF none, keep
        <3>3. PICK f : SiftsBy(none, keep, f)
            BY <3>1, Sifting
        <3>4. Sift(none, keep) = << >>
            BY <3>1, <3>3 DEF SiftsBy
        <3> QED BY <1>4, <3>2, <3>4
    <2>2. KindsOf(kept) \in Shapes
        BY <1>4, <2>1, ShapesAre DEF MoreInv
    <2>3. ExchangeOpen' = {Blocks(kept)[n].id : n \in {m \in DOMAIN kept : IsCallOf(kept[m])}}
        <3>1. {m \in DOMAIN kept : IsCallOf(kept[m])} = {}
            BY <1>2
        <3>2. ExchangeOpen' = {}
            BY <1>1 DEF ExchangeOpen
        <3> HIDE DEF kept
        <3> QED BY <3>1, <3>2
    <2> HIDE DEF kept
    <2> QED BY <1>1, <1>2, <1>4, <2>2, <2>3, ReplyMaps
<1> QED BY <1>3, <1>4

LEMMA StreamEndedMaps ==
    ASSUME FlagInv, SaidInv, Within', calls = << >>, StreamEnded
    PROVE  ExStep
<1> DEFINE asks == \E n \in DOMAIN reply : IsCallOf(reply[n])
           says == \E n \in DOMAIN reply : reply[n] = "text"
           full == IF asks \/ says THEN reply ELSE Append(reply, "text")
           Named == STRING \cup {"text"}
<1>1. /\ pc = "streaming" /\ reply \in Replies
      /\ log' = Append(log, Assistant(Blocks(full))) /\ calls' = CallsOf(full)
      /\ pc' = IF asks THEN "deciding" ELSE "settling"
    BY DEF StreamEnded, Return
<1>2. full \in Seq(Named)
    <2>1. reply \in Seq(Named)
        BY DEF SaidInv
    <2>2. Append(reply, "text") \in Seq(Named)
        BY <2>1
    <2> QED BY <2>1, <2>2
<1>3. KindsOf(full) \in Shapes
    <2>1. CASE asks \/ says
        <3>1. reply # << >>
            BY <2>1
        <3> QED BY <1>1, <2>1, <3>1, ShapesAre
    <2>2. CASE ~(asks \/ says)
        BY <1>1, <2>2, ShapesAre
    <2> QED BY <2>1, <2>2
<1>4. /\ asks => \E n \in DOMAIN full : IsCallOf(full[n])
      /\ ~asks => \A n \in DOMAIN full : ~IsCallOf(full[n])
    <2>1. CASE asks \/ says
        BY <2>1
    <2>2. CASE ~(asks \/ says)
        <3> SUFFICES ASSUME NEW n \in DOMAIN full PROVE ~IsCallOf(full[n])
            BY <2>2
        <3>1. full = Append(reply, "text") /\ reply \in Seq(STRING)
            BY <2>2 DEF SaidInv
        <3>2. (n \in DOMAIN reply /\ full[n] = reply[n]) \/ full[n] = "text"
            BY <3>1
        <3>3. ~IsCallOf("text")
            BY DEF IsCallOf
        <3> QED BY <2>2, <3>2, <3>3
    <2> QED BY <2>1, <2>2
<1> HIDE DEF full, Named, asks
<1> DEFINE wanted == {n \in DOMAIN full : IsCallOf(full[n])}
<1>5. CallsInOrder(calls', wanted)
    <2> DEFINE cs == CallsOf(full)
    <2>1. CallsInOrder(cs, wanted)
        BY <1>2, CallsOfReply
    <2>2. calls' = cs
        BY <1>1
    <2> HIDE DEF cs, wanted
    <2> QED BY <2>1, <2>2
<1>6. \A n \in wanted : Blocks(full)[n].id = CallId(n)
    BY <1>2, BlocksAre DEF SaidInv
<1>7. ExchangeOpen' = {Blocks(full)[n].id : n \in wanted}
    <2>1. ExchangeOpen' = {calls'[k].id : k \in DOMAIN calls'}
        BY DEF ExchangeOpen
    <2> HIDE DEF wanted
    <2>2. \A k \in DOMAIN calls' : \E n \in wanted : calls'[k].id = Blocks(full)[n].id
        BY <1>5, <1>6 DEF CallsInOrder
    <2>3. \A n \in wanted : \E k \in DOMAIN calls' : calls'[k].id = Blocks(full)[n].id
        BY <1>5, <1>6 DEF CallsInOrder
    <2> QED BY <2>1, <2>2, <2>3
<1> QED BY <1>1, <1>2, <1>3, <1>4, <1>7, ReplyMaps

\* The first of the open calls has its result, and is open no more.
LEMMA RecordResultMaps ==
    ASSUME CallsInv, SaidInv, Within', RecordResult
    PROVE  ExStep
<1> DEFINE id == Head(calls).id
           e == Result(id)
<1>1. /\ pc = "recording" /\ pc' = "recording" /\ calls # << >>
      /\ log' = Append(log, e) /\ calls' = Tail(calls)
    BY DEF RecordResult
<1>2. /\ Len(calls) \in Nat /\ DOMAIN calls = 1..Len(calls) /\ Head(calls) = calls[1]
      /\ 1 \in DOMAIN calls
      /\ DOMAIN calls' = 1..(Len(calls) - 1)
      /\ \A k \in 1..(Len(calls) - 1) : calls'[k] = calls[k + 1]
    <2> DEFINE C == {calls[n] : n \in DOMAIN calls}
    <2>1. calls \in Seq(C)
        BY DEF CallsInv, CallsShape
    <2> HIDE DEF C
    <2> QED BY <1>1, <2>1
<1>3. DOMAIN OpenIds = DOMAIN calls /\ \A k \in DOMAIN calls : OpenIds[k] = calls[k].id
    BY DEF OpenIds
<1>4. OpenIds \in Seq(Nat \X Nat) /\ OpenIds # << >>
    <2>1. OpenIds \in Seq(Nat \X Nat)
        BY DEF SaidInv, Answered
    <2> QED BY <1>2, <1>3, <2>1
<1>5. \A j, k \in DOMAIN calls : j < k => calls[j].id # calls[k].id
    <2> DEFINE ids == OpenIds
    <2>1. Answered(Spoken(log), ids, torn)
        BY DEF SaidInv
    <2>2. \A j, k \in DOMAIN ids : j < k => ids[j][2] < ids[k][2] /\ ids[j][2] \in Nat
        <3>1. \A j, k \in DOMAIN ids : j < k => ids[j][2] < ids[k][2]
            BY <1>4, <2>1 DEF Answered, AskedBy
        <3>2. \A j \in DOMAIN ids : ids[j][2] \in Nat
            BY <1>4
        <3> QED BY <3>1, <3>2
    <2> HIDE DEF ids
    <2>3. \A j, k \in DOMAIN ids : j < k => ids[j] # ids[k]
        <3> SUFFICES ASSUME NEW j \in DOMAIN ids, NEW k \in DOMAIN ids, j < k, ids[j] = ids[k]
                     PROVE  FALSE
            OBVIOUS
        <3>1. ids[j][2] < ids[k][2] /\ ids[j][2] \in Nat /\ ids[j][2] = ids[k][2]
            BY <2>2
        <3> QED BY <3>1
    <2> QED BY <1>3, <2>3 DEF ids
<1>6. id \in Nat \X Nat /\ id = calls[1].id
    <2>1. OpenIds[1] \in Nat \X Nat
        BY <1>2, <1>3, <1>4
    <2> QED BY <1>2, <1>3, <2>1
<1>7. e \in TurnEvent /\ IsSpoken(e)
    <2>1. e \in TurnEvent
        BY <1>6 DEF TurnEvent
    <2> QED BY <2>1 DEF IsSpoken, Result
<1>8. Said(e)
    <2> HIDE DEF e
    <2> QED BY <1>1, <1>7, SpokenAppend DEF SaidInv, Said
<1>9. ~Exchange!Full
    <2> HIDE DEF e
    <2> QED BY <1>8, WithinIs
<1>10. ExchangeRuns = TRUE /\ ExchangeRuns' = TRUE
    BY <1>1 DEF ExchangeRuns
<1>11. Exchange!Record(Exchange!Result(id))
    BY <1>8 DEF Said, Exchange!Record, Result, Exchange!Result
<1>12. id \in ExchangeOpen /\ ExchangeOpen' = ExchangeOpen \ {id}
    <2> HIDE DEF id
    <2>1. ExchangeOpen = {calls[k].id : k \in 1..Len(calls)}
        BY <1>2 DEF ExchangeOpen
    <2>2. ExchangeOpen' = {calls'[k].id : k \in 1..(Len(calls) - 1)}
        BY <1>2 DEF ExchangeOpen
    <2>3. ASSUME NEW k \in 1..(Len(calls) - 1)
          PROVE  calls'[k].id # id /\ \E n \in 1..Len(calls) : calls'[k].id = calls[n].id
        <3>1. k + 1 \in 1..Len(calls) /\ 1 < k + 1 /\ calls'[k] = calls[k + 1]
            BY <1>2
        <3> QED BY <1>2, <1>5, <1>6, <3>1
    <2>4. ASSUME NEW n \in 1..Len(calls), calls[n].id # id
          PROVE  \E k \in 1..(Len(calls) - 1) : calls'[k].id = calls[n].id
        <3>1. n # 1
            BY <1>6, <2>4
        <3>2. n - 1 \in 1..(Len(calls) - 1) /\ (n - 1) + 1 = n
            BY <1>2, <3>1
        <3>3. calls'[n - 1] = calls[n]
            BY <1>2, <3>2
        <3> QED BY <3>2, <3>3
    <2>5. 1 \in 1..Len(calls)
        BY <1>2
    <2> DEFINE all == 1..Len(calls)
               left == 1..(Len(calls) - 1)
    <2>6. /\ ExchangeOpen = {calls[k].id : k \in all} /\ ExchangeOpen' = {calls'[k].id : k \in left}
          /\ \A k \in left : calls'[k].id # id /\ \E n \in all : calls'[k].id = calls[n].id
          /\ \A n \in all : calls[n].id # id => \E k \in left : calls'[k].id = calls[n].id
          /\ 1 \in all
        BY <2>1, <2>2, <2>3, <2>4, <2>5
    <2> HIDE DEF all, left
    <2>7. id \in ExchangeOpen
        BY <1>6, <2>6
    <2>8. ExchangeOpen' \subseteq ExchangeOpen \ {id}
        BY <2>6
    <2>9. ExchangeOpen \ {id} \subseteq ExchangeOpen'
        BY <2>6
    <2> QED BY <2>7, <2>8, <2>9
<1> HIDE DEF id, e
<1>13. Exchange!RecordToolResult(id)
    BY <1>9, <1>10, <1>11, <1>12 DEF Exchange!RecordToolResult
<1> QED BY <1>12, <1>13 DEF ExStep, Exchange!TurnNext

LEMMA SettleMaps ==
    ASSUME SaidInv, Within', calls = << >>, Settle
    PROVE  ExStep
<1>1. /\ pc = "settling" /\ pc' \in {"idle", "compact", "title"} /\ calls' = << >>
      /\ log' = IF Unanswered(log) THEN Append(log, StandIn) ELSE log
    BY DEF Settle, AfterReply
<1>2. ExchangeRuns' = FALSE /\ ExchangeOpen' = {}
    BY <1>1 DEF ExchangeRuns, ExchangeOpen
<1>3. CASE Unanswered(log)
    <2> DEFINE e == StandIn
    <2>1. e \in TurnEvent /\ IsSpoken(e)
        BY DEF TurnEvent, StandIn, IsSpoken
    <2>2. log' = Append(log, e)
        BY <1>1, <1>3
    <2>3. Said(e) /\ ~Exchange!Full
        <3> HIDE DEF e
        <3>1. Said(e)
            BY <2>1, <2>2, SpokenAppend DEF SaidInv, Said
        <3> QED BY <3>1, WithinIs
    <2>4. Exchange!Record(Exchange!StandIn)
        BY <2>3 DEF Said, Exchange!Record, StandIn, Exchange!StandIn
    <2>5. IsUser(Last(Spoken(log)))
        BY <1>3 DEF Unanswered
    <2>6. Exchange!IsUser(Spoken(log)[Len(Spoken(log))])
        BY <2>5 DEF IsUser, Exchange!IsUser, Last
    <2>7. ExchangeRuns
        BY <1>1, <2>5 DEF ExchangeRuns, IsUser, IsAssistant
    <2>8. Exchange!RecordStandIn
        BY <1>2, <2>3, <2>4, <2>6, <2>7 DEF Exchange!RecordStandIn
    <2> QED BY <2>8 DEF ExStep, Exchange!TurnNext
<1>4. CASE ~Unanswered(log)
    <2>1. Spoken(log') = Spoken(log)
        BY <1>1, <1>4
    <2> QED BY <1>1, <1>2, <2>1, LeavingStep
<1> QED BY <1>3, <1>4

LEMMA CompactMaps ==
    ASSUME SaidInv, MoreInv, Within', Compact
    PROVE  ExStep
<1> DEFINE e == Compaction
<1>1. /\ pc = "compacting" /\ pc' \in {"title", "idle"} /\ log' = Append(log, e) /\ calls' = calls
    BY DEF Compact, Go, AfterReply
<1>2. e \in TurnEvent /\ IsSpoken(e)
    BY DEF TurnEvent, Compaction, IsSpoken
<1>3. Said(e) /\ ~Exchange!Full
    <2> HIDE DEF e
    <2>1. Said(e)
        BY <1>1, <1>2, SpokenAppend DEF SaidInv, Said
    <2> QED BY <2>1, WithinIs
<1>4. Exchange!Record(Exchange!Compaction)
    BY <1>3 DEF Said, Exchange!Record, Compaction, Exchange!Compaction
<1>5. ExchangeRuns = FALSE /\ ExchangeRuns' = FALSE /\ ExchangeOpen' = ExchangeOpen
    BY <1>1 DEF ExchangeRuns, ExchangeOpen
<1>6. \E k \in DOMAIN Exchange!Project(Spoken(log)) :
          Exchange!Project(Spoken(log))[k].role = "assistant"
    BY <1>1, ReplyIsHeard DEF SaidInv, MoreInv
<1>7. Exchange!AtRest("compact")
    BY <1>3, <1>5 DEF Exchange!AtRest
<1>8. Exchange!RecordCompaction
    BY <1>4, <1>5, <1>6, <1>7 DEF Exchange!RecordCompaction
<1> QED BY <1>8 DEF ExStep, Exchange!TurnNext

\* The steps after which the exchange is as it was, the turn over or not.
LEMMA QuietMaps ==
    ASSUME SaidInv, calls = << >>,
           \/ OpenRequest \/ StopBeforeReply \/ RequestOpened \/ RequestFailed \/ StreamBlock
           \/ EndRound \/ OpenCompaction \/ LeaveUncompacted
           \/ OpenTitle \/ TitleOpened \/ NameChat \/ LeaveUnnamed
    PROVE  ExStep
<1>1. /\ calls' = << >>
      /\ \/ log' = log \/ log' = Append(log, Title) \/ log' = Append(log, Todo)
      /\ \/ pc \in {"round", "opening", "streaming", "recording"}
         \/ /\ pc \in {"compact", "compacting", "title", "title_opening", "titling"}
            /\ pc' \in {"compacting", "title_opening", "titling", "title", "idle"}
    BY DEF OpenRequest, StopBeforeReply, RequestOpened, RequestFailed, StreamBlock, EndRound,
           OpenCompaction, LeaveUncompacted, OpenTitle, TitleOpened, NameChat, LeaveUnnamed,
           Return, Go, AfterReply
<1>2. Spoken(log') = Spoken(log)
    <2>1. \A e \in {Title, Todo} : e \in TurnEvent /\ ~IsSpoken(e)
        BY DEF TurnEvent, IsSpoken, Title, Todo
    <2>2. Spoken(Append(log, Title)) = Spoken(log) /\ Spoken(Append(log, Todo)) = Spoken(log)
        BY <2>1, SpokenAppend DEF SaidInv
    <2>3. log' = log \/ log' = Append(log, Title) \/ log' = Append(log, Todo)
        BY <1>1
    <2> QED BY <2>2, <2>3
<1>3. ExchangeRuns' => ExchangeRuns
    BY <1>1 DEF ExchangeRuns
<1> QED BY <1>1, <1>2, <1>3, LeavingStep

\* The steps between a reply and its results, and a Stop.
LEMMA RoundMaps ==
    ASSUME CallsInv, SaidInv,
           \/ \E answer \in {"allowed", "refused"} : Decide(answer)
           \/ StartNext \/ RoundRun \/ Stop
           \/ \E n \in DOMAIN calls : ToolReturns(n)
           \/ UNCHANGED turnVars
    PROVE  ExStep
<1>1. CASE Stop \/ UNCHANGED turnVars
    <2>1. UNCHANGED << log, calls, pc >>
        BY <1>1 DEF Stop, turnVars
    <2> QED BY <2>1, SilentStep DEF Hushed, ExchangeOpen, ExchangeRuns
<1>2. CASE \/ \E answer \in {"allowed", "refused"} : Decide(answer)
           \/ StartNext \/ RoundRun
           \/ \E n \in DOMAIN calls : ToolReturns(n)
    <2>1. /\ pc \in {"deciding", "running"} /\ pc' \in {"deciding", "running", "recording"}
          /\ log' = log
        BY <1>2 DEF Decide, StartNext, RoundRun, ToolReturns
    <2>2. ExchangeRuns' /\ ExchangeRuns
        BY <2>1 DEF ExchangeRuns
    <2>3. OpenIds' = OpenIds
        BY <1>2, RoundIds
    <2>4. ExchangeOpen' = ExchangeOpen
        <3>1. ExchangeOpen = {OpenIds[n] : n \in DOMAIN OpenIds}
            BY DEF ExchangeOpen, OpenIds
        <3>2. ExchangeOpen' = {OpenIds'[n] : n \in DOMAIN OpenIds'}
            BY DEF ExchangeOpen, OpenIds
        <3> HIDE DEF OpenIds
        <3> QED BY <2>3, <3>1, <3>2
    <2> QED BY <2>1, <2>2, <2>4, SilentStep DEF Hushed
<1> QED BY <1>1, <1>2

LEMMA DieMaps ==
    ASSUME CallsInv, Die
    PROVE  ExStep
<1>1. log' = log /\ calls' = << >> /\ pc' = "idle"
    BY DEF Die
<1>2. calls = << >> \/ ExchangeRuns
    BY DEF CallsInv, CallsSoFar, ExchangeRuns
<1>3. ~ExchangeRuns'
    BY <1>1 DEF ExchangeRuns
<1> QED BY <1>1, <1>2, <1>3, LeavingStep

LEMMA TurnStepMaps ==
    FlagInv /\ CallsInv /\ SaidInv /\ MoreInv /\ Within' /\ [TurnNext]_turnVars => ExStep
<1> SUFFICES ASSUME FlagInv, CallsInv, SaidInv, MoreInv, Within', [TurnNext]_turnVars PROVE ExStep
    OBVIOUS
<1>1. pc \notin {"deciding", "running", "recording"} => calls = << >>
    BY DEF CallsInv, CallsSoFar
<1>2. CASE RunTurn
    BY <1>2, RunTurnMaps
<1>3. CASE Die
    BY <1>3, DieMaps
<1>4. CASE StopInStream \/ StreamFailed
    <2>1. pc = "streaming" /\ calls = << >> /\ (CutReply("interrupted") \/ CutReply("error"))
        BY <1>1, <1>4 DEF StopInStream, StreamFailed
    <2> QED BY <2>1, CutMaps
<1>5. CASE StreamEnded
    <2>1. calls = << >>
        BY <1>1, <1>5 DEF StreamEnded
    <2> QED BY <1>5, <2>1, StreamEndedMaps
<1>6. CASE RecordResult
    BY <1>6, RecordResultMaps
<1>7. CASE Settle
    <2>1. calls = << >>
        BY <1>1, <1>7 DEF Settle
    <2> QED BY <1>7, <2>1, SettleMaps
<1>8. CASE Compact
    BY <1>8, CompactMaps
<1>9. CASE \/ OpenRequest \/ StopBeforeReply \/ RequestOpened \/ RequestFailed \/ StreamBlock
           \/ EndRound \/ OpenCompaction \/ LeaveUncompacted
           \/ OpenTitle \/ TitleOpened \/ NameChat \/ LeaveUnnamed
    <2>1. calls = << >>
        BY <1>1, <1>9 DEF OpenRequest, StopBeforeReply, RequestOpened, RequestFailed, StreamBlock,
           EndRound, OpenCompaction, LeaveUncompacted, OpenTitle, TitleOpened, NameChat,
           LeaveUnnamed
    <2> QED BY <1>9, <2>1, QuietMaps
<1>10. CASE \/ \E answer \in {"allowed", "refused"} : Decide(answer)
            \/ StartNext \/ RoundRun \/ Stop
            \/ \E n \in DOMAIN calls : ToolReturns(n)
            \/ UNCHANGED turnVars
    BY <1>10, RoundMaps
<1> QED BY <1>2, <1>3, <1>4, <1>5, <1>6, <1>7, <1>8, <1>9, <1>10
        DEF TurnNext, EngineStep, ProviderStep

LEMMA TurnBeginsMaps == TurnInit => Exchange!Init
<1> SUFFICES ASSUME TurnInit PROVE Exchange!Init
    OBVIOUS
<1>1. log = << Created("build") >> /\ pc = "idle" /\ calls = << >>
    BY DEF TurnInit
<1>2. Spoken(log) = << Created("build") >>
    <2> DEFINE e == Created("build")
    <2>1. e \in TurnEvent /\ IsSpoken(e) /\ log = << e >>
        BY <1>1 DEF TurnEvent, Created, IsSpoken
    <2> HIDE DEF e
    <2>2. Spoken(log) = << e >>
        BY <2>1, SpokenAtFirst
    <2> QED BY <2>2 DEF e
<1>3. ExchangeRuns = FALSE /\ ExchangeOpen = {}
    BY <1>1 DEF ExchangeRuns, ExchangeOpen
<1>4. Exchange!Created("build") = Created("build")
    BY DEF Created, Exchange!Created
<1> QED BY <1>2, <1>3, <1>4 DEF Exchange!Init

\* What a chat on this engine records, whatever its tools and the replies of
\* its provider, and Stops, errors and deaths included, is what SessionLog's
\* turn may record, for as long as the exchange is within the bound the two
\* are compared up to: so a request built from it is one a provider accepts
\* (turn.rs, Chat::run_turn, over Session::record).
THEOREM TurnsAreExchanges == TurnSpec /\ [](Len(Spoken(log)) <= MaxSaid) => RecordsAnExchange
<1>1. TurnSpec => []SaidInv
    BY SaidInvHolds, SaidInvIsKept, TurnInvAlways, PTL DEF TurnSpec
<1>2. TurnInit => MoreInv
    BY DEF TurnInit, MoreInv
<1>3. TurnSpec => []MoreInv
    BY <1>1, <1>2, MoreInvIsKept, TurnInvAlways, PTL DEF TurnSpec
<1>4. FlagInv /\ CallsInv /\ SaidInv /\ MoreInv /\ Within' /\ [TurnNext]_turnVars
         => [Exchange!Next]_Exchange!vars
    BY TurnStepMaps DEF ExStep, Exchange!Next
<1>5. TurnSpec /\ []Within => Exchange!Spec
    BY <1>1, <1>3, <1>4, TurnInvAlways, TurnBeginsMaps, PTL DEF TurnSpec, Exchange!Spec
<1> QED BY <1>5 DEF Within, RecordsAnExchange

=============================================================================
