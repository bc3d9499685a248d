---------------------------- MODULE ServeProofs ----------------------------
(***************************************************************************)
(* Proofs about Serve, for any chats, requests at once, pauses and uses:   *)
(* types, the turn slot, the chats that are held, and a pause resumed      *)
(* once.                                                                   *)
(***************************************************************************)
EXTENDS Serve, TLAPS

----------------------------------------------------------------------------
(***************************************************************************)
(* Types                                                                   *)
(***************************************************************************)

\* What a request is for, in the places that are about a pause, and what its
\* chat is: one that exists, in the folder or the trash.
ForAPause == {"pressed", "scheduling", "waiting", "resuming", "taken", "failed"}

Holding == {"held", "forking", "forked"}

WellPlaced(q, chats) ==
    /\ q.chat # None => q.chat \in chats
    /\ q.at \notin {"idle", "starting"} => q.chat # None
    /\ q.kind = "change" => q.chat # None
    /\ q.at = "starting" => q.kind = "new" /\ q.for = None
    /\ q.at \in Holding => q.kind = "change"
    /\ q.at = "forked" => q.fork \in chats
    /\ q.at \in ForAPause => q.for \in Pause

Placed == \A r \in Requests : WellPlaced(requests[r], live \cup trash)

\* A write to a chat's log changes of a request only what it has read.
LEMMA BehindOnlyReads ==
    ASSUME NEW rs \in [Requests -> Request], NEW c, NEW by
    PROVE  /\ Behind(c, by, rs) \in [Requests -> Request]
           /\ \A r \in Requests :
                /\ Behind(c, by, rs)[r].at = rs[r].at
                /\ Behind(c, by, rs)[r].kind = rs[r].kind
                /\ Behind(c, by, rs)[r].chat = rs[r].chat
                /\ Behind(c, by, rs)[r].fork = rs[r].fork
                /\ Behind(c, by, rs)[r].for = rs[r].for
<1>1. \A read \in Read : Lacking(read) \in Read
    BY DEF Lacking, Read
<1>2. ASSUME NEW q \in Request, NEW read \in Read
      PROVE  /\ [q EXCEPT !.read = read] \in Request
             /\ [q EXCEPT !.read = read].at = q.at
             /\ [q EXCEPT !.read = read].kind = q.kind
             /\ [q EXCEPT !.read = read].chat = q.chat
             /\ [q EXCEPT !.read = read].fork = q.fork
             /\ [q EXCEPT !.read = read].for = q.for
    BY DEF Request
<1>3. \A r \in Requests : rs[r] \in Request /\ rs[r].read \in Read
    BY DEF Request
<1> QED BY <1>1, <1>2, <1>3 DEF Behind

LEMMA TurnsBehindTypes ==
    ASSUME NEW c, running \subseteq [chat : Ids, read : Read, over : BOOLEAN]
    PROVE  TurnsBehind(c) \subseteq [chat : Ids, read : Read, over : BOOLEAN]
BY DEF TurnsBehind, Lacking, Read

LEMMA IdleIsRequest == Idle \in Request
BY DEF Idle, Request, Places, Read

\* What a step may make of a request's record.
LEMMA FieldTypes ==
    ASSUME NEW q \in Request
    PROVE  /\ \A at \in Places : [q EXCEPT !.at = at] \in Request
           /\ \A c \in Ids : [q EXCEPT !.at = "loaded", !.chat = c, !.read = "whole"] \in Request
           /\ [q EXCEPT !.at = "loaded", !.read = "whole"] \in Request
           /\ \A f \in Ids : [q EXCEPT !.at = "forked", !.fork = f] \in Request
           /\ [q EXCEPT !.at = "waiting", !.kind = "timer"] \in Request
BY DEF Request, Places, Read

LEMMA BegunTypes ==
    ASSUME NEW c \in Ids
    PROVE  /\ \A kind \in {"send", "change"} :
                [Idle EXCEPT !.at = "loaded", !.kind = kind, !.chat = c, !.read = "whole"] \in Request
           /\ [Idle EXCEPT !.at = "renaming", !.chat = c] \in Request
           /\ \A p \in Pause :
                [Idle EXCEPT !.at = "pressed", !.kind = "resume", !.chat = c, !.for = p] \in Request
BY DEF Idle, Request, Places, Read

LEMMA CancelledTypes ==
    ASSUME TypeOK, NEW c, PauseEnds(c)
    PROVE  /\ Cancelled(requests) \in [Requests -> Request]
           /\ settled' \subseteq Pauses
           /\ resume' \in [seq : Pauses, by : Requests] \cup {None}
BY IdleIsRequest DEF TypeOK, PauseEnds, Cancelled, Pause

LEMMA InitTypes == Init => TypeOK /\ Placed
<1> SUFFICES ASSUME Init PROVE TypeOK /\ Placed
    OBVIOUS
<1>1. requests \in [Requests -> Request]
    BY IdleIsRequest DEF Init
<1>2. paused \in 0..MaxPauses /\ opened \in 0..MaxPauses /\ sent \in [Pauses -> Nat]
    BY ServeAssumption DEF Init
<1>3. TypeOK
    BY <1>1, <1>2, ServeAssumption DEF Init, TypeOK
<1>4. Placed
    BY DEF Init, Placed, WellPlaced, Idle, Holding, ForAPause
<1> QED BY <1>3, <1>4

(***************************************************************************)
(* A step of one request                                                   *)
(***************************************************************************)

OnlyOf(r) ==
    /\ requests' \in [Requests -> Request]
    /\ \A q \in Requests : q # r =>
         /\ requests'[q].at = requests[q].at
         /\ requests'[q].kind = requests[q].kind
         /\ requests'[q].chat = requests[q].chat
         /\ requests'[q].fork = requests[q].fork
         /\ requests'[q].for = requests[q].for

LEMMA OneRecord ==
    ASSUME TypeOK, NEW r \in Requests, NEW x \in Request, requests' = [requests EXCEPT ![r] = x]
    PROVE  OnlyOf(r)
BY DEF TypeOK, OnlyOf

LEMMA Moved ==
    ASSUME TypeOK, NEW r \in Requests,
           requests' = Over(r) \/ \E at \in Places : requests' = At(r, at)
    PROVE  OnlyOf(r)
<1>0. requests[r] \in Request
    BY DEF TypeOK
<1>1. CASE requests' = Over(r)
    BY <1>1, OneRecord, IdleIsRequest DEF Over
<1>2. ASSUME NEW at \in Places, requests' = At(r, at)
      PROVE  OnlyOf(r)
    <2>1. [requests[r] EXCEPT !.at = at] \in Request
        BY <1>0, FieldTypes
    <2>2. requests' = [requests EXCEPT ![r] = [requests[r] EXCEPT !.at = at]]
        BY <1>2 DEF At, TypeOK
    <2> QED BY <2>1, <2>2, OneRecord
<1> QED BY <1>1, <1>2

LEMMA OneRecordAndReads ==
    ASSUME TypeOK, NEW r \in Requests, NEW c, NEW by, requests' = Behind(c, by, Over(r))
    PROVE  OnlyOf(r) /\ requests'[r].at = "idle" /\ requests'[r].chat = None
           /\ requests'[r].kind = "" /\ requests'[r].for = None
<1>1. Over(r) \in [Requests -> Request]
    BY IdleIsRequest DEF TypeOK, Over
<1>2. /\ requests' \in [Requests -> Request]
      /\ \A q \in Requests :
           /\ requests'[q].at = Over(r)[q].at /\ requests'[q].kind = Over(r)[q].kind
           /\ requests'[q].chat = Over(r)[q].chat /\ requests'[q].fork = Over(r)[q].fork
           /\ requests'[q].for = Over(r)[q].for
    <2> DEFINE rs == Over(r)
    <2>1. rs \in [Requests -> Request]
        BY <1>1
    <2> HIDE DEF rs
    <2>2. /\ Behind(c, by, rs) \in [Requests -> Request]
          /\ \A q \in Requests :
               /\ Behind(c, by, rs)[q].at = rs[q].at /\ Behind(c, by, rs)[q].kind = rs[q].kind
               /\ Behind(c, by, rs)[q].chat = rs[q].chat /\ Behind(c, by, rs)[q].fork = rs[q].fork
               /\ Behind(c, by, rs)[q].for = rs[q].for
        BY <2>1, BehindOnlyReads
    <2> QED BY <2>2 DEF rs
<1>3. Over(r)[r] = Idle /\ \A q \in Requests : q # r => Over(r)[q] = requests[q]
    BY DEF TypeOK, Over
<1>4. OnlyOf(r)
    BY <1>2, <1>3 DEF OnlyOf
<1>5. Idle.at = "idle" /\ Idle.chat = None /\ Idle.kind = "" /\ Idle.for = None
    BY DEF Idle
<1> QED BY <1>2, <1>3, <1>4, <1>5

\* A step of one request changes its record, and of the others what was read.
LEMMA RequestSteps ==
    ASSUME TypeOK, NEW r \in Requests,
           GoesOn(r) \/ Begins(r) \/ \E c \in Ids : Makes(r, c)
    PROVE  OnlyOf(r)
<1>0. requests[r] \in Request
    BY DEF TypeOK
<1>1. CASE Claim(r) \/ Hold(r) \/ EditClaims(r) \/ PressLooks(r) \/ Wakes(r) \/ TakePause(r)
    <2>1. requests' = Over(r) \/ \E at \in Places : requests' = At(r, at)
        BY <1>1 DEF Claim, Hold, EditClaims, PressLooks, Wakes, TakePause, Places
    <2> QED BY <2>1, Moved
<1>2. CASE Edit(r) \/ RenameWrites(r)
    BY <1>2, Moved, OneRecordAndReads DEF Edit, RenameWrites
<1>3. CASE LoadPaused(r)
    <2>1. CASE requests[r].chat \in live
        BY <1>0, <1>3, <2>1, OneRecord, FieldTypes DEF LoadPaused
    <2>2. CASE requests[r].chat \notin live
        BY <1>3, <2>2, Moved DEF LoadPaused, Places
    <2> QED BY <2>1, <2>2
<1>4. CASE StartFails(r) \/ ChangeFails(r) \/ Delete(r) \/ ForkFails(r) \/ EditSends(r) \/ PutBack(r)
    BY <1>4, Moved DEF StartFails, ChangeFails, Delete, ForkFails, EditSends, PutBack
<1>5. CASE Schedule(r)
    BY <1>0, <1>5, OneRecord, FieldTypes DEF Schedule
<1>6. CASE NewChat(r)
    <2>1. [Idle EXCEPT !.at = "starting", !.kind = "new"] \in Request
        BY DEF Idle, Request, Places, Read
    <2> QED BY <1>6, <2>1, OneRecord DEF NewChat
<1>8. ASSUME NEW c \in Ids, Send(r, c) \/ Rename(r, c) \/ Press(r, c) \/ Change(r, c)
      PROVE  OnlyOf(r)
    <2>1. CASE Send(r, c)
        BY <2>1, OneRecord, BegunTypes DEF Send
    <2>2. CASE Rename(r, c)
        BY <2>2, OneRecord, BegunTypes DEF Rename
    <2>3. CASE Press(r, c)
        BY <2>3, OneRecord, BegunTypes DEF Press, TypeOK
    <2>4. CASE Change(r, c)
        BY <2>4, OneRecord, BegunTypes DEF Change
    <2> QED BY <1>8, <2>1, <2>2, <2>3, <2>4
<1>7. ASSUME NEW c \in Ids, Makes(r, c)
      PROVE OnlyOf(r)
    BY <1>0, <1>7, OneRecord, FieldTypes, Moved DEF Makes, StartChat, Fork, EditForks
<1> QED BY <1>1, <1>2, <1>3, <1>4, <1>5, <1>6, <1>7, <1>8 DEF GoesOn, Begins

(***************************************************************************)
(* Types, what a request's chat is, and the numbers of pauses              *)
(***************************************************************************)

\* A pause has a number already given out, and waits for a window no further
\* than that.
Known(p, n) == p # None => p.seq <= n /\ p.opens <= n

Counted ==
    /\ opened <= paused
    /\ Known(pause, paused)
    /\ \A r \in Requests : Known(requests[r].for, paused)

RequestStep(r) == GoesOn(r) \/ Begins(r) \/ \E c \in Ids : Makes(r, c)

LEMMA ChatIsAChat ==
    ASSUME TypeOK, Placed, NEW r \in Requests, requests[r].at \notin {"idle", "starting"}
    PROVE  requests[r].chat \in Ids /\ requests[r].read \in Read
BY DEF TypeOK, Placed, WellPlaced, Request

LEMMA ForkIsAChat ==
    ASSUME TypeOK, Placed, NEW r \in Requests, requests[r].at = "forked"
    PROVE  requests[r].fork \in Ids
BY DEF TypeOK, Placed, WellPlaced

LEMMA ForIsAPause ==
    ASSUME TypeOK, Placed, NEW r \in Requests, requests[r].at \in ForAPause
    PROVE  requests[r].for \in Pause
BY DEF Placed, WellPlaced

LEMMA TaskTypes ==
    ASSUME TypeOK, NEW c \in Ids, NEW read \in Read, Runs(c, read)
    PROVE  running' \subseteq [chat : Ids, read : Read, over : BOOLEAN]
<1>1. [chat |-> c, read |-> read, over |-> FALSE] \in [chat : Ids, read : Read, over : BOOLEAN]
    OBVIOUS
<1> QED BY <1>1 DEF TypeOK, Runs

LEMMA RequestTypeStep ==
    ASSUME TypeOK, Placed, NEW r \in Requests, RequestStep(r)
    PROVE  TypeOK'
<1>0. requests' \in [Requests -> Request]
    BY RequestSteps DEF RequestStep, OnlyOf
<1>1. CASE Claim(r)
    <2>1. requests[r].chat \in Ids /\ requests[r].read \in Read /\ requests[r].for \in Pause \cup {None}
        BY <1>1, ChatIsAChat DEF Claim, TypeOK, Request
    <2>2. CASE MayClaim(requests[r].chat)
        <3>1. /\ turn' = requests[r].chat
              /\ Runs(requests[r].chat, requests[r].read)
              /\ bare' \subseteq bare /\ UNCHANGED <<uses, live, trash, acting, pause, resume, paused, opened>>
              /\ \/ sent' = sent /\ settled' = settled
                 \/ /\ requests[r].for \in Pause
                    /\ sent' = [sent EXCEPT ![requests[r].for.seq] = @ + 1]
                    /\ settled' = settled \cup {requests[r].for.seq}
            BY <1>1, <2>1, <2>2 DEF Claim
        <3>2. sent' \in [Pauses -> Nat] /\ settled' \subseteq Pauses
            BY <3>1 DEF TypeOK, Pause
        <3>3. running' \subseteq [chat : Ids, read : Read, over : BOOLEAN]
            BY <2>1, <3>1, TaskTypes
        <3>4. turn' \in Ids /\ UNCHANGED <<uses, live, trash, acting, pause, resume, paused, opened>>
            BY <2>1, <3>1
        <3> QED BY <1>0, <3>1, <3>2, <3>3, <3>4 DEF TypeOK
    <2>3. CASE ~MayClaim(requests[r].chat)
        BY <1>0, <1>1, <2>3 DEF Claim, TypeOK
    <2> QED BY <2>2, <2>3
<1>2. CASE Hold(r) \/ ChangeFails(r) \/ Edit(r) \/ Delete(r) \/ EditClaims(r) \/ ForkFails(r)
    <2>1. requests[r].chat \in Ids
        BY <1>2, ChatIsAChat DEF Hold, ChangeFails, Edit, Delete, EditClaims, ForkFails
    <2>2. TurnsBehind(requests[r].chat) \subseteq [chat : Ids, read : Read, over : BOOLEAN]
        BY TurnsBehindTypes DEF TypeOK
    <2> QED BY <1>0, <1>2, <2>1, <2>2
            DEF Hold, ChangeFails, Edit, Delete, EditClaims, ForkFails, TypeOK, LetGo, folder, limits
<1>3. CASE EditSends(r)
    <2>1. requests[r].fork \in Ids
        BY <1>3, ForkIsAChat DEF EditSends
    <2>2. running' \subseteq [chat : Ids, read : Read, over : BOOLEAN]
        BY <1>3, <2>1, TaskTypes DEF EditSends, Read
    <2> QED BY <1>0, <1>3, <2>1, <2>2 DEF EditSends, LetGo, TypeOK, limits
<1>4. CASE RenameWrites(r)
    <2>1. TurnsBehind(requests[r].chat) \subseteq [chat : Ids, read : Read, over : BOOLEAN]
        BY TurnsBehindTypes DEF TypeOK
    <2> QED BY <1>0, <1>4, <2>1 DEF RenameWrites, TypeOK, folder, limits
<1>5. CASE Schedule(r) \/ Wakes(r) \/ TakePause(r) \/ PutBack(r)
    <2>1. requests[r].for \in Pause
        BY <1>5, ForIsAPause DEF Schedule, Wakes, TakePause, PutBack, ForAPause
    <2>2. requests[r].for.seq \in Pauses
        BY <2>1 DEF Pause
    <2>3. CASE Schedule(r)
        BY <1>0, <2>2, <2>3 DEF Schedule, TypeOK, folder
    <2>4. CASE Wakes(r)
        BY <1>0, <2>4 DEF Wakes, TypeOK, folder
    <2>5. CASE TakePause(r)
        BY <1>0, <2>5 DEF TakePause, TypeOK, folder
    <2>6. CASE PutBack(r)
        BY <1>0, <2>1, <2>2, <2>6 DEF PutBack, TypeOK, folder
    <2> QED BY <1>5, <2>3, <2>4, <2>5, <2>6
<1>6. CASE StartFails(r) \/ PressLooks(r) \/ LoadPaused(r)
    BY <1>0, <1>6 DEF StartFails, PressLooks, LoadPaused, TypeOK, folder, limits
<1>7. CASE Begins(r)
    <2>1. UNCHANGED <<uses, folder, turn, acting, running, limits>>
        BY <1>7 DEF Begins, NewChat, Send, Rename, Press, Change
    <2> QED BY <1>0, <2>1 DEF TypeOK, folder, limits
<1>8. ASSUME NEW c \in Ids, Makes(r, c)
      PROVE  TypeOK'
    BY <1>0, <1>8 DEF Makes, StartChat, Fork, EditForks, LetGo, TypeOK, limits
<1> QED BY <1>1, <1>2, <1>3, <1>4, <1>5, <1>6, <1>7, <1>8 DEF RequestStep, GoesOn

\* A turn's end.
LEMMA TurnTypeStep ==
    ASSUME TypeOK, Counted, NEW t \in running,
           TurnEnds(t) \/ TurnFails(t) \/ TurnFrees(t)
               \/ \E opens \in {0, opened + 1} : TurnMeetsLimit(t, opens)
    PROVE  TypeOK'
<1>0. t \in [chat : Ids, read : Read, over : BOOLEAN]
    BY DEF TypeOK
<1>1. [t EXCEPT !.over = TRUE] \in [chat : Ids, read : Read, over : BOOLEAN]
    BY <1>0
<1>2. ASSUME PauseEnds(t.chat)
      PROVE  /\ Behind(t.chat, None, Cancelled(requests)) \in [Requests -> Request]
             /\ settled' \subseteq Pauses
             /\ resume' \in [seq : Pauses, by : Requests] \cup {None}
    BY <1>2, CancelledTypes, BehindOnlyReads
<1>3. CASE TurnEnds(t)
    BY <1>1, <1>2, <1>3 DEF TurnEnds, TypeOK, folder
<1>4. ASSUME NEW opens \in {0, opened + 1}, TurnMeetsLimit(t, opens)
      PROVE  TypeOK'
    <2>1. paused' \in Pauses /\ paused' \in 0..MaxPauses /\ opens \in 0..MaxPauses
        BY <1>4, ServeAssumption DEF TurnMeetsLimit, TypeOK, Counted, Pauses
    <2>2. pause' \in Pause
        BY <1>0, <1>4, <2>1 DEF TurnMeetsLimit, Pause
    <2> QED BY <1>1, <1>2, <1>4, <2>1, <2>2 DEF TurnMeetsLimit, TypeOK, folder
<1>5. CASE TurnFails(t)
    <2>1. requests' \in [Requests -> Request]
        BY <1>5, BehindOnlyReads DEF TurnFails, TypeOK
    <2> QED BY <1>1, <1>5, <2>1 DEF TurnFails, TypeOK, folder, limits
<1>6. CASE TurnFrees(t)
    BY <1>6 DEF TurnFrees, TypeOK, folder, limits
<1> QED BY <1>3, <1>4, <1>5, <1>6

LEMMA TypeStep == TypeOK /\ Placed /\ Counted /\ [Next]_vars => TypeOK'
<1> SUFFICES ASSUME TypeOK, Placed, Counted, [Next]_vars PROVE TypeOK'
    OBVIOUS
<1>1. CASE WindowOpens
    <2>1. \E p \in Pause : p.opens > opened
        BY <1>1 DEF WindowOpens, Exhausted, TypeOK, Request
    <2>2. opened' \in 0..MaxPauses
        BY <1>1, <2>1, ServeAssumption DEF WindowOpens, TypeOK, Pause
    <2> QED BY <1>1, <2>2 DEF WindowOpens, TypeOK, folder
<1>2. ASSUME NEW c \in Ids, Undelete(c) PROVE TypeOK'
    BY <1>2 DEF Undelete, TypeOK, limits
<1>3. CASE UNCHANGED vars
    BY <1>3 DEF vars, TypeOK, folder, limits, Request
<1> QED BY <1>1, <1>2, <1>3, RequestTypeStep, TurnTypeStep DEF Next, TurnGoesOn, RequestStep

\* Chats stay, in the folder or the trash.
LEMMA ChatsStay ==
    ASSUME Next
    PROVE  live \cup trash \subseteq live' \cup trash'
<1>1. ASSUME NEW r \in Requests, GoesOn(r)
      PROVE  live \cup trash \subseteq live' \cup trash'
    BY <1>1 DEF GoesOn, StartFails, Claim, Hold, ChangeFails, Edit, Delete, EditClaims, ForkFails, EditSends,
                RenameWrites, PressLooks, Schedule, Wakes, TakePause, LoadPaused, PutBack, folder
<1>2. ASSUME NEW r \in Requests, Begins(r) \/ \E c \in Ids : Makes(r, c)
      PROVE  live \cup trash \subseteq live' \cup trash'
    BY <1>2 DEF Begins, NewChat, Send, Rename, Press, Change, Makes, StartChat, Fork, EditForks, folder
<1>3. ASSUME TurnGoesOn \/ WindowOpens \/ \E c \in Ids : Undelete(c)
      PROVE  live \cup trash \subseteq live' \cup trash'
    BY <1>3 DEF TurnGoesOn, TurnEnds, TurnFails, TurnFrees, TurnMeetsLimit, WindowOpens, Undelete, folder
<1> QED BY <1>1, <1>2, <1>3 DEF Next

\* What a request's place says of it stays true of the others.
LEMMA OthersStayPlaced ==
    ASSUME TypeOK, Placed, NEW r \in Requests, OnlyOf(r),
           live \cup trash \subseteq live' \cup trash',
           WellPlaced(requests'[r], live' \cup trash')
    PROVE  Placed'
<1>1. ASSUME NEW q \in Requests, q # r
      PROVE  WellPlaced(requests'[q], live' \cup trash')
    BY <1>1 DEF Placed, OnlyOf, WellPlaced
<1> QED BY <1>1 DEF Placed

LEMMA IdleIsPlaced == ASSUME NEW chats PROVE WellPlaced(Idle, chats)
BY DEF WellPlaced, Idle, Holding, ForAPause

\* Going on to a place, it keeps its chat and what it is for.
LEMMA MovedIsPlaced ==
    ASSUME TypeOK, Placed, NEW r \in Requests, NEW at \in Places, requests' = At(r, at),
           live \cup trash \subseteq live' \cup trash',
           requests[r].at \notin {"idle", "starting"}, at \notin {"starting", "forked"},
           at \in Holding => requests[r].kind = "change",
           at \in ForAPause => requests[r].for \in Pause
    PROVE  WellPlaced(requests'[r], live' \cup trash')
<1>0. requests[r] \in Request /\ WellPlaced(requests[r], live' \cup trash')
    BY DEF TypeOK, Placed, WellPlaced
<1>1. requests'[r] = [requests[r] EXCEPT !.at = at]
    BY DEF TypeOK, At
<1>2. requests'[r].at = at /\ requests'[r].kind = requests[r].kind /\ requests'[r].chat = requests[r].chat
      /\ requests'[r].for = requests[r].for
    BY <1>0, <1>1 DEF Request
<1> QED BY <1>0, <1>2 DEF WellPlaced

LEMMA RequestPlacedStep ==
    ASSUME TypeOK, Placed, NEW r \in Requests, RequestStep(r),
           live \cup trash \subseteq live' \cup trash'
    PROVE  WellPlaced(requests'[r], live' \cup trash')
<1>0. requests[r] \in Request /\ WellPlaced(requests[r], live' \cup trash')
    BY DEF TypeOK, Placed, WellPlaced
<1>1. CASE requests' = Over(r)
    BY <1>1, IdleIsPlaced DEF Over, TypeOK
<1>2. CASE Edit(r) \/ RenameWrites(r)
    <2>1. CASE requests' = Behind(requests[r].chat, r, Over(r))
        BY <2>1, OneRecordAndReads DEF WellPlaced, Holding, ForAPause
    <2> QED BY <1>1, <1>2, <2>1 DEF Edit, RenameWrites
<1>3. CASE Claim(r)
    <2>1. requests' = Over(r) \/ (requests' = At(r, "failed") /\ requests[r].for # None)
        BY <1>3 DEF Claim
    <2>2. requests[r].at = "loaded" /\ requests[r].for \in Pause \cup {None}
        BY <1>0, <1>3 DEF Claim, Request
    <2> QED BY <1>1, <2>1, <2>2, MovedIsPlaced DEF Holding, Places
<1>4. CASE Hold(r) \/ EditClaims(r)
    <2>1. requests' = Over(r) \/ \E at \in {"held", "forking"} : requests' = At(r, at)
        BY <1>4 DEF Hold, EditClaims
    <2>2. requests[r].at \in {"loaded", "held"} /\ requests[r].kind = "change"
        BY <1>0, <1>4 DEF Hold, EditClaims, WellPlaced, Holding
    <2> QED BY <1>1, <2>1, <2>2, MovedIsPlaced DEF ForAPause, Places
<1>5. CASE PressLooks(r) \/ Wakes(r) \/ TakePause(r)
    <2>1. requests' = Over(r) \/ \E at \in {"scheduling", "resuming", "taken"} : requests' = At(r, at)
        BY <1>5 DEF PressLooks, Wakes, TakePause
    <2>2. requests[r].at \in ForAPause
        BY <1>5 DEF PressLooks, Wakes, TakePause, ForAPause
    <2>3. requests[r].for \in Pause
        BY <2>2, ForIsAPause
    <2> QED BY <1>1, <2>1, <2>2, <2>3, MovedIsPlaced DEF ForAPause, Holding, Places
<1>6. CASE LoadPaused(r)
    <2>1. requests[r].at = "taken" /\ requests[r].for \in Pause
        BY <1>6, ForIsAPause DEF LoadPaused, ForAPause
    <2>2. CASE requests[r].chat \in live
        <3>1. requests'[r] = [requests[r] EXCEPT !.at = "loaded", !.read = "whole"]
            BY <1>6, <2>2 DEF LoadPaused, TypeOK
        <3>2. requests'[r].at = "loaded" /\ requests'[r].kind = requests[r].kind
              /\ requests'[r].chat = requests[r].chat /\ requests'[r].for = requests[r].for
            BY <1>0, <3>1 DEF Request
        <3> QED BY <1>0, <2>1, <3>2 DEF WellPlaced, Holding, ForAPause
    <2>3. CASE requests[r].chat \notin live
        BY <1>6, <2>1, <2>3, MovedIsPlaced DEF LoadPaused, Holding, Places
    <2> QED BY <2>2, <2>3
<1>7. CASE Schedule(r)
    <2>1. requests[r].at = "scheduling" /\ requests[r].for \in Pause
        BY <1>7, ForIsAPause DEF Schedule, ForAPause
    <2>2. requests'[r] = [requests[r] EXCEPT !.at = "waiting", !.kind = "timer"]
        BY <1>7 DEF Schedule, TypeOK
    <2>3. requests'[r].at = "waiting" /\ requests'[r].kind = "timer"
          /\ requests'[r].chat = requests[r].chat /\ requests'[r].for = requests[r].for
        BY <1>0, <2>2 DEF Request
    <2> QED BY <1>0, <2>1, <2>3 DEF WellPlaced, Holding, ForAPause
<1>8. CASE StartFails(r) \/ ChangeFails(r) \/ Delete(r) \/ ForkFails(r) \/ EditSends(r) \/ PutBack(r)
    BY <1>1, <1>8 DEF StartFails, ChangeFails, Delete, ForkFails, EditSends, PutBack
<1>9. ASSUME NEW c \in Ids, Makes(r, c)
      PROVE  WellPlaced(requests'[r], live' \cup trash')
    <2>1. CASE StartChat(r, c)
        <3>1. requests'[r] = [requests[r] EXCEPT !.at = "loaded", !.chat = c, !.read = "whole"]
            BY <2>1 DEF StartChat, TypeOK
        <3>2. requests'[r].at = "loaded" /\ requests'[r].chat = c
            BY <1>0, <3>1 DEF Request
        <3>3. c \in live'
            BY <2>1 DEF StartChat
        <3> QED BY <3>2, <3>3, ServeAssumption DEF WellPlaced, Holding, ForAPause
    <2>2. CASE Fork(r, c)
        BY <1>1, <2>2 DEF Fork
    <2>3. CASE EditForks(r, c)
        <3>1. requests'[r] = [requests[r] EXCEPT !.at = "forked", !.fork = c]
            BY <2>3 DEF EditForks, TypeOK
        <3>2. requests'[r].at = "forked" /\ requests'[r].fork = c /\ requests'[r].kind = requests[r].kind
              /\ requests'[r].chat = requests[r].chat
            BY <1>0, <3>1 DEF Request
        <3>3. c \in live' /\ requests[r].at = "forking"
            BY <2>3 DEF EditForks
        <3> QED BY <1>0, <3>2, <3>3 DEF WellPlaced, Holding, ForAPause
    <2> QED BY <1>9, <2>1, <2>2, <2>3 DEF Makes
<1>10. CASE NewChat(r)
    BY <1>10 DEF NewChat, Idle, WellPlaced, Holding, ForAPause, TypeOK
<1>11. ASSUME NEW c \in Ids, Send(r, c) \/ Rename(r, c) \/ Press(r, c) \/ Change(r, c)
       PROVE  WellPlaced(requests'[r], live' \cup trash')
    <2>1. c \in live' \cup trash' /\ c # None
        BY <1>11, ServeAssumption DEF Send, Rename, Press, Change
    <2>2. CASE Send(r, c)
        BY <2>1, <2>2 DEF Send, Idle, WellPlaced, Holding, ForAPause, TypeOK
    <2>3. CASE Press(r, c)
        BY <2>1, <2>3 DEF Press, Idle, WellPlaced, Holding, ForAPause, TypeOK
    <2>4. CASE Rename(r, c)
        BY <2>1, <2>4 DEF Rename, Idle, WellPlaced, Holding, ForAPause, TypeOK
    <2>5. CASE Change(r, c)
        BY <2>1, <2>5 DEF Change, Idle, WellPlaced, Holding, ForAPause, TypeOK
    <2> QED BY <1>11, <2>2, <2>3, <2>4, <2>5
<1> QED BY <1>2, <1>3, <1>4, <1>5, <1>6, <1>7, <1>8, <1>9, <1>10, <1>11 DEF RequestStep, GoesOn, Begins

\* Two records that differ at most in what was read.
SameBut(p, q) == p.at = q.at /\ p.kind = q.kind /\ p.chat = q.chat /\ p.fork = q.fork /\ p.for = q.for

\* A turn's end takes at most the timer that waits, and reads.
LEMMA TurnsRequests ==
    ASSUME TypeOK, NEW t \in running,
           TurnEnds(t) \/ TurnFails(t) \/ TurnFrees(t)
               \/ \E opens \in {0, opened + 1} : TurnMeetsLimit(t, opens)
    PROVE  \A r \in Requests :
             SameBut(requests'[r], requests[r]) \/ (SameBut(requests'[r], Idle) /\ resume # None /\ resume' = None /\ resume.by = r)
<1>1. CASE TurnFrees(t)
    BY <1>1 DEF TurnFrees, SameBut
<1>2. CASE TurnFails(t)
    <2>1. requests' = Behind(t.chat, None, requests)
        BY <1>2 DEF TurnFails
    <2> QED BY <2>1, BehindOnlyReads DEF TypeOK, SameBut
<1>3. ASSUME PauseEnds(t.chat), requests' = Behind(t.chat, None, Cancelled(requests))
      PROVE  \A r \in Requests :
             SameBut(requests'[r], requests[r]) \/ (SameBut(requests'[r], Idle) /\ resume # None /\ resume' = None /\ resume.by = r)
    <2> DEFINE rs == Cancelled(requests)
    <2>1. rs \in [Requests -> Request]
        BY <1>3, CancelledTypes
    <2>2. \A r \in Requests : rs[r] = requests[r] \/ (rs[r] = Idle /\ resume # None /\ resume' = None /\ resume.by = r)
        BY DEF Cancelled, TypeOK
    <2>3. requests' = Behind(t.chat, None, rs)
        BY <1>3
    <2> HIDE DEF rs
    <2>4. \A r \in Requests : SameBut(requests'[r], rs[r])
        BY <2>1, <2>3, BehindOnlyReads DEF SameBut
    <2> QED BY <2>2, <2>4
<1> QED BY <1>1, <1>2, <1>3 DEF TurnEnds, TurnMeetsLimit

LEMMA PlacedStep == TypeOK /\ Placed /\ [Next]_vars => Placed'
<1> SUFFICES ASSUME TypeOK, Placed, [Next]_vars PROVE Placed'
    OBVIOUS
<1>1. ASSUME NEW r \in Requests, RequestStep(r), Next
      PROVE  Placed'
    BY <1>1, ChatsStay, RequestSteps, RequestPlacedStep, OthersStayPlaced DEF RequestStep
<1>2. CASE Next /\ TurnGoesOn
    <2>1. \A r \in Requests : SameBut(requests'[r], requests[r]) \/ SameBut(requests'[r], Idle)
        BY <1>2, TurnsRequests DEF TurnGoesOn
    <2>2. ASSUME NEW r \in Requests PROVE WellPlaced(requests'[r], live' \cup trash')
        <3>1. WellPlaced(requests[r], live' \cup trash') /\ WellPlaced(Idle, live' \cup trash')
            BY <1>2, ChatsStay, IdleIsPlaced DEF Placed, WellPlaced
        <3> QED BY <2>1, <3>1 DEF SameBut, WellPlaced
    <2> QED BY <2>2 DEF Placed
<1>3. CASE Next /\ (WindowOpens \/ \E c \in Ids : Undelete(c))
    BY <1>3, ChatsStay DEF WindowOpens, Undelete, Placed, WellPlaced
<1>4. CASE UNCHANGED vars
    BY <1>4 DEF vars, folder, Placed, WellPlaced
<1> QED BY <1>1, <1>2, <1>3, <1>4 DEF Next, RequestStep

\* A step of a request keeps what it is for, forgets it, or reads the pause.
LEMMA WhatItIsFor ==
    ASSUME TypeOK, NEW r \in Requests, RequestStep(r)
    PROVE  requests'[r].for \in {requests[r].for, None, pause}
<1>0. requests[r] \in Request
    BY DEF TypeOK
<1>1. CASE requests' = Over(r)
    BY <1>1 DEF Over, Idle, TypeOK
<1>2. ASSUME NEW at, requests' = At(r, at)
      PROVE  requests'[r].for = requests[r].for
    BY <1>0, <1>2 DEF At, TypeOK, Request
<1>3. CASE Edit(r) \/ RenameWrites(r)
    BY <1>1, <1>3, OneRecordAndReads DEF Edit, RenameWrites
<1>4. CASE Claim(r) \/ Hold(r) \/ EditClaims(r) \/ PressLooks(r) \/ Wakes(r) \/ TakePause(r)
    BY <1>1, <1>2, <1>4 DEF Claim, Hold, EditClaims, PressLooks, Wakes, TakePause
<1>5. CASE LoadPaused(r) \/ Schedule(r)
    <2>1. CASE Schedule(r)
        BY <1>0, <2>1 DEF Schedule, TypeOK, Request
    <2>2. CASE LoadPaused(r)
        BY <1>0, <1>2, <2>2 DEF LoadPaused, TypeOK, Request
    <2> QED BY <1>5, <2>1, <2>2
<1>6. CASE StartFails(r) \/ ChangeFails(r) \/ Delete(r) \/ ForkFails(r) \/ EditSends(r) \/ PutBack(r)
    BY <1>1, <1>6 DEF StartFails, ChangeFails, Delete, ForkFails, EditSends, PutBack
<1>7. ASSUME NEW c \in Ids, Makes(r, c)
      PROVE  requests'[r].for \in {requests[r].for, None, pause}
    <2>1. CASE StartChat(r, c)
        BY <1>0, <2>1 DEF StartChat, TypeOK, Request
    <2>2. CASE EditForks(r, c)
        BY <1>0, <2>2 DEF EditForks, TypeOK, Request
    <2>3. CASE Fork(r, c)
        BY <1>1, <2>3 DEF Fork
    <2> QED BY <1>7, <2>1, <2>2, <2>3 DEF Makes
<1>8. CASE NewChat(r)
    BY <1>8 DEF NewChat, Idle, TypeOK
<1>9. ASSUME NEW c \in Ids, Send(r, c) \/ Rename(r, c) \/ Press(r, c) \/ Change(r, c)
      PROVE  requests'[r].for \in {requests[r].for, None, pause}
    <2>1. CASE Send(r, c)
        BY <2>1 DEF Send, Idle, TypeOK
    <2>2. CASE Rename(r, c)
        BY <2>2 DEF Rename, Idle, TypeOK
    <2>3. CASE Press(r, c)
        BY <2>3 DEF Press, Idle, TypeOK
    <2>4. CASE Change(r, c)
        BY <2>4 DEF Change, Idle, TypeOK
    <2> QED BY <1>9, <2>1, <2>2, <2>3, <2>4
<1> QED BY <1>3, <1>4, <1>5, <1>6, <1>7, <1>8, <1>9 DEF RequestStep, GoesOn, Begins

LEMMA CountsAlone ==
    ASSUME NEW r \in Requests, RequestStep(r)
    PROVE  paused' = paused /\ opened' = opened
               /\ (pause' = pause \/ pause' = None \/ pause' = requests[r].for)
<1>1. CASE GoesOn(r)
    BY <1>1 DEF GoesOn, StartFails, Claim, Hold, ChangeFails, Edit, Delete, EditClaims, ForkFails, EditSends,
                RenameWrites, PressLooks, Schedule, Wakes, TakePause, LoadPaused, PutBack, limits
<1>2. CASE Begins(r) \/ \E c \in Ids : Makes(r, c)
    BY <1>2 DEF Begins, NewChat, Send, Rename, Press, Change, Makes, StartChat, Fork, EditForks, limits
<1> QED BY <1>1, <1>2 DEF RequestStep

LEMMA CountedStep == TypeOK /\ Counted /\ [Next]_vars => Counted'
<1> SUFFICES ASSUME TypeOK, Counted, [Next]_vars PROVE Counted'
    OBVIOUS
<1>1. ASSUME NEW r \in Requests, RequestStep(r)
      PROVE  Counted'
    <2>1. Known(requests'[r].for, paused') /\ Known(pause', paused')
        BY <1>1, WhatItIsFor, CountsAlone DEF Counted, Known
    <2>2. \A q \in Requests : q # r => requests'[q].for = requests[q].for
        BY <1>1, RequestSteps DEF RequestStep, OnlyOf
    <2> QED BY <1>1, <2>1, <2>2, CountsAlone DEF Counted, Known
<1>2. ASSUME NEW t \in running,
             TurnEnds(t) \/ TurnFails(t) \/ TurnFrees(t)
                 \/ \E opens \in {0, opened + 1} : TurnMeetsLimit(t, opens)
      PROVE  Counted'
    <2>1. \A r \in Requests : requests'[r].for \in {requests[r].for, None}
        BY <1>2, TurnsRequests DEF SameBut, Idle
    <2>2. /\ opened' = opened /\ paused' \in {paused, paused + 1} /\ paused \in Nat /\ opened \in Nat
          /\ \/ pause' = pause \/ pause' = None
             \/ pause'.seq = paused' /\ pause'.opens \in {0, opened + 1} /\ paused' = paused + 1
        BY <1>2 DEF TurnEnds, TurnFails, TurnFrees, TurnMeetsLimit, TypeOK, limits
    <2>3. \A p \in Pause \cup {None} : Known(p, paused) => Known(p, paused')
        <3>1. ASSUME NEW p \in Pause PROVE p.seq \in Nat /\ p.opens \in Nat
            BY ServeAssumption DEF Pause, Pauses
        <3> QED BY <2>2, <3>1 DEF Known
    <2>4. \A r \in Requests : Known(requests'[r].for, paused')
        BY <2>1, <2>3 DEF Counted, TypeOK, Request, Known
    <2>5. Known(pause', paused')
        BY <2>2, <2>3 DEF Counted, Known, TypeOK
    <2>6. opened' <= paused'
        BY <2>2 DEF Counted
    <2> QED BY <2>4, <2>5, <2>6 DEF Counted
<1>3. CASE WindowOpens
    <2>1. \E p : p # None /\ Known(p, paused) /\ p.opens > opened /\ p \in Pause
        BY <1>3 DEF WindowOpens, Exhausted, Counted, TypeOK, Request
    <2> QED BY <1>3, <2>1 DEF WindowOpens, Counted, Known, TypeOK, Pause
<1>4. CASE UNCHANGED vars \/ \E c \in Ids : Undelete(c)
    BY <1>4 DEF vars, limits, Undelete, Counted, Known
<1> QED BY <1>1, <1>2, <1>3, <1>4 DEF Next, RequestStep, TurnGoesOn

----------------------------------------------------------------------------
(***************************************************************************)
(* The timer that is promised                                              *)
(***************************************************************************)

Gone(r) == SameBut(requests'[r], Idle)

Goes(r, at) ==
    /\ requests'[r].at = at /\ requests'[r].kind = requests[r].kind
    /\ requests'[r].chat = requests[r].chat /\ requests'[r].fork = requests[r].fork
    /\ requests'[r].for = requests[r].for

LEMMA GoneIsOver ==
    ASSUME TypeOK, NEW r \in Requests, requests' = Over(r)
    PROVE  Gone(r)
BY DEF TypeOK, Over, Gone, SameBut

LEMMA GoneAfterAWrite ==
    ASSUME TypeOK, NEW r \in Requests, NEW c, NEW by, requests' = Behind(c, by, Over(r))
    PROVE  Gone(r)
<1> DEFINE rs == Over(r)
<1>1. rs \in [Requests -> Request] /\ rs[r] = Idle
    BY IdleIsRequest DEF TypeOK, Over
<1>2. requests' = Behind(c, by, rs)
    OBVIOUS
<1> HIDE DEF rs
<1> QED BY <1>1, <1>2, BehindOnlyReads DEF Gone, SameBut

LEMMA GoesThere ==
    ASSUME TypeOK, NEW r \in Requests, NEW at, requests' = At(r, at)
    PROVE  Goes(r, at)
<1>1. requests[r] \in Request
    BY DEF TypeOK
<1> QED BY <1>1 DEF TypeOK, At, Goes, Request

LEMMA StartedAt ==
    ASSUME TypeOK, NEW r \in Requests, NEW c, StartChat(r, c)
    PROVE  requests'[r].at = "loaded" /\ requests'[r].kind = requests[r].kind
               /\ requests'[r].chat = c /\ requests'[r].for = requests[r].for
<1>1. requests[r] \in Request
    BY DEF TypeOK
<1>2. requests'[r] = [requests[r] EXCEPT !.at = "loaded", !.chat = c, !.read = "whole"]
    BY DEF StartChat, TypeOK
<1> QED BY <1>1, <1>2 DEF Request

LEMMA ForkedAt ==
    ASSUME TypeOK, NEW r \in Requests, NEW f, EditForks(r, f)
    PROVE  /\ requests[r].at = "forking" /\ requests'[r].at = "forked" /\ requests'[r].fork = f
           /\ requests'[r].chat = requests[r].chat /\ requests'[r].kind = requests[r].kind
<1>1. requests[r] \in Request
    BY DEF TypeOK
<1>2. requests'[r] = [requests[r] EXCEPT !.at = "forked", !.fork = f] /\ requests[r].at = "forking"
    BY DEF EditForks, TypeOK
<1> QED BY <1>1, <1>2 DEF Request

LEMMA LoadedAt ==
    ASSUME TypeOK, NEW r \in Requests, LoadPaused(r)
    PROVE  Goes(r, "loaded") \/ Goes(r, "failed")
<1>1. requests[r] \in Request
    BY DEF TypeOK
<1>2. CASE requests[r].chat \in live
    <2>1. requests'[r] = [requests[r] EXCEPT !.at = "loaded", !.read = "whole"]
        BY <1>2 DEF LoadPaused, TypeOK
    <2> QED BY <1>1, <2>1 DEF Goes, Request
<1>3. CASE requests[r].chat \notin live
    BY <1>3, GoesThere DEF LoadPaused
<1> QED BY <1>2, <1>3

LEMMA ScheduledAt ==
    ASSUME TypeOK, NEW r \in Requests, Schedule(r)
    PROVE  requests'[r].at = "waiting" /\ requests'[r].kind = "timer"
               /\ requests'[r].chat = requests[r].chat /\ requests'[r].for = requests[r].for
<1>1. requests[r] \in Request
    BY DEF TypeOK
<1>2. requests'[r] = [requests[r] EXCEPT !.at = "waiting", !.kind = "timer"]
    BY DEF Schedule, TypeOK
<1> QED BY <1>1, <1>2 DEF Request

\* A request begins to do one of five things, for a chat in the folder.
Begun(r, at, kind, chat, for) ==
    /\ requests[r].at = "idle"
    /\ requests'[r].at = at /\ requests'[r].kind = kind
    /\ requests'[r].chat = chat /\ requests'[r].for = for

LEMMA BegunAt ==
    ASSUME TypeOK, NEW r \in Requests
    PROVE  /\ NewChat(r) => Begun(r, "starting", "new", None, None)
           /\ \A c \in Ids :
                /\ Send(r, c) => Begun(r, "loaded", "send", c, None)
                /\ Rename(r, c) => Begun(r, "renaming", "", c, None)
                /\ Press(r, c) => Begun(r, "pressed", "resume", c, pause)
                /\ Change(r, c) => Begun(r, "loaded", "change", c, None)
<1>0. requests \in [Requests -> Request] /\ Idle.at = "idle"
    BY DEF TypeOK, Idle
<1>1. ASSUME NewChat(r)
      PROVE  Begun(r, "starting", "new", None, None)
    <2>1. requests[r] = Idle /\ requests'[r] = [Idle EXCEPT !.at = "starting", !.kind = "new"]
        BY <1>0, <1>1 DEF NewChat
    <2> QED BY <1>0, <2>1 DEF Begun, Idle
<1>2. ASSUME NEW c \in Ids, Send(r, c)
      PROVE  Begun(r, "loaded", "send", c, None)
    <2>1. requests[r] = Idle /\ requests'[r] = 
           [Idle EXCEPT !.at = "loaded", !.kind = "send", !.chat = c, !.read = "whole"]
        BY <1>0, <1>2 DEF Send
    <2> QED BY <1>0, <2>1 DEF Begun, Idle
<1>3. ASSUME NEW c \in Ids, Rename(r, c)
      PROVE  Begun(r, "renaming", "", c, None)
    <2>1. requests[r] = Idle /\ requests'[r] = [Idle EXCEPT !.at = "renaming", !.chat = c]
        BY <1>0, <1>3 DEF Rename
    <2> QED BY <1>0, <2>1 DEF Begun, Idle
<1>4. ASSUME NEW c \in Ids, Press(r, c)
      PROVE  Begun(r, "pressed", "resume", c, pause)
    <2>1. requests[r] = Idle /\ requests'[r] = 
           [Idle EXCEPT !.at = "pressed", !.kind = "resume", !.chat = c, !.for = pause]
        BY <1>0, <1>4 DEF Press
    <2> QED BY <1>0, <2>1 DEF Begun, Idle
<1>5. ASSUME NEW c \in Ids, Change(r, c)
      PROVE  Begun(r, "loaded", "change", c, None)
    <2>1. requests[r] = Idle /\ requests'[r] = 
           [Idle EXCEPT !.at = "loaded", !.kind = "change", !.chat = c, !.read = "whole"]
        BY <1>0, <1>5 DEF Change
    <2> QED BY <1>0, <2>1 DEF Begun, Idle
<1> QED BY <1>1, <1>2, <1>3, <1>4, <1>5

\* The resume that is promised is a timer that waits.
TimerWaits ==
    resume # None => /\ requests[resume.by].at = "waiting"
                     /\ requests[resume.by].for.seq = resume.seq

LEMMA TimerStep == TypeOK /\ TimerWaits /\ [Next]_vars => TimerWaits'
<1> SUFFICES ASSUME TypeOK, TimerWaits, [Next]_vars PROVE TimerWaits'
    OBVIOUS
<1>1. ASSUME NEW r \in Requests, Schedule(r)
      PROVE  TimerWaits'
    <2>1. resume' = [seq |-> requests[r].for.seq, by |-> r]
        BY <1>1 DEF Schedule
    <2>2. requests'[r].at = "waiting" /\ requests'[r].for = requests[r].for
        BY <1>1 DEF Schedule, TypeOK, Request
    <2> QED BY <2>1, <2>2 DEF TimerWaits
<1>2. ASSUME NEW r \in Requests, RequestStep(r), resume' = resume, requests[r].at # "waiting"
      PROVE  TimerWaits'
    BY <1>2, RequestSteps DEF RequestStep, OnlyOf, TimerWaits, TypeOK
<1>3. ASSUME NEW r \in Requests, Wakes(r)
      PROVE  TimerWaits'
    <2>1. CASE resume # None /\ resume.seq = requests[r].for.seq
        BY <1>3, <2>1 DEF Wakes, TimerWaits
    <2>2. CASE ~(resume # None /\ resume.seq = requests[r].for.seq)
        <3>1. resume' = resume /\ OnlyOf(r)
            BY <1>3, <2>2, RequestSteps DEF Wakes, GoesOn
        <3>2. resume # None => resume.by # r /\ resume.by \in Requests
            BY <2>2 DEF TimerWaits, TypeOK
        <3> QED BY <3>1, <3>2 DEF TimerWaits, OnlyOf
    <2> QED BY <2>1, <2>2
<1>4. ASSUME NEW r \in Requests, RequestStep(r), ~Schedule(r), ~Wakes(r)
      PROVE  resume' = resume /\ requests[r].at # "waiting"
    <2>1. CASE GoesOn(r)
        BY <1>4, <2>1
           DEF GoesOn, StartFails, Claim, Hold, ChangeFails, Edit, Delete, EditClaims, ForkFails, EditSends,
               RenameWrites, PressLooks, TakePause, LoadPaused, PutBack, limits
    <2>2. CASE Begins(r)
        <3>1. requests[r].at = "idle"
            BY <2>2, BegunAt DEF Begins, Begun
        <3>2. UNCHANGED limits
            BY <2>2 DEF Begins, NewChat, Send, Rename, Press, Change
        <3> QED BY <3>1, <3>2 DEF limits
    <2>3. CASE \E c \in Ids : Makes(r, c)
        BY <2>3 DEF Makes, StartChat, Fork, EditForks, limits
    <2> QED BY <1>4, <2>1, <2>2, <2>3 DEF RequestStep
<1>5. ASSUME NEW t \in running,
             TurnEnds(t) \/ TurnFails(t) \/ TurnFrees(t)
                 \/ \E opens \in {0, opened + 1} : TurnMeetsLimit(t, opens)
      PROVE  TimerWaits'
    <2>1. resume' = resume \/ resume' = None
        BY <1>5 DEF TurnEnds, TurnFails, TurnFrees, TurnMeetsLimit, PauseEnds, limits
    <2> QED BY <1>5, <2>1, TurnsRequests DEF TimerWaits, SameBut, TypeOK
<1>6. CASE UNCHANGED vars \/ WindowOpens \/ \E c \in Ids : Undelete(c)
    BY <1>6 DEF vars, limits, WindowOpens, Undelete, TimerWaits
<1> QED BY <1>1, <1>2, <1>3, <1>4, <1>5, <1>6 DEF Next, RequestStep, TurnGoesOn

----------------------------------------------------------------------------
(***************************************************************************)
(* The turn slot                                                           *)
(***************************************************************************)

Slotted == {"forking", "forked"}

\* A step that leaves the slot, and who has it, as they are.
LEMMA QuietSlot ==
    ASSUME TypeOK, SlotIsTheTurns, turn' = turn,
           running' = running \/ \E c : running' = TurnsBehind(c),
           \A r \in Requests : requests'[r].at \in Slotted <=> requests[r].at \in Slotted
    PROVE  SlotIsTheTurns'
<1>1. \A t, u \in running' : t = u
    BY DEF TurnsBehind, SlotIsTheTurns
<1>2. \A t \in running' : \E u \in running : t.chat = u.chat
    BY DEF TurnsBehind, TypeOK
<1>3. running # {} => running' # {}
    BY DEF TurnsBehind
<1> QED BY <1>1, <1>2, <1>3 DEF SlotIsTheTurns, HoldsSlot, Slotted

\* A step of a request outside an edit-and-send and a claim.
LEMMA UnslottedStep ==
    ASSUME TypeOK, SlotIsTheTurns, NEW r \in Requests, RequestStep(r),
           turn' = turn, running' = running \/ \E c : running' = TurnsBehind(c),
           requests[r].at \notin Slotted, requests'[r].at \notin Slotted
    PROVE  SlotIsTheTurns'
BY RequestSteps, QuietSlot DEF RequestStep, OnlyOf

LEMMA SlotRequestStep ==
    ASSUME TypeOK, Placed, SlotIsTheTurns, NEW r \in Requests, RequestStep(r)
    PROVE  SlotIsTheTurns'
<1>0. OnlyOf(r)
    BY RequestSteps DEF RequestStep
<1>1. CASE Claim(r)
    <2>1. requests[r].chat \in Ids /\ requests[r].at = "loaded"
        BY <1>1, ChatIsAChat DEF Claim
    <2>2. requests'[r].at \in {"idle", "failed"}
        BY <1>1, GoneIsOver, GoesThere DEF Claim, Gone, Goes, SameBut, Idle
    <2>3. CASE MayClaim(requests[r].chat)
        <3>1. turn = None /\ turn' = requests[r].chat
              /\ running' = running \cup {[chat |-> requests[r].chat, read |-> requests[r].read, over |-> FALSE]}
            BY <1>1, <2>3 DEF Claim, MayClaim, Runs
        <3>2. running = {} /\ \A q \in Requests : requests[q].at \notin Slotted
            BY <3>1, ServeAssumption DEF SlotIsTheTurns, HoldsSlot, Slotted, TypeOK
        <3>3. \A q \in Requests : requests'[q].at \notin Slotted
            BY <1>0, <2>2, <3>2 DEF OnlyOf, Slotted
        <3> QED BY <2>1, <3>1, <3>2, <3>3, ServeAssumption DEF SlotIsTheTurns, HoldsSlot, Slotted
    <2>4. CASE ~MayClaim(requests[r].chat)
        BY <1>1, <2>1, <2>2, <2>4, UnslottedStep DEF Claim, Slotted
    <2> QED BY <2>3, <2>4
<1>2. CASE EditClaims(r)
    <2>1. CASE MayClaim(Forking)
        <3>1. turn = None /\ turn' = Forking /\ running' = running /\ requests'[r].at = "forking"
            BY <1>2, <2>1, GoesThere DEF EditClaims, MayClaim, Goes
        <3>2. running = {} /\ \A q \in Requests : requests[q].at \notin Slotted
            BY <3>1, ServeAssumption DEF SlotIsTheTurns, HoldsSlot, Slotted, TypeOK
        <3> QED BY <1>0, <3>1, <3>2, ServeAssumption DEF SlotIsTheTurns, HoldsSlot, Slotted, OnlyOf
    <2>2. CASE ~MayClaim(Forking)
        BY <1>2, <2>2, GoneIsOver, UnslottedStep DEF EditClaims, Slotted, Gone, SameBut, Idle
    <2> QED BY <2>1, <2>2
<1>3. ASSUME NEW f \in Ids, EditForks(r, f)
      PROVE  SlotIsTheTurns'
    <2>1. requests[r].at = "forking" /\ requests'[r].at = "forked" /\ turn' = turn /\ running' = running
        BY <1>3 DEF EditForks, TypeOK, Request
    <2> QED BY <1>0, <2>1, QuietSlot DEF OnlyOf, Slotted
<1>4. CASE ForkFails(r) \/ EditSends(r)
    <2>1. requests[r].at \in Slotted /\ requests'[r].at = "idle"
        BY <1>4, GoneIsOver DEF ForkFails, EditSends, Slotted, Gone, SameBut, Idle
    <2>2. turn = Forking /\ running = {}
        BY <2>1, ServeAssumption DEF SlotIsTheTurns, HoldsSlot, Slotted, TypeOK
    <2>3. \A q \in Requests : requests'[q].at \notin Slotted
        BY <1>0, <2>1 DEF OnlyOf, SlotIsTheTurns, HoldsSlot, Slotted
    <2>4. CASE ForkFails(r)
        BY <2>2, <2>3, <2>4, ServeAssumption DEF ForkFails, SlotIsTheTurns, HoldsSlot, Slotted
    <2>5. CASE EditSends(r)
        <3>1. requests[r].fork \in Ids
            BY <2>5, ForkIsAChat DEF EditSends
        <3>2. turn' = requests[r].fork
              /\ running' = {[chat |-> requests[r].fork, read |-> "whole", over |-> FALSE]}
            BY <2>2, <2>5, ServeAssumption DEF EditSends, Runs
        <3> QED BY <2>3, <3>1, <3>2, ServeAssumption DEF SlotIsTheTurns, HoldsSlot, Slotted
    <2> QED BY <1>4, <2>4, <2>5
<1>5. CASE Edit(r) \/ RenameWrites(r)
    <2>1. requests'[r].at = "idle" /\ requests[r].at \notin Slotted
        BY <1>5, GoneIsOver, GoneAfterAWrite DEF Edit, RenameWrites, Gone, SameBut, Idle, Slotted
    <2> QED BY <1>5, <2>1, UnslottedStep DEF Edit, RenameWrites, Slotted
<1>6. CASE Hold(r) \/ PressLooks(r) \/ Wakes(r) \/ TakePause(r)
    <2>1. requests'[r].at \in {"idle", "held", "scheduling", "resuming", "taken"}
        BY <1>6, GoneIsOver, GoesThere DEF Hold, PressLooks, Wakes, TakePause, Gone, Goes, SameBut, Idle
    <2> QED BY <1>6, <2>1, UnslottedStep DEF Hold, PressLooks, Wakes, TakePause, Slotted
<1>7. CASE StartFails(r) \/ ChangeFails(r) \/ Delete(r) \/ PutBack(r)
    <2>1. requests'[r].at = "idle"
        BY <1>7, GoneIsOver DEF StartFails, ChangeFails, Delete, PutBack, Gone, SameBut, Idle
    <2> QED BY <1>7, <2>1, UnslottedStep DEF StartFails, ChangeFails, Delete, PutBack, Slotted
<1>8. CASE LoadPaused(r) \/ Schedule(r)
    <2>1. requests'[r].at \in {"loaded", "failed", "waiting"}
        BY <1>8, LoadedAt, ScheduledAt DEF Goes
    <2> QED BY <1>8, <2>1, UnslottedStep DEF LoadPaused, Schedule, Slotted
<1>9. CASE Begins(r)
    <2>1. requests'[r].at \in {"starting", "loaded", "renaming", "pressed"} /\ requests[r].at = "idle"
        BY <1>9, BegunAt DEF Begins, Begun
    <2>2. turn' = turn /\ running' = running
        BY <1>9 DEF Begins, NewChat, Send, Rename, Press, Change
    <2> QED BY <2>1, <2>2, UnslottedStep DEF Slotted
<1>10. ASSUME NEW c \in Ids, StartChat(r, c) \/ Fork(r, c)
       PROVE  SlotIsTheTurns'
    <2>1. requests'[r].at \in {"loaded", "idle"}
        <3>1. CASE StartChat(r, c)
            BY <3>1, StartedAt
        <3>2. CASE Fork(r, c)
            BY <3>2, GoneIsOver DEF Fork, Gone, SameBut, Idle
        <3> QED BY <1>10, <3>1, <3>2
    <2> QED BY <1>10, <2>1, UnslottedStep DEF StartChat, Fork, Slotted
<1> QED BY <1>1, <1>2, <1>3, <1>4, <1>5, <1>6, <1>7, <1>8, <1>9, <1>10 DEF RequestStep, GoesOn, Makes

LEMMA SlotStep == TypeOK /\ Placed /\ TimerWaits /\ SlotIsTheTurns /\ [Next]_vars => SlotIsTheTurns'
<1> SUFFICES ASSUME TypeOK, Placed, TimerWaits, SlotIsTheTurns, [Next]_vars PROVE SlotIsTheTurns'
    OBVIOUS
<1>1. ASSUME NEW t \in running,
             TurnEnds(t) \/ TurnFails(t) \/ TurnFrees(t)
                 \/ \E opens \in {0, opened + 1} : TurnMeetsLimit(t, opens)
      PROVE  SlotIsTheTurns'
    <2>1. \A r \in Requests : requests'[r].at \in Slotted <=> requests[r].at \in Slotted
        BY <1>1, TurnsRequests DEF SameBut, Idle, TimerWaits, Slotted
    <2>2. running = {t} /\ turn = t.chat /\ t.chat \in Ids
        BY DEF SlotIsTheTurns, TypeOK
    <2>3. CASE TurnFrees(t)
        BY <2>1, <2>2, <2>3, ServeAssumption DEF TurnFrees, SlotIsTheTurns, HoldsSlot, Slotted
    <2>4. CASE ~TurnFrees(t)
        <3>1. turn' = turn /\ running' = {[t EXCEPT !.over = TRUE]}
            BY <1>1, <2>2, <2>4 DEF TurnEnds, TurnFails, TurnMeetsLimit
        <3>2. [t EXCEPT !.over = TRUE].chat = t.chat
            BY DEF TypeOK
        <3> QED BY <2>1, <2>2, <3>1, <3>2, ServeAssumption DEF SlotIsTheTurns, HoldsSlot, Slotted
    <2> QED BY <2>3, <2>4
<1>2. CASE UNCHANGED vars \/ WindowOpens \/ \E c \in Ids : Undelete(c)
    BY <1>2, QuietSlot DEF vars, WindowOpens, Undelete
<1> QED BY <1>1, <1>2, SlotRequestStep DEF Next, RequestStep, TurnGoesOn

----------------------------------------------------------------------------
(***************************************************************************)
(* The chats that are held                                                 *)
(***************************************************************************)

\* What a request holds is in acting, and held by it alone; and a fork that is
\* not answered yet is no request's to change, unless he finds it in the list.
ForksUntouched ==
    \A q, r \in Requests :
        requests[r].at = "forked" /\ requests[q].kind = "change" => requests[q].chat # requests[r].fork

HeldApart ==
    /\ \A r \in Requests : HoldsChat(r) => requests[r].chat \in acting
    /\ \A q, r \in Requests : HoldsChat(q) /\ HoldsChat(r) /\ requests[q].chat = requests[r].chat => q = r
    /\ "listed" \notin uses => NoTurnsChatChanges /\ ForksUntouched

\* The tasks are of the chats they were of.
SameTurns == \A t \in running' : \E u \in running : t.chat = u.chat

LEMMA TurnsBehindTurns ==
    ASSUME TypeOK, running' = running \/ \E c : running' = TurnsBehind(c)
    PROVE  SameTurns
BY DEF SameTurns, TurnsBehind, TypeOK

\* A request that neither begins to hold a chat nor holds one, nor is to change
\* one that it was not to.
LEMMA QuietHeld ==
    ASSUME TypeOK, HeldApart, NEW r \in Requests, OnlyOf(r), uses' = uses, acting' = acting, SameTurns,
           requests[r].at \notin Holding, requests'[r].at \notin Holding,
           requests'[r].kind = "change" => requests[r].kind = "change" /\ requests'[r].chat = requests[r].chat
    PROVE  HeldApart'
BY DEF HeldApart, OnlyOf, SameTurns, Holding, HoldsChat, NoTurnsChatChanges, ForksUntouched

\* A request lets go of its chat and is over.
LEMMA LetsGo ==
    ASSUME TypeOK, HeldApart, NEW r \in Requests, OnlyOf(r), uses' = uses, LetGo(r), Gone(r),
           requests[r].at \in Holding,
           "listed" \notin uses => NoTurnsChatChanges'
    PROVE  HeldApart'
<1>1. requests'[r].at = "idle" /\ requests'[r].kind = ""
    BY DEF Gone, SameBut, Idle
<1>2. ASSUME NEW q \in Requests, HoldsChat(q)'
      PROVE  q # r /\ HoldsChat(q) /\ requests'[q].chat = requests[q].chat
    BY <1>1, <1>2 DEF HoldsChat, OnlyOf
<1>3. ASSUME NEW q \in Requests, HoldsChat(q)'
      PROVE  requests'[q].chat \in acting'
    BY <1>2, <1>3 DEF HeldApart, LetGo, HoldsChat, Holding
<1>4. \A p, q \in Requests : HoldsChat(p)' /\ HoldsChat(q)' /\ requests'[p].chat = requests'[q].chat => p = q
    BY <1>2 DEF HeldApart
<1>5. "listed" \notin uses => ForksUntouched'
    <2>1. ASSUME "listed" \notin uses, NEW p \in Requests, NEW q \in Requests,
                 requests'[p].at = "forked", requests'[q].kind = "change"
          PROVE  requests'[q].chat # requests'[p].fork
        <3>1. p # r /\ q # r
            BY <1>1, <2>1
        <3> QED BY <2>1, <3>1 DEF HeldApart, ForksUntouched, OnlyOf
    <2> QED BY <2>1 DEF ForksUntouched
<1> QED BY <1>3, <1>4, <1>5 DEF HeldApart

LEMMA SameTurnsApart ==
    ASSUME NoTurnsChatChanges, SameTurns, NEW r \in Requests, OnlyOf(r), Gone(r)
    PROVE  NoTurnsChatChanges'
<1>1. requests'[r].at = "idle"
    BY DEF Gone, SameBut, Idle
<1>2. ASSUME NEW t \in running', NEW q \in Requests, HoldsChat(q)'
      PROVE  requests'[q].chat # t.chat
    <2>1. q # r /\ HoldsChat(q) /\ requests'[q].chat = requests[q].chat
        BY <1>1, <1>2 DEF OnlyOf, HoldsChat
    <2>2. PICK u \in running : t.chat = u.chat
        BY DEF SameTurns
    <2> QED BY <2>1, <2>2 DEF NoTurnsChatChanges
<1> QED BY <1>2 DEF NoTurnsChatChanges

LEMMA HeldRequestStep ==
    ASSUME TypeOK, Placed, SlotIsTheTurns, HeldApart, NEW r \in Requests, RequestStep(r)
    PROVE  HeldApart'
<1>0. OnlyOf(r)
    BY RequestSteps DEF RequestStep
<1>1. CASE Claim(r)
    <2>1. requests[r].at = "loaded" /\ requests[r].kind # "change" /\ uses' = uses /\ acting' = acting
        BY <1>1 DEF Claim
    <2>2. Gone(r) \/ Goes(r, "failed")
        BY <1>1, GoneIsOver, GoesThere DEF Claim
    <2>3. requests'[r].at \notin Holding /\ requests'[r].kind # "change"
        BY <2>1, <2>2 DEF Gone, Goes, SameBut, Idle, Holding
    <2>4. CASE ~MayClaim(requests[r].chat)
        <3>1. SameTurns
            BY <1>1, <2>4 DEF Claim, SameTurns
        <3> QED BY <1>0, <2>1, <2>3, <3>1, QuietHeld DEF Holding
    <2>5. CASE MayClaim(requests[r].chat)
        <3>1. requests[r].chat \notin acting
              /\ \A t \in running' : t \in running \/ t.chat = requests[r].chat
            BY <1>1, <2>5 DEF Claim, MayClaim, Runs
        <3>2. "listed" \notin uses => NoTurnsChatChanges'
            BY <1>0, <2>1, <2>3, <3>1 DEF HeldApart, NoTurnsChatChanges, HoldsChat, Holding, OnlyOf
        <3> QED BY <1>0, <2>1, <2>3, <3>2 DEF HeldApart, ForksUntouched, HoldsChat, Holding, OnlyOf
    <2> QED BY <2>4, <2>5
<1>2. CASE Hold(r)
    <2>1. requests[r].at = "loaded" /\ requests[r].kind = "change" /\ uses' = uses /\ running' = running
        BY <1>2 DEF Hold, folder, limits
    <2>2. CASE turn # requests[r].chat /\ requests[r].chat \notin acting
        <3>1. acting' = acting \cup {requests[r].chat} /\ Goes(r, "held")
            BY <1>2, <2>2, GoesThere DEF Hold
        <3>2. ASSUME NEW q \in Requests, q # r, HoldsChat(q)'
              PROVE  HoldsChat(q) /\ requests'[q].chat = requests[q].chat /\ requests[q].chat # requests[r].chat
            BY <1>0, <2>2, <3>2 DEF HoldsChat, OnlyOf, HeldApart
        <3>3. \A q \in Requests : HoldsChat(q)' => requests'[q].chat \in acting'
            BY <3>1, <3>2 DEF HeldApart, Goes
        <3>4. \A p, q \in Requests :
                HoldsChat(p)' /\ HoldsChat(q)' /\ requests'[p].chat = requests'[q].chat => p = q
            BY <3>1, <3>2 DEF HeldApart, Goes
        <3>5. "listed" \notin uses => NoTurnsChatChanges'
            BY <2>1, <2>2, <3>1, <3>2 DEF HeldApart, NoTurnsChatChanges, SlotIsTheTurns, Goes
        <3>6. "listed" \notin uses => ForksUntouched'
            BY <1>0, <2>1, <3>1 DEF HeldApart, ForksUntouched, Goes, OnlyOf
        <3> QED BY <2>1, <3>3, <3>4, <3>5, <3>6 DEF HeldApart
    <2>3. CASE ~(turn # requests[r].chat /\ requests[r].chat \notin acting)
        <3>1. acting' = acting /\ Gone(r)
            BY <1>2, <2>3, GoneIsOver DEF Hold
        <3> QED BY <1>0, <2>1, <3>1, QuietHeld, TurnsBehindTurns DEF Gone, SameBut, Idle, Holding
    <2> QED BY <2>2, <2>3
<1>3. CASE ChangeFails(r) \/ Delete(r) \/ ForkFails(r) \/ Edit(r) \/ \E f \in Ids : Fork(r, f)
    <2>1. Gone(r) /\ LetGo(r) /\ uses' = uses /\ requests[r].at \in Holding
        BY <1>3, GoneIsOver, GoneAfterAWrite DEF ChangeFails, Delete, ForkFails, Edit, Fork, Holding
    <2>2. SameTurns
        BY <1>3, TurnsBehindTurns DEF ChangeFails, Delete, ForkFails, Edit, Fork
    <2> QED BY <1>0, <2>1, <2>2, LetsGo, SameTurnsApart DEF HeldApart
<1>4. CASE EditClaims(r)
    <2>1. requests[r].at = "held" /\ uses' = uses /\ running' = running
        BY <1>4 DEF EditClaims, folder, limits
    <2>2. CASE MayClaim(Forking)
        <3>1. acting' = acting /\ Goes(r, "forking")
            BY <1>4, <2>2, GoesThere DEF EditClaims
        <3> QED BY <1>0, <2>1, <3>1
                DEF Goes, OnlyOf, HeldApart, HoldsChat, NoTurnsChatChanges, ForksUntouched
    <2>3. CASE ~MayClaim(Forking)
        <3>1. LetGo(r) /\ Gone(r)
            BY <1>4, <2>3, GoneIsOver DEF EditClaims
        <3>2. SameTurns
            BY <2>1, TurnsBehindTurns
        <3> QED BY <1>0, <2>1, <3>1, <3>2, LetsGo, SameTurnsApart DEF HeldApart, Holding
    <2> QED BY <2>2, <2>3
<1>5. ASSUME NEW f \in Ids, EditForks(r, f)
      PROVE  HeldApart'
    <2>1. /\ requests[r].at = "forking" /\ requests'[r].at = "forked" /\ requests'[r].fork = f
          /\ requests'[r].chat = requests[r].chat /\ requests'[r].kind = requests[r].kind
        BY <1>5, ForkedAt
    <2>2. uses' = uses /\ acting' = acting /\ running' = running /\ f \notin live \cup trash
        BY <1>5 DEF EditForks, Unborn, limits
    <2>3. \A q \in Requests : requests[q].kind = "change" => requests[q].chat # f
        BY <2>2 DEF Placed, WellPlaced
    <2>4. "listed" \notin uses => ForksUntouched'
        BY <1>0, <2>1, <2>3 DEF HeldApart, ForksUntouched, OnlyOf
    <2> QED BY <1>0, <2>1, <2>2, <2>4 DEF OnlyOf, HeldApart, HoldsChat, NoTurnsChatChanges
<1>6. CASE EditSends(r)
    <2>1. Gone(r) /\ LetGo(r) /\ uses' = uses /\ requests[r].at = "forked"
        BY <1>6, GoneIsOver DEF EditSends
    <2>2. \A t \in running' : t \in running \/ t.chat = requests[r].fork
        BY <1>6 DEF EditSends, Runs
    <2>3. ASSUME NEW q \in Requests, HoldsChat(q)'
          PROVE  HoldsChat(q) /\ requests'[q].chat = requests[q].chat /\ requests[q].kind = "change"
        BY <1>0, <2>1, <2>3 DEF Gone, SameBut, Idle, HoldsChat, OnlyOf, Placed, WellPlaced, Holding
    <2>4. "listed" \notin uses => NoTurnsChatChanges'
        BY <2>1, <2>2, <2>3 DEF HeldApart, NoTurnsChatChanges, ForksUntouched
    <2> QED BY <1>0, <2>1, <2>4, LetsGo DEF Holding
<1>7. CASE StartFails(r) \/ RenameWrites(r) \/ PutBack(r)
    <2>1. Gone(r) /\ uses' = uses /\ acting' = acting /\ requests[r].at \notin Holding
        BY <1>7, GoneIsOver, GoneAfterAWrite DEF StartFails, RenameWrites, PutBack, Holding
    <2>2. SameTurns
        BY <1>7, TurnsBehindTurns DEF StartFails, RenameWrites, PutBack
    <2> QED BY <1>0, <2>1, <2>2, QuietHeld DEF Gone, SameBut, Idle, Holding
<1>8. CASE PressLooks(r) \/ Wakes(r) \/ TakePause(r) \/ LoadPaused(r)
    <2>1. Gone(r) \/ \E at \in {"scheduling", "resuming", "taken", "loaded", "failed"} : Goes(r, at)
        BY <1>8, GoneIsOver, GoesThere, LoadedAt DEF PressLooks, Wakes, TakePause
    <2>2. uses' = uses /\ acting' = acting /\ running' = running /\ requests[r].at \notin Holding
        BY <1>8 DEF PressLooks, Wakes, TakePause, LoadPaused, Holding
    <2>3. SameTurns
        BY <2>2, TurnsBehindTurns
    <2> QED BY <1>0, <2>1, <2>2, <2>3, QuietHeld DEF Gone, Goes, SameBut, Idle, Holding
<1>9. CASE Schedule(r)
    <2>1. uses' = uses /\ acting' = acting /\ running' = running /\ requests[r].at \notin Holding
        BY <1>9 DEF Schedule, Holding
    <2>2. SameTurns
        BY <2>1, TurnsBehindTurns
    <2> QED BY <1>0, <1>9, <2>1, <2>2, ScheduledAt, QuietHeld DEF Holding
<1>10. ASSUME NEW c \in Ids, StartChat(r, c)
       PROVE  HeldApart'
    <2>1. uses' = uses /\ acting' = acting /\ running' = running /\ requests[r].at = "starting"
        BY <1>10 DEF StartChat
    <2>2. SameTurns
        BY <2>1, TurnsBehindTurns
    <2>3. requests[r].kind # "change"
        BY <2>1 DEF Placed, WellPlaced
    <2> QED BY <1>0, <1>10, <2>1, <2>2, <2>3, StartedAt, QuietHeld DEF Holding
<1>11. CASE Begins(r)
    <2>1. uses' = uses /\ acting' = acting /\ running' = running
        BY <1>11 DEF Begins, NewChat, Send, Rename, Press, Change
    <2>2. SameTurns
        BY <2>1, TurnsBehindTurns
    <2>3. CASE ~\E c \in Ids : Change(r, c)
        <3>1. requests[r].at = "idle" /\ requests'[r].at \notin Holding /\ requests'[r].kind # "change"
            BY <1>11, <2>3, BegunAt DEF Begins, Begun, Holding
        <3> QED BY <1>0, <2>1, <2>2, <3>1, QuietHeld DEF Holding
    <2>4. ASSUME NEW c \in Ids, Change(r, c)
          PROVE  HeldApart'
        <3>1. /\ requests[r].at = "idle" /\ requests'[r].at = "loaded"
              /\ requests'[r].chat = c
            BY <2>4, BegunAt DEF Begun
        <3>2. "listed" \notin uses => \A q \in Requests : requests[q].at = "forked" => requests[q].fork # c
            BY <2>4 DEF Change, Unanswered
        <3>3. "listed" \notin uses => ForksUntouched'
            BY <1>0, <3>1, <3>2 DEF HeldApart, ForksUntouched, OnlyOf
        <3> QED BY <1>0, <2>1, <3>1, <3>3 DEF OnlyOf, HeldApart, HoldsChat, NoTurnsChatChanges
    <2> QED BY <2>3, <2>4
<1> QED BY <1>1, <1>2, <1>3, <1>4, <1>5, <1>6, <1>7, <1>8, <1>9, <1>10, <1>11
        DEF RequestStep, GoesOn, Makes

LEMMA HeldStep ==
    TypeOK /\ Placed /\ TimerWaits /\ SlotIsTheTurns /\ HeldApart /\ [Next]_vars => HeldApart'
<1> SUFFICES ASSUME TypeOK, Placed, TimerWaits, SlotIsTheTurns, HeldApart, [Next]_vars PROVE HeldApart'
    OBVIOUS
<1>1. ASSUME NEW t \in running,
             TurnEnds(t) \/ TurnFails(t) \/ TurnFrees(t)
                 \/ \E opens \in {0, opened + 1} : TurnMeetsLimit(t, opens)
      PROVE  HeldApart'
    <2>1. \A r \in Requests : SameBut(requests'[r], requests[r])
              \/ (requests'[r].at = "idle" /\ requests'[r].kind = "" /\ requests[r].at = "waiting")
        BY <1>1, TurnsRequests DEF SameBut, Idle, TimerWaits
    <2>2. uses' = uses /\ acting' = acting
        BY <1>1 DEF TurnEnds, TurnFails, TurnFrees, TurnMeetsLimit
    <2>3. [t EXCEPT !.over = TRUE].chat = t.chat
        BY DEF TypeOK
    <2>4. SameTurns
        BY <1>1, <2>3 DEF TurnEnds, TurnFails, TurnFrees, TurnMeetsLimit, SameTurns
    <2>5. ASSUME NEW q \in Requests, HoldsChat(q)'
          PROVE  HoldsChat(q) /\ requests'[q].chat = requests[q].chat
        BY <2>1, <2>5 DEF HoldsChat, SameBut
    <2>6. "listed" \notin uses => NoTurnsChatChanges'
        <3>1. ASSUME "listed" \notin uses, NEW u \in running', NEW q \in Requests, HoldsChat(q)'
              PROVE  requests'[q].chat # u.chat
            <4>1. PICK v \in running : u.chat = v.chat
                BY <2>4 DEF SameTurns
            <4> QED BY <2>5, <3>1, <4>1 DEF HeldApart, NoTurnsChatChanges
        <3> QED BY <3>1 DEF NoTurnsChatChanges
    <2>7. "listed" \notin uses => ForksUntouched'
        <3>1. ASSUME "listed" \notin uses, NEW p \in Requests, NEW q \in Requests,
                     requests'[p].at = "forked", requests'[q].kind = "change"
              PROVE  requests'[q].chat # requests'[p].fork
            <4>1. SameBut(requests'[p], requests[p]) /\ SameBut(requests'[q], requests[q])
                BY <2>1, <3>1
            <4> QED BY <3>1, <4>1 DEF HeldApart, ForksUntouched, SameBut
        <3> QED BY <3>1 DEF ForksUntouched
    <2>8. \A q \in Requests : HoldsChat(q)' => requests'[q].chat \in acting'
        BY <2>2, <2>5 DEF HeldApart
    <2>9. \A p, q \in Requests : HoldsChat(p)' /\ HoldsChat(q)' /\ requests'[p].chat = requests'[q].chat => p = q
        BY <2>5 DEF HeldApart
    <2> QED BY <2>2, <2>6, <2>7, <2>8, <2>9 DEF HeldApart
<1>2. CASE UNCHANGED vars \/ WindowOpens \/ \E c \in Ids : Undelete(c)
    <2>1. UNCHANGED <<uses, acting, running, requests>>
        BY <1>2 DEF vars, WindowOpens, Undelete
    <2> QED BY <2>1 DEF HeldApart, HoldsChat, NoTurnsChatChanges, ForksUntouched
<1> QED BY <1>1, <1>2, HeldRequestStep DEF Next, RequestStep, TurnGoesOn

----------------------------------------------------------------------------
(***************************************************************************)
(* A pause is resumed once                                                 *)
(***************************************************************************)

\* A request that has taken its pause, and has not resumed it or put it back.
MayResume(r) ==
    \/ requests[r].at \in {"taken", "failed"}
    \/ requests[r].at = "loaded" /\ requests[r].for # None

\* What is paused, or taken, was not resumed; and it is in one place.
SentApart ==
    /\ \A s \in Pauses : sent[s] <= 1 /\ (s > paused => sent[s] = 0)
    /\ pause # None => sent[pause.seq] = 0
    /\ \A r \in Requests :
        MayResume(r) => /\ sent[requests[r].for.seq] = 0
                        /\ pause # None => pause.seq # requests[r].for.seq
    /\ \A q, r \in Requests :
        MayResume(q) /\ MayResume(r) /\ requests[q].for.seq = requests[r].for.seq => q = r

InTime ==
    \A r \in Requests : requests[r].at \in {"resuming", "taken"} => ~Exhausted(requests[r].for)

LEMMA MayResumeAPause ==
    ASSUME TypeOK, Placed, Counted, NEW r \in Requests, MayResume(r)
    PROVE  requests[r].for \in Pause /\ requests[r].for.seq \in Pauses
               /\ requests[r].for.seq <= paused
<1>1. requests[r].for \in Pause
    BY DEF MayResume, Placed, WellPlaced, ForAPause, TypeOK, Request
<1> QED BY <1>1, ServeAssumption DEF Pause, Counted, Known

\* A step after which no more may be resumed than before, and nothing was.
LEMMA QuietSent ==
    ASSUME SentApart, sent' = sent, paused' = paused, pause' = pause \/ pause' = None,
           \A q \in Requests : MayResume(q)' => MayResume(q) /\ requests'[q].for = requests[q].for
    PROVE  SentApart'
BY DEF SentApart

\* One request goes on, with what it may resume.
LEMMA QuietRequest ==
    ASSUME TypeOK, SentApart, NEW r \in Requests, OnlyOf(r),
           sent' = sent, paused' = paused, pause' = pause \/ pause' = None,
           MayResume(r)' => MayResume(r) /\ requests'[r].for = requests[r].for
    PROVE  SentApart'
<1>1. \A q \in Requests : MayResume(q)' => MayResume(q) /\ requests'[q].for = requests[q].for
    BY DEF MayResume, OnlyOf
<1> QED BY <1>1, QuietSent

LEMMA GoneMayNot ==
    ASSUME NEW r \in Requests, Gone(r)
    PROVE  ~MayResume(r)'
BY DEF Gone, SameBut, Idle, MayResume

LEMMA ResumeRequestStep ==
    ASSUME TypeOK, Placed, Counted, SentApart, NEW r \in Requests, RequestStep(r)
    PROVE  SentApart'
<1>0. OnlyOf(r)
    BY RequestSteps DEF RequestStep
<1>1. CASE Claim(r)
    <2>1. requests[r].at = "loaded" /\ paused' = paused /\ pause' = pause
        BY <1>1 DEF Claim
    <2>2. CASE MayClaim(requests[r].chat) /\ requests[r].for # None
        <3>1. Gone(r) /\ sent' = [sent EXCEPT ![requests[r].for.seq] = @ + 1]
            BY <1>1, <2>2, GoneIsOver DEF Claim
        <3>2. MayResume(r) /\ requests[r].for.seq \in Pauses /\ requests[r].for.seq <= paused
            BY <2>1, <2>2, MayResumeAPause DEF MayResume
        <3>3. sent[requests[r].for.seq] = 0
            BY <3>2 DEF SentApart
        <3>4. /\ sent'[requests[r].for.seq] = 1
              /\ \A s \in Pauses : s # requests[r].for.seq => sent'[s] = sent[s]
            BY <3>1, <3>2, <3>3 DEF TypeOK
        <3>5. ASSUME NEW q \in Requests, MayResume(q)'
              PROVE  /\ MayResume(q) /\ requests'[q].for = requests[q].for /\ q # r
                     /\ requests[q].for.seq # requests[r].for.seq /\ requests[q].for.seq \in Pauses
            <4>1. q # r
                BY <3>1, <3>5, GoneMayNot
            <4>2. MayResume(q) /\ requests'[q].for = requests[q].for
                BY <1>0, <3>5, <4>1 DEF MayResume, OnlyOf
            <4> QED BY <3>2, <4>1, <4>2, MayResumeAPause DEF SentApart
        <3>6. \A s \in Pauses : sent'[s] <= 1 /\ (s > paused' => sent'[s] = 0)
            <4>1. ASSUME NEW s \in Pauses PROVE sent'[s] <= 1 /\ (s > paused' => sent'[s] = 0)
                <5>1. CASE s = requests[r].for.seq
                    <6>1. s \in Nat /\ paused \in Nat
                        BY ServeAssumption DEF TypeOK, Pauses
                    <6> QED BY <2>1, <3>2, <3>4, <5>1, <6>1
                <5>2. CASE s # requests[r].for.seq
                    BY <2>1, <3>4, <5>2 DEF SentApart
                <5> QED BY <5>1, <5>2
            <4> QED BY <4>1
        <3>7. pause' # None => sent'[pause'.seq] = 0
            BY <2>1, <3>2, <3>4 DEF SentApart, TypeOK, Pause
        <3>8. \A q \in Requests :
                MayResume(q)' => /\ sent'[requests'[q].for.seq] = 0
                                 /\ pause' # None => pause'.seq # requests'[q].for.seq
            BY <2>1, <3>4, <3>5 DEF SentApart
        <3>9. \A p, q \in Requests :
                MayResume(p)' /\ MayResume(q)' /\ requests'[p].for.seq = requests'[q].for.seq => p = q
            BY <3>5 DEF SentApart
        <3> QED BY <3>6, <3>7, <3>8, <3>9 DEF SentApart
    <2>3. CASE MayClaim(requests[r].chat) /\ requests[r].for = None
        <3>1. Gone(r) /\ sent' = sent
            BY <1>1, <2>3, GoneIsOver DEF Claim
        <3> QED BY <1>0, <2>1, <3>1, GoneMayNot, QuietRequest
    <2>4. CASE ~MayClaim(requests[r].chat)
        <3>1. sent' = sent /\ (Gone(r) \/ (Goes(r, "failed") /\ requests[r].for # None))
            BY <1>1, <2>4, GoneIsOver, GoesThere DEF Claim
        <3>2. MayResume(r)' => MayResume(r) /\ requests'[r].for = requests[r].for
            BY <2>1, <3>1, GoneMayNot DEF Goes, MayResume
        <3> QED BY <1>0, <2>1, <3>1, <3>2, QuietRequest
    <2> QED BY <2>2, <2>3, <2>4
<1>2. CASE TakePause(r)
    <2>1. requests[r].at = "resuming" /\ paused' = paused /\ sent' = sent
        BY <1>2 DEF TakePause
    <2>2. CASE pause # None /\ pause.seq = requests[r].for.seq
        <3>1. pause' = None /\ Goes(r, "taken")
            BY <1>2, <2>2, GoesThere DEF TakePause
        <3>2. requests'[r].for = requests[r].for
            BY <3>1 DEF Goes
        <3>3. ASSUME NEW q \in Requests, q # r, MayResume(q)'
              PROVE  /\ MayResume(q) /\ requests'[q].for = requests[q].for
                     /\ requests[q].for.seq # requests[r].for.seq
            <4>1. MayResume(q) /\ requests'[q].for = requests[q].for
                BY <1>0, <3>3 DEF MayResume, OnlyOf
            <4> QED BY <2>2, <4>1 DEF SentApart
        <3>4. \A q \in Requests : MayResume(q)' => sent'[requests'[q].for.seq] = 0
            BY <2>1, <2>2, <3>2, <3>3 DEF SentApart
        <3>5. \A p, q \in Requests :
                MayResume(p)' /\ MayResume(q)' /\ requests'[p].for.seq = requests'[q].for.seq => p = q
            BY <3>2, <3>3 DEF SentApart
        <3> QED BY <2>1, <3>1, <3>4, <3>5 DEF SentApart
    <2>3. CASE ~(pause # None /\ pause.seq = requests[r].for.seq)
        <3>1. pause' = pause /\ Gone(r)
            BY <1>2, <2>3, GoneIsOver DEF TakePause
        <3> QED BY <1>0, <2>1, <3>1, GoneMayNot, QuietRequest
    <2> QED BY <2>2, <2>3
<1>3. CASE PutBack(r)
    <2>1. requests[r].at = "failed" /\ paused' = paused /\ sent' = sent /\ Gone(r)
        BY <1>3, GoneIsOver DEF PutBack
    <2>2. CASE pause = None
        <3>1. pause' = requests[r].for
            BY <1>3, <2>2 DEF PutBack
        <3>2. sent[requests[r].for.seq] = 0 /\ MayResume(r)
            BY <2>1 DEF MayResume, SentApart
        <3>3. ASSUME NEW q \in Requests, MayResume(q)'
              PROVE  /\ MayResume(q) /\ requests'[q].for = requests[q].for
                     /\ requests[q].for.seq # requests[r].for.seq
            <4>1. q # r
                BY <2>1, <3>3, GoneMayNot
            <4>2. MayResume(q) /\ requests'[q].for = requests[q].for
                BY <1>0, <3>3, <4>1 DEF MayResume, OnlyOf
            <4> QED BY <3>2, <4>1, <4>2 DEF SentApart
        <3> QED BY <2>1, <3>1, <3>2, <3>3 DEF SentApart
    <2>3. CASE pause # None
        BY <1>0, <1>3, <2>1, <2>3, GoneMayNot, QuietRequest DEF PutBack
    <2> QED BY <2>2, <2>3
<1>4. CASE LoadPaused(r)
    <2>1. UNCHANGED limits /\ requests[r].at = "taken"
        BY <1>4 DEF LoadPaused
    <2>2. MayResume(r)' => MayResume(r) /\ requests'[r].for = requests[r].for
        BY <1>4, <2>1, LoadedAt DEF Goes, MayResume
    <2> QED BY <1>0, <2>1, <2>2, QuietRequest DEF limits
<1>5. ASSUME UNCHANGED <<sent, paused, pause>>,
             requests'[r].at \notin {"taken", "failed", "loaded"} \/ requests'[r].for = None,
             requests'[r].at \notin {"taken", "failed"}
      PROVE  SentApart'
    BY <1>0, <1>5, QuietRequest DEF MayResume
<1>6. CASE StartFails(r) \/ ChangeFails(r) \/ Edit(r) \/ Delete(r) \/ ForkFails(r) \/ EditSends(r)
           \/ RenameWrites(r) \/ \E f \in Ids : Fork(r, f)
    <2>1. UNCHANGED limits
        BY <1>6 DEF StartFails, ChangeFails, Edit, Delete, ForkFails, EditSends, RenameWrites, Fork
    <2>2. Gone(r)
        BY <1>6, GoneIsOver, GoneAfterAWrite
           DEF StartFails, ChangeFails, Edit, Delete, ForkFails, EditSends, RenameWrites, Fork
    <2> QED BY <1>5, <2>1, <2>2 DEF limits, Gone, SameBut, Idle
<1>7. CASE Hold(r) \/ EditClaims(r) \/ PressLooks(r) \/ Wakes(r)
    <2>1. UNCHANGED <<sent, paused, pause>>
        BY <1>7 DEF Hold, EditClaims, PressLooks, Wakes, limits
    <2>2. Gone(r) \/ \E at \in {"held", "forking", "scheduling", "resuming"} : Goes(r, at)
        BY <1>7, GoneIsOver, GoesThere DEF Hold, EditClaims, PressLooks, Wakes
    <2> QED BY <1>5, <2>1, <2>2 DEF Gone, Goes, SameBut, Idle
<1>8. CASE Schedule(r)
    BY <1>5, <1>8, ScheduledAt DEF Schedule
<1>9. ASSUME NEW c \in Ids, StartChat(r, c) \/ EditForks(r, c)
      PROVE  SentApart'
    <2>1. CASE StartChat(r, c)
        <3>1. UNCHANGED limits /\ requests[r].at = "starting"
            BY <2>1 DEF StartChat
        <3>2. requests'[r].for = None /\ requests'[r].at = "loaded"
            BY <2>1, <3>1, StartedAt DEF Placed, WellPlaced
        <3> QED BY <1>5, <3>1, <3>2 DEF limits
    <2>2. CASE EditForks(r, c)
        BY <1>5, <2>2, ForkedAt DEF EditForks, limits
    <2> QED BY <1>9, <2>1, <2>2
<1>10. CASE Begins(r)
    <2>1. UNCHANGED limits
        BY <1>10 DEF Begins, NewChat, Send, Rename, Press, Change
    <2>2. requests'[r].at \in {"starting", "loaded", "renaming", "pressed"}
          /\ (requests'[r].at = "loaded" => requests'[r].for = None)
        BY <1>10, BegunAt DEF Begins, Begun
    <2> QED BY <1>5, <2>1, <2>2 DEF limits
<1> QED BY <1>1, <1>2, <1>3, <1>4, <1>6, <1>7, <1>8, <1>9, <1>10 DEF RequestStep, GoesOn, Makes

LEMMA ResumeStep ==
    TypeOK /\ Placed /\ Counted /\ SentApart /\ [Next]_vars => SentApart'
<1> SUFFICES ASSUME TypeOK, Placed, Counted, SentApart, [Next]_vars PROVE SentApart'
    OBVIOUS
<1>1. ASSUME NEW t \in running,
             TurnEnds(t) \/ TurnFails(t) \/ TurnFrees(t)
                 \/ \E opens \in {0, opened + 1} : TurnMeetsLimit(t, opens)
      PROVE  SentApart'
    <2>1. ASSUME NEW q \in Requests, MayResume(q)'
          PROVE  MayResume(q) /\ requests'[q].for = requests[q].for
        BY <1>1, <2>1, TurnsRequests DEF MayResume, SameBut, Idle
    <2>2. CASE ~\E opens \in {0, opened + 1} : TurnMeetsLimit(t, opens)
        <3>1. sent' = sent /\ paused' = paused /\ (pause' = pause \/ pause' = None)
            BY <1>1, <2>2 DEF TurnEnds, TurnFails, TurnFrees, limits
        <3> QED BY <2>1, <3>1, QuietSent
    <2>3. ASSUME NEW opens \in {0, opened + 1}, TurnMeetsLimit(t, opens)
          PROVE  SentApart'
        <3>1. /\ sent' = sent /\ paused' = paused + 1 /\ pause'.seq = paused + 1
              /\ paused \in Nat /\ paused + 1 \in Pauses
            BY <2>3, ServeAssumption DEF TurnMeetsLimit, TypeOK, Pauses
        <3>2. \A s \in Pauses : s \in Nat
            BY ServeAssumption DEF Pauses
        <3>3. sent[paused + 1] = 0 /\ \A s \in Pauses : sent[s] <= 1 /\ (s > paused + 1 => sent[s] = 0)
            BY <3>1, <3>2 DEF SentApart
        <3>4. \A q \in Requests : MayResume(q) => requests[q].for.seq # paused + 1
            <4>1. ASSUME NEW q \in Requests, MayResume(q) PROVE requests[q].for.seq # paused + 1
                BY <3>1, <3>2, <4>1, MayResumeAPause
            <4> QED BY <4>1
        <3> QED BY <2>1, <3>1, <3>3, <3>4 DEF SentApart
    <2> QED BY <2>2, <2>3
<1>2. CASE UNCHANGED vars \/ WindowOpens \/ \E c \in Ids : Undelete(c)
    <2>1. UNCHANGED <<sent, paused, pause, requests>>
        BY <1>2 DEF vars, limits, WindowOpens, Undelete
    <2> QED BY <2>1, QuietSent DEF MayResume
<1> QED BY <1>1, <1>2, ResumeRequestStep DEF Next, RequestStep, TurnGoesOn

LEMMA InTimeStep == TypeOK /\ Placed /\ InTime /\ [Next]_vars => InTime'
<1> SUFFICES ASSUME TypeOK, Placed, InTime, [Next]_vars PROVE InTime'
    OBVIOUS
<1>1. ASSUME NEW r \in Requests, RequestStep(r)
      PROVE  InTime'
    <2>0. OnlyOf(r) /\ opened' = opened
        BY <1>1, RequestSteps, CountsAlone DEF RequestStep
    <2>1. ASSUME ~Exhausted(requests[r].for), requests'[r].for = requests[r].for
          PROVE  InTime'
        BY <2>0, <2>1 DEF InTime, OnlyOf, Exhausted
    <2>2. ASSUME requests'[r].at \notin {"resuming", "taken"}
          PROVE  InTime'
        BY <2>0, <2>2 DEF InTime, OnlyOf, Exhausted
    <2>3. CASE PressLooks(r)
        <3>1. \/ Gone(r) \/ Goes(r, "scheduling")
              \/ Goes(r, "resuming") /\ ~Exhausted(requests[r].for)
            BY <2>3, GoneIsOver, GoesThere DEF PressLooks
        <3> QED BY <2>1, <2>2, <3>1 DEF Gone, Goes, SameBut, Idle
    <2>4. CASE Wakes(r)
        <3>1. ~Exhausted(requests[r].for) /\ (Gone(r) \/ Goes(r, "resuming"))
            BY <2>4, GoneIsOver, GoesThere DEF Wakes
        <3> QED BY <2>1, <2>2, <3>1 DEF Gone, Goes, SameBut, Idle
    <2>5. CASE TakePause(r)
        <3>1. requests[r].at = "resuming" /\ (Gone(r) \/ Goes(r, "taken"))
            BY <2>5, GoneIsOver, GoesThere DEF TakePause
        <3> QED BY <2>1, <2>2, <3>1 DEF Gone, Goes, SameBut, Idle, InTime
    <2>6. CASE Claim(r) \/ Hold(r) \/ EditClaims(r)
        <3>1. Gone(r) \/ \E at \in {"failed", "held", "forking"} : Goes(r, at)
            BY <2>6, GoneIsOver, GoesThere DEF Claim, Hold, EditClaims
        <3> QED BY <2>2, <3>1 DEF Gone, Goes, SameBut, Idle
    <2>7. CASE StartFails(r) \/ ChangeFails(r) \/ Edit(r) \/ Delete(r) \/ ForkFails(r) \/ EditSends(r)
               \/ RenameWrites(r) \/ PutBack(r) \/ \E f \in Ids : Fork(r, f)
        <3>1. Gone(r)
            BY <2>7, GoneIsOver, GoneAfterAWrite
               DEF StartFails, ChangeFails, Edit, Delete, ForkFails, EditSends, RenameWrites, PutBack, Fork
        <3> QED BY <2>2, <3>1 DEF Gone, SameBut, Idle
    <2>8. CASE LoadPaused(r) \/ Schedule(r) \/ \E c \in Ids : StartChat(r, c) \/ EditForks(r, c)
        <3>1. requests'[r].at \in {"loaded", "failed", "waiting", "forked"}
            BY <2>8, LoadedAt, ScheduledAt, StartedAt, ForkedAt DEF Goes
        <3> QED BY <2>2, <3>1
    <2>9. CASE Begins(r)
        <3>1. requests'[r].at \in {"starting", "loaded", "renaming", "pressed"}
            BY <2>9, BegunAt DEF Begins, Begun
        <3> QED BY <2>2, <3>1
    <2> QED BY <1>1, <2>3, <2>4, <2>5, <2>6, <2>7, <2>8, <2>9 DEF RequestStep, GoesOn, Makes
<1>2. ASSUME NEW t \in running,
             TurnEnds(t) \/ TurnFails(t) \/ TurnFrees(t)
                 \/ \E opens \in {0, opened + 1} : TurnMeetsLimit(t, opens)
      PROVE  InTime'
    <2>1. opened' = opened
        BY <1>2 DEF TurnEnds, TurnFails, TurnFrees, TurnMeetsLimit, limits
    <2> QED BY <1>2, <2>1, TurnsRequests DEF InTime, Exhausted, SameBut, Idle
<1>3. CASE WindowOpens
    <2>1. opened' = opened + 1 /\ requests' = requests /\ opened \in Nat
        BY <1>3 DEF WindowOpens, TypeOK
    <2>2. ASSUME NEW r \in Requests, requests[r].at \in {"resuming", "taken"}
          PROVE  ~(requests[r].for.opens > opened + 1)
        <3>1. requests[r].for.opens \in Nat
            BY <2>2, ForIsAPause, ServeAssumption DEF ForAPause, Pause
        <3> QED BY <2>1, <2>2, <3>1 DEF InTime, Exhausted
    <2> QED BY <2>1, <2>2 DEF InTime, Exhausted
<1>4. CASE UNCHANGED vars \/ \E c \in Ids : Undelete(c)
    BY <1>4 DEF vars, limits, Undelete, InTime, Exhausted
<1> QED BY <1>1, <1>2, <1>3, <1>4 DEF Next, RequestStep, TurnGoesOn

----------------------------------------------------------------------------
(***************************************************************************)
(* The theorems                                                            *)
(***************************************************************************)

ServeInv ==
    /\ TypeOK /\ Placed /\ Counted
    /\ TimerWaits /\ SlotIsTheTurns /\ HeldApart
    /\ SentApart /\ InTime

LEMMA InitInv == Init => ServeInv
<1> SUFFICES ASSUME Init PROVE ServeInv
    OBVIOUS
<1>1. \A r \in Requests : requests[r].at = "idle" /\ requests[r].kind = "" /\ requests[r].for = None
    BY DEF Init, Idle
<1>0. pause = None /\ resume = None /\ paused = 0 /\ opened = 0 /\ \A s \in Pauses : sent[s] = 0
    BY DEF Init
<1>2. Counted
    <2>1. opened <= paused
        BY <1>0
    <2> QED BY <1>0, <1>1, <2>1 DEF Counted, Known
<1>5. TimerWaits
    BY <1>0 DEF TimerWaits
<1>3. SlotIsTheTurns /\ HeldApart
    BY <1>1, ServeAssumption
       DEF Init, SlotIsTheTurns, HeldApart, HoldsSlot, HoldsChat, NoTurnsChatChanges, ForksUntouched
<1>4. SentApart
    <2>1. \A s \in Pauses : sent[s] <= 1 /\ (s > paused => sent[s] = 0)
        BY <1>0
    <2> QED BY <1>0, <1>1, <2>1 DEF SentApart, MayResume
<1>6. InTime
    BY <1>1 DEF InTime
<1> QED BY <1>2, <1>3, <1>4, <1>5, <1>6, InitTypes DEF ServeInv

LEMMA InvStep == ServeInv /\ [Next]_vars => ServeInv'
BY TypeStep, PlacedStep, CountedStep, TimerStep, SlotStep, HeldStep, ResumeStep, InTimeStep DEF ServeInv

THEOREM InvHolds == Spec => []ServeInv
BY InitInv, InvStep, PTL DEF Spec

\* The server's state keeps its types whatever its requests and turns do.
THEOREM TypesHold == Spec => []TypeOK
<1>1. ServeInv => TypeOK
    BY DEF ServeInv
<1> QED BY <1>1, InvHolds, PTL

\* The turn slot is taken exactly while one turn runs or its fork is made
\* (Serve's SlotIsTheTurns).
THEOREM TheSlotIsTheTurns == Spec => []SlotIsTheTurns
<1>1. ServeInv => SlotIsTheTurns
    BY DEF ServeInv
<1> QED BY <1>1, InvHolds, PTL

\* A chat is held to be changed by one request at a time, and not while its turn runs,
\* but for a fork he finds in the list too early (Serve's ChangesApart).
THEOREM ChatsChangeApart == Spec => []ChangesApart
<1>1. ServeInv => ChangesApart
    BY DEF ServeInv, HeldApart, ChangesApart
<1> QED BY <1>1, InvHolds, PTL

\* However often he presses Resume and whatever timers wait, a pause is
\* resumed once, and not before the plan's window opens (Serve's ResumedOnce).
THEOREM PausesAreResumedOnce == Spec => []ResumedOnce
<1>1. ServeInv => ResumedOnce
    BY DEF ServeInv, SentApart, InTime, ResumedOnce
<1> QED BY <1>1, InvHolds, PTL
=============================================================================
