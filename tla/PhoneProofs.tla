---------------------------- MODULE PhoneProofs ----------------------------
(***************************************************************************)
(* Proofs about Phone, for any texts, requests under way and losses: the   *)
(* type invariant; that a nonce is run once, and a message once, while the *)
(* listener remembers; and that nothing he wrote is lost.                  *)
(***************************************************************************)
EXTENDS Phone, SequenceTheorems, FiniteSetTheorems, TLAPS

----------------------------------------------------------------------------
(***************************************************************************)
(* Types                                                                   *)
(***************************************************************************)

WindowSteps == {"unasked", "asked", "begun", "took", "refused", "over"}
Answers == {"taken", "refused", None}

\* What a request is keeps its shape whichever field changes.
LEMMA FieldsOfTry ==
    ASSUME NEW try \in Try
    PROVE  /\ [try EXCEPT !.page = "over"] \in Try
           /\ [try EXCEPT !.at = "lost"] \in Try
           /\ [try EXCEPT !.at = "handed", !.window = "asked"] \in Try
           /\ [try EXCEPT !.at = "grace", !.claimed = FALSE] \in Try
           /\ [try EXCEPT !.window = "begun", !.claimed = TRUE] \in Try
           /\ \A w \in WindowSteps : [try EXCEPT !.window = w] \in Try
           /\ \A a \in Answers : [try EXCEPT !.at = "answered", !.answer = a] \in Try
           /\ \A a \in Answers, w \in WindowSteps :
                [try EXCEPT !.at = "answered", !.answer = a, !.window = w] \in Try
BY DEF Try, WindowSteps, Answers

\* A nonce made or used again is a nonce, and the key it goes with a key.
LEMMA NonceTypes ==
    ASSUME TypeOK, NonceFor(box) \in Nonces
    PROVE  [key |-> KeyOf(box), nonce |-> NonceFor(box)] \in LastTry
BY DEF TypeOK, LastTry

LEMMA FreeSlotIsFree ==
    ASSUME Busy # Slots, tries \in [Slots -> Try \cup {None}]
    PROVE  FreeSlot \in Slots /\ tries[FreeSlot] = None
<1>1. \E i \in Slots : tries[i] = None
    BY DEF Busy
<1> QED BY <1>1 DEF FreeSlot

LEMMA RemoveAtType ==
    ASSUME NEW S, NEW s \in Seq(S), NEW k \in DOMAIN s
    PROVE  RemoveAt(s, k) \in Seq(S)
<1>1. k \in 1..Len(s)
    OBVIOUS
<1>2. SubSeq(s, 1, k - 1) \in Seq(S) /\ SubSeq(s, k + 1, Len(s)) \in Seq(S)
    BY <1>1, SubSeqProperties
<1> QED BY <1>2 DEF RemoveAt

THEOREM InitTypes == PhoneInit => TypeOK
<1> SUFFICES ASSUME PhoneInit PROVE TypeOK
    OBVIOUS
<1>1. queue \in Seq(Message) /\ ran \in Seq([says : SUBSET Texts, nonce : Nonces])
    BY DEF PhoneInit
<1>2. tries \in [Slots -> Try \cup {None}]
    BY DEF PhoneInit
<1>3. seen \in [Nonces -> {"unseen", "running", "done"}]
    BY DEF PhoneInit
<1>4. made \in 0..MaxNonces /\ losses \in 0..MaxLosses
    BY PhoneAssumption DEF PhoneInit
<1> QED BY <1>1, <1>2, <1>3, <1>4 DEF PhoneInit, TypeOK, Online

LEMMA SettledType == ASSUME NEW try \in Try PROVE Settled(try) \in Try \cup {None}
BY DEF Settled

LEMMA PostTypes ==
    ASSUME TypeOK, NEW says \in SUBSET Texts, NEW nonce \in Nonces,
           NEW from \in {"box", "queue"}, Post(says, nonce, from)
    PROVE  tries' \in [Slots -> Try \cup {None}]
<1>1. Request(says, nonce, from) \in Try
    BY DEF Request, Try
<1> QED BY <1>1, FreeSlotIsFree DEF Post, TypeOK

LEMMA FailedIsMessage ==
    ASSUME NEW q \in Message PROVE [q EXCEPT !.failed = TRUE] \in Message
BY DEF Message

LEMMA HoldingTypes ==
    ASSUME TypeOK, NEW says \in SUBSET Texts, NEW nonce \in Nonces
    PROVE  Holding(says, nonce) \in Seq(Message)
BY DEF Holding, Message, TypeOK

LEMMA PageOverTypes ==
    ASSUME TypeOK, NEW i \in Busy, PageOver(i)
    PROVE  tries' \in [Slots -> Try \cup {None}]
<1>1. tries[i] \in Try /\ i \in Slots
    BY DEF TypeOK, Busy
<1>2. [tries[i] EXCEPT !.page = "over"] \in Try
    BY <1>1, FieldsOfTry
<1>3. Settled([tries[i] EXCEPT !.page = "over"]) \in Try \cup {None}
    BY <1>2, SettledType
<1> QED BY <1>1, <1>3 DEF PageOver, TypeOK

\* What the page does keeps the types.
LEMMA WritingTypes ==
    ASSUME TypeOK, (\E t \in Texts : Type(t) \/ SwapFile(t)) \/ SendLater \/ SendNow \/ Drain
    PROVE  TypeOK'
<1>1. ASSUME NEW t \in Texts, Type(t) PROVE TypeOK'
    BY <1>1 DEF Type, TypeOK, host, Online
<1>2. ASSUME NEW t \in Texts, SwapFile(t) PROVE TypeOK'
    BY <1>2 DEF SwapFile, TypeOK, host, Online
<1>3. CASE SendLater
    <2>1. NonceFor(box) \in Nonces /\ made' \in 0..MaxNonces
        BY <1>3, PhoneAssumption DEF SendLater, TypeOK, Nonces
    <2>2. lastTry' \in LastTry \cup {None}
        BY <1>3, <2>1, NonceTypes DEF SendLater
    <2>3. queue' \in Seq(Message) /\ box' \subseteq Texts
        BY <1>3, <2>1, HoldingTypes DEF SendLater, TypeOK
    <2> QED BY <1>3, <2>1, <2>2, <2>3 DEF SendLater, TypeOK, host, told, Online
<1>4. CASE SendNow
    <2>1. NonceFor(box) \in Nonces /\ made' \in 0..MaxNonces
        BY <1>4, PhoneAssumption DEF SendNow, TypeOK, Nonces
    <2>2. lastTry' \in LastTry \cup {None}
        BY <1>4, <2>1, NonceTypes DEF SendNow
    <2>3. tries' \in [Slots -> Try \cup {None}]
        BY <1>4, <2>1, PostTypes DEF SendNow, TypeOK
    <2> QED BY <1>4, <2>1, <2>2, <2>3 DEF SendNow, TypeOK, host, told, Online
<1>5. CASE Drain
    <2>1. tries' \in [Slots -> Try \cup {None}]
        <3>1. ASSUME NEW k \in DOMAIN queue, Post(queue[k].says, queue[k].nonce, "queue")
              PROVE  tries' \in [Slots -> Try \cup {None}]
            <4>1. queue[k] \in Message
                BY DEF TypeOK
            <4> QED BY <3>1, <4>1, PostTypes DEF Message
        <3> QED BY <1>5, <3>1 DEF Drain, TypeOK
    <2> QED BY <1>5, <2>1 DEF Drain, TypeOK, host, told, Online
<1> QED BY <1>1, <1>2, <1>3, <1>4, <1>5

LEMMA HearingTypes ==
    ASSUME TypeOK, NEW i \in Slots, HearTaken(i) \/ HearRefused(i) \/ HearNothing(i)
    PROVE  TypeOK'
<1>1. i \in Busy /\ tries[i] \in Try
    BY DEF HearTaken, HearRefused, HearNothing, Waits, Busy, TypeOK
<1>2. tries[i].says \in SUBSET Texts /\ tries[i].nonce \in Nonces
    BY <1>1 DEF Try
<1>3. tries' \in [Slots -> Try \cup {None}]
    BY <1>1, PageOverTypes DEF HearTaken, HearRefused, HearNothing
<1>4. CASE HearTaken(i)
    <2>1. queue' \in Seq(Message)
        <3>1. CASE \E k \in DOMAIN queue : IsHeld(k, tries[i])
            <4>1. (CHOOSE k \in DOMAIN queue : IsHeld(k, tries[i])) \in DOMAIN queue
                BY <3>1
            <4>2. queue \in Seq(Message)
                BY DEF TypeOK
            <4>3. RemoveAt(queue, CHOOSE k \in DOMAIN queue : IsHeld(k, tries[i])) \in Seq(Message)
                BY <4>1, <4>2, RemoveAtType
            <4> QED BY <1>4, <3>1, <4>2, <4>3 DEF HearTaken, Without
        <3> QED BY <1>4, <3>1 DEF HearTaken, Without, TypeOK
    <2>2. lastTry' \in LastTry \cup {None}
        BY <1>4 DEF HearTaken, TypeOK
    <2> QED BY <1>3, <1>4, <2>1, <2>2 DEF HearTaken, TypeOK, host, told, Online
<1>5. CASE HearRefused(i)
    <2>1. queue' \in Seq(Message)
        <3>1. ASSUME NEW k \in DOMAIN queue
              PROVE  [queue[k] EXCEPT !.failed = TRUE] \in Message
            <4>1. queue[k] \in Message
                BY DEF TypeOK
            <4> QED BY <4>1, FailedIsMessage
        <3>2. \A k \in DOMAIN queue :
                (IF IsHeld(k, tries[i]) THEN [queue[k] EXCEPT !.failed = TRUE]
                 ELSE queue[k]) \in Message
            BY <3>1 DEF TypeOK
        <3>3. Refused(tries[i]) \in [DOMAIN queue -> Message]
            BY <3>2, Zenon DEF Refused
        <3>4. DOMAIN queue = 1..Len(queue) /\ Len(queue) \in Nat
            BY DEF TypeOK
        <3>5. Refused(tries[i]) \in Seq(Message)
            BY <3>3, <3>4
        <3> QED BY <1>5, <3>5 DEF HearRefused, TypeOK
    <2>2. box' \subseteq Texts
        BY <1>2, <1>5 DEF HearRefused, TypeOK
    <2> QED BY <1>3, <1>5, <2>1, <2>2 DEF HearRefused, TypeOK, host, told, Online
<1>6. CASE HearNothing(i)
    <2>1. queue' \in Seq(Message) /\ lastTry' \in LastTry \cup {None} /\ box' \subseteq Texts
        BY <1>2, <1>6, HoldingTypes DEF HearNothing, TypeOK, AfterHold
    <2>2. losses' \in 0..MaxLosses
        BY <1>6, PhoneAssumption DEF HearNothing, TypeOK
    <2>3. stream' \in BOOLEAN
        BY <1>6 DEF HearNothing, TypeOK
    <2>4. link' \in {"online", "offline"} /\ (link' = "online" => stream')
        BY <1>6 DEF HearNothing, TypeOK, Online
    <2> QED BY <1>3, <1>6, <2>1, <2>2, <2>3, <2>4 DEF HearNothing, TypeOK, host, told, Online
<1> QED BY <1>4, <1>5, <1>6

LEMMA QueueTypes ==
    ASSUME TypeOK, NEW k \in DOMAIN queue, TakeBack(k) \/ DiscardHeld(k) \/ RetryHeld(k)
    PROVE  TypeOK'
<1>1. queue \in Seq(Message) /\ queue[k] \in Message
    BY DEF TypeOK
<1>2. queue[k].says \subseteq Texts
    BY <1>1 DEF Message
<1>3. RemoveAt(queue, k) \in Seq(Message)
    BY <1>1, RemoveAtType
<1>4. CASE TakeBack(k)
    BY <1>2, <1>3, <1>4 DEF TakeBack, TypeOK, host, told, Online
<1>5. CASE DiscardHeld(k)
    BY <1>2, <1>3, <1>5 DEF DiscardHeld, TypeOK, host, Online
<1>6. CASE RetryHeld(k)
    <2>1. [queue[k] EXCEPT !.failed = FALSE] \in Message
        BY <1>1 DEF Message
    <2>2. PICK q \in Message : q = [queue[k] EXCEPT !.failed = FALSE]
        BY <2>1
    <2>3. queue' = [queue EXCEPT ![k] = q]
        BY <1>6, <2>2 DEF RetryHeld
    <2>4. queue' \in Seq(Message)
        BY <1>1, <2>3
    <2> QED BY <1>6, <2>4 DEF RetryHeld, TypeOK, host, told, Online
<1> QED BY <1>4, <1>5, <1>6

LEMMA LinkTypes ==
    ASSUME TypeOK, StreamDrops \/ Hello \/ Poll \/ Reload
    PROVE  TypeOK'
<1>1. CASE StreamDrops
    <2>1. losses' \in 0..MaxLosses
        BY <1>1, PhoneAssumption DEF StreamDrops, TypeOK
    <2>2. link' \in {"online", "offline"} /\ stream' \in BOOLEAN /\ (link' = "online" => stream')
        BY <1>1 DEF StreamDrops
    <2> QED BY <1>1, <2>1, <2>2 DEF StreamDrops, TypeOK, host, told, Online
<1>2. CASE Hello
    BY <1>2 DEF Hello, TypeOK, host, told, Online
<1>3. CASE Poll
    BY <1>3 DEF Poll, TypeOK, host, told, Online
<1>4. CASE Reload
    <2>1. tries' \in [Slots -> Try \cup {None}]
        <3>1. ASSUME NEW i \in Busy
              PROVE  Settled([tries[i] EXCEPT !.page = "over"]) \in Try \cup {None}
            <4>1. tries[i] \in Try
                BY DEF TypeOK, Busy
            <4>2. [tries[i] EXCEPT !.page = "over"] \in Try
                BY <4>1, FieldsOfTry
            <4> QED BY <4>2, SettledType
        <3>2. \A i \in Slots :
                (IF i \in Busy THEN Settled([tries[i] EXCEPT !.page = "over"]) ELSE None)
                    \in Try \cup {None}
            BY <3>1
        <3> QED BY <1>4, <3>2, Zenon DEF Reload
    <2>2. losses' \in 0..MaxLosses /\ box' \subseteq Texts /\ dropped' \subseteq Texts
        BY <1>4, PhoneAssumption DEF Reload, TypeOK
    <2> QED BY <1>4, <2>1, <2>2 DEF Reload, TypeOK, host, Online
<1> QED BY <1>1, <1>2, <1>3, <1>4

\* The value a step of the host or the window leaves in a request's place.
LEMMA TryReplaced ==
    ASSUME TypeOK, NEW i \in Slots, NEW try \in Try \cup {None},
           tries' = [tries EXCEPT ![i] = try]
    PROVE  tries' \in [Slots -> Try \cup {None}]
BY DEF TypeOK

\* What an answer leaves of a request and of its nonce.
LEMMA AnswerTypes ==
    ASSUME TypeOK, NEW i \in Busy, NEW answer \in {"taken", "refused"},
           NEW w \in WindowSteps, Answer(i, answer, w)
    PROVE  /\ tries' \in [Slots -> Try \cup {None}]
           /\ seen' \in [Nonces -> {"unseen", "running", "done"}]
<1>1. i \in Slots /\ tries[i] \in Try
    BY DEF TypeOK, Busy
<1>2. [tries[i] EXCEPT !.at = "answered", !.answer = answer, !.window = w] \in Try
    BY <1>1, FieldsOfTry DEF Answers
<1>3. Settled([tries[i] EXCEPT !.at = "answered", !.answer = answer, !.window = w])
        \in Try \cup {None}
    BY <1>2, SettledType
<1>4. tries' \in [Slots -> Try \cup {None}]
    BY <1>1, <1>3, TryReplaced DEF Answer
<1>5. seen' \in [Nonces -> {"unseen", "running", "done"}]
    BY DEF Answer, SettledAs, TypeOK
<1> QED BY <1>4, <1>5

LEMMA HostTypes ==
    ASSUME TypeOK, NEW i \in Slots,
           RequestLost(i) \/ Arrives(i) \/ Deadline(i) \/ GraceOver(i)
    PROVE  TypeOK'
<1>1. i \in Busy /\ tries[i] \in Try
    BY DEF RequestLost, Arrives, Deadline, GraceOver, Busy, TypeOK
<1>2. tries[i].window \in WindowSteps /\ tries[i].nonce \in Nonces
    BY <1>1 DEF Try, WindowSteps
<1>3. CASE RequestLost(i)
    <2>1. Settled([tries[i] EXCEPT !.at = "lost"]) \in Try \cup {None}
        BY <1>1, FieldsOfTry, SettledType
    <2>2. tries' \in [Slots -> Try \cup {None}]
        BY <1>3, <2>1, TryReplaced DEF RequestLost
    <2>3. losses' \in 0..MaxLosses
        BY <1>3, PhoneAssumption DEF RequestLost, TypeOK
    <2> QED BY <1>3, <2>2, <2>3 DEF RequestLost, TypeOK, page, host, told, Online
<1>4. CASE Arrives(i)
    <2>1. [tries[i] EXCEPT !.at = "handed", !.window = "asked"] \in Try
        BY <1>1, FieldsOfTry
    <2>2. Settled([tries[i] EXCEPT !.at = "answered", !.answer = "taken"]) \in Try \cup {None}
        <3>1. [tries[i] EXCEPT !.at = "answered", !.answer = "taken"] \in Try
            BY <1>1, FieldsOfTry DEF Answers
        <3> QED BY <3>1, SettledType
    <2>3. tries' \in [Slots -> Try \cup {None}]
        <3>1. CASE FirstTry(tries[i].nonce)
            <4>1. tries' = [tries EXCEPT ![i] =
                        [tries[i] EXCEPT !.at = "handed", !.window = "asked"]]
                BY <1>4, <3>1 DEF Arrives
            <4> QED BY <2>1, <4>1, TryReplaced
        <3>2. CASE ~FirstTry(tries[i].nonce)
            <4>1. tries' = [tries EXCEPT ![i] =
                        Settled([tries[i] EXCEPT !.at = "answered", !.answer = "taken"])]
                BY <1>4, <3>2 DEF Arrives
            <4> QED BY <2>2, <4>1, TryReplaced
        <3> QED BY <3>1, <3>2
    <2>4. seen' \in [Nonces -> {"unseen", "running", "done"}]
        BY <1>4 DEF Arrives, TypeOK
    <2> QED BY <1>4, <2>3, <2>4 DEF Arrives, TypeOK, page, told, Online
<1>5. CASE Deadline(i)
    <2>1. /\ tries' \in [Slots -> Try \cup {None}]
          /\ seen' \in [Nonces -> {"unseen", "running", "done"}]
        <3>1. CASE GivesUp(i)
            BY <1>1, <1>2, <1>5, <3>1, AnswerTypes DEF Deadline
        <3>2. CASE ~GivesUp(i)
            <4>1. [tries[i] EXCEPT !.at = "grace", !.claimed = FALSE] \in Try
                BY <1>1, FieldsOfTry
            <4>2. tries' = [tries EXCEPT ![i] =
                        [tries[i] EXCEPT !.at = "grace", !.claimed = FALSE]]
                BY <1>5, <3>2 DEF Deadline
            <4> QED BY <1>5, <3>2, <4>1, <4>2, TryReplaced DEF Deadline, TypeOK
        <3> QED BY <3>1, <3>2
    <2> QED BY <1>5, <2>1 DEF Deadline, TypeOK, page, told, Online
<1>6. CASE GraceOver(i)
    <2>1. /\ tries' \in [Slots -> Try \cup {None}]
          /\ seen' \in [Nonces -> {"unseen", "running", "done"}]
        BY <1>1, <1>2, <1>6, AnswerTypes DEF GraceOver, LateAnswer
    <2> QED BY <1>6, <2>1 DEF GraceOver, TypeOK, page, told, Online
<1> QED BY <1>3, <1>4, <1>5, <1>6

LEMMA WindowTypes ==
    ASSUME TypeOK, NEW i \in Slots, Claim(i) \/ Takes(i) \/ Refuses(i) \/ Says(i)
    PROVE  TypeOK'
<1>1. i \in Busy /\ tries[i] \in Try
    BY DEF Claim, Takes, Refuses, Says, WindowAt, Busy, TypeOK
<1>2. Settled([tries[i] EXCEPT !.window = "over"]) \in Try \cup {None}
    <2>1. [tries[i] EXCEPT !.window = "over"] \in Try
        BY <1>1, FieldsOfTry DEF WindowSteps
    <2> QED BY <2>1, SettledType
<1>3. CASE Claim(i)
    <2>1. tries' \in [Slots -> Try \cup {None}]
        <3>1. CASE MayClaim(i)
            <4>1. [tries[i] EXCEPT !.window = "begun", !.claimed = TRUE] \in Try
                BY <1>1, FieldsOfTry
            <4>2. tries' = [tries EXCEPT ![i] =
                        [tries[i] EXCEPT !.window = "begun", !.claimed = TRUE]]
                BY <1>3, <3>1 DEF Claim
            <4> QED BY <4>1, <4>2, TryReplaced
        <3>2. CASE ~MayClaim(i)
            <4>1. tries' = [tries EXCEPT ![i] = Settled([tries[i] EXCEPT !.window = "over"])]
                BY <1>3, <3>2 DEF Claim
            <4> QED BY <1>2, <4>1, TryReplaced
        <3> QED BY <3>1, <3>2
    <2> QED BY <1>3, <2>1 DEF Claim, TypeOK, page, host, told, Online
<1>4. CASE Takes(i)
    <2>1. [tries[i] EXCEPT !.window = "took"] \in Try
        BY <1>1, FieldsOfTry DEF WindowSteps
    <2>2. tries' = [tries EXCEPT ![i] = [tries[i] EXCEPT !.window = "took"]]
        BY <1>4 DEF Takes
    <2>3. tries' \in [Slots -> Try \cup {None}]
        BY <2>1, <2>2, TryReplaced
    <2>4. [says |-> tries[i].says, nonce |-> tries[i].nonce]
            \in [says : SUBSET Texts, nonce : Nonces]
        BY <1>1 DEF Try
    <2>5. ran' \in Seq([says : SUBSET Texts, nonce : Nonces])
        BY <1>4, <2>4 DEF Takes, TypeOK
    <2> QED BY <1>4, <2>3, <2>5 DEF Takes, TypeOK, page, told, Online
<1>5. CASE Refuses(i)
    <2>1. [tries[i] EXCEPT !.window = "refused"] \in Try
        BY <1>1, FieldsOfTry DEF WindowSteps
    <2>2. tries' = [tries EXCEPT ![i] = [tries[i] EXCEPT !.window = "refused"]]
        BY <1>5 DEF Refuses
    <2>3. tries' \in [Slots -> Try \cup {None}]
        BY <2>1, <2>2, TryReplaced
    <2> QED BY <1>5, <2>3 DEF Refuses, TypeOK, page, host, told, Online
<1>6. CASE Says(i)
    <2>1. /\ tries' \in [Slots -> Try \cup {None}]
          /\ seen' \in [Nonces -> {"unseen", "running", "done"}]
        <3>1. CASE Pending(i)
            BY <1>1, <1>6, <3>1, AnswerTypes DEF Says, WindowSteps
        <3>2. CASE ~Pending(i)
            <4>1. tries' = [tries EXCEPT ![i] = Settled([tries[i] EXCEPT !.window = "over"])]
                BY <1>6, <3>2 DEF Says
            <4> QED BY <1>2, <1>6, <3>2, <4>1, TryReplaced DEF Says, TypeOK
        <3> QED BY <3>1, <3>2
    <2> QED BY <1>6, <2>1 DEF Says, TypeOK, page, told, Online
<1> QED BY <1>3, <1>4, <1>5, <1>6

LEMMA TypeStep == TypeOK /\ [Next]_vars => TypeOK'
<1> SUFFICES ASSUME TypeOK, [Next]_vars PROVE TypeOK'
    OBVIOUS
<1>1. CASE Forgets
    BY <1>1 DEF Forgets, TypeOK, page, told, Online
<1>2. CASE TurnEnds
    BY <1>2 DEF TurnEnds, TypeOK, page, told, Online
<1>3. CASE UNCHANGED vars
    BY <1>3 DEF vars, page, host, told, TypeOK, Online
<1> QED BY <1>1, <1>2, <1>3, WritingTypes, HearingTypes, QueueTypes, LinkTypes,
           HostTypes, WindowTypes DEF Next

\* The state keeps its types (Phone's TypeOK), whatever goes wrong.
THEOREM TypesHold == Spec => []TypeOK
<1> QED BY InitTypes, TypeStep, PTL DEF Spec

----------------------------------------------------------------------------
(***************************************************************************)
(* One nonce, one run                                                      *)
(***************************************************************************)

\* A request the host waits for, or that the window has begun to run.
Runner(i) == i \in Busy /\ (Pending(i) \/ tries[i].window = "begun")

\* Two requests of one nonce do not run side by side.
RunsAlone ==
    \A i, j \in Slots :
        Runner(i) /\ Runner(j) /\ tries[i].nonce = tries[j].nonce => i = j

\* The listener knows the nonces of what runs and of what has run.
Remembered ==
    /\ \A i \in Slots : Runner(i) => seen[tries[i].nonce] # "unseen"
    /\ \A k \in DOMAIN ran : seen[ran[k].nonce] # "unseen"

\* The only request about a message the window took is the one it took.
RunnerTook ==
    \A i \in Slots, k \in DOMAIN ran :
        Runner(i) /\ ran[k].nonce = tries[i].nonce => tries[i].window = "took"

\* While the host can still give a call up, it knows whether it was begun.
BeginningsAreClaimed ==
    \A i \in Slots :
        Runner(i) /\ tries[i].at = "handed" /\ tries[i].window \in {"begun", "took"}
            => tries[i].claimed

RunInv == RunsAlone /\ Remembered /\ RunnerTook /\ BeginningsAreClaimed /\ NonceRunsOnce

\* What a step that runs and answers nothing does to a request.
Quiet(i) ==
    Runner(i)' => /\ Runner(i)
                  /\ tries'[i].nonce = tries[i].nonce
                  /\ tries'[i].window = tries[i].window
                  /\ tries'[i].at = "handed" =>
                        tries[i].at = "handed" /\ tries'[i].claimed = tries[i].claimed

LEMMA QuietStep ==
    ASSUME RunInv, UNCHANGED <<seen, ran>>, \A i \in Slots : Quiet(i)
    PROVE  RunInv'
<1>1. RunsAlone'
    BY DEF RunInv, RunsAlone, Quiet
<1>2. Remembered'
    BY DEF RunInv, Remembered, Quiet
<1>3. RunnerTook'
    BY DEF RunInv, RunnerTook, Quiet
<1>4. BeginningsAreClaimed'
    BY DEF RunInv, BeginningsAreClaimed, Quiet
<1>5. NonceRunsOnce'
    BY DEF RunInv, NonceRunsOnce
<1> QED BY <1>1, <1>2, <1>3, <1>4, <1>5 DEF RunInv

\* A request not touched is as quiet as can be.
LEMMA UntouchedIsQuiet ==
    ASSUME NEW i, tries'[i] = tries[i]
    PROVE  Quiet(i)
BY DEF Quiet, Runner, Busy, Pending

LEMMA SettledIsQuiet ==
    ASSUME TypeOK, NEW i \in Busy, NEW try \in Try, tries'[i] = Settled(try),
           try.at \in {"handed", "grace"} \/ try.window = "begun" =>
                /\ tries[i].at \in {"handed", "grace"} \/ tries[i].window = "begun"
                /\ try.nonce = tries[i].nonce /\ try.window = tries[i].window
                /\ try.at = "handed" =>
                        tries[i].at = "handed" /\ try.claimed = tries[i].claimed
    PROVE  Quiet(i)
<1>1. CASE Settled(try) = None
    BY <1>1 DEF Quiet, Runner, Busy
<1>2. CASE Settled(try) = try
    BY <1>2 DEF Quiet, Runner, Pending, Busy
<1> QED BY <1>1, <1>2 DEF Settled

\* The page is over with a request: the host and the window go on as before.
LEMMA PageOverIsQuiet ==
    ASSUME TypeOK, NEW i \in Busy, PageOver(i)
    PROVE  \A j \in Slots : Quiet(j)
<1> SUFFICES ASSUME NEW j \in Slots PROVE Quiet(j)
    OBVIOUS
<1>1. i \in Slots /\ tries[i] \in Try
    BY DEF TypeOK, Busy
<1>2. CASE j # i
    <2>1. tries'[j] = tries[j]
        BY <1>2 DEF PageOver, TypeOK
    <2> QED BY <2>1, UntouchedIsQuiet
<1>3. CASE j = i
    <2>1. PICK try \in Try : try = [tries[i] EXCEPT !.page = "over"]
        BY <1>1, FieldsOfTry
    <2>2. /\ try.at = tries[i].at /\ try.window = tries[i].window
          /\ try.nonce = tries[i].nonce /\ try.claimed = tries[i].claimed
        BY <1>1, <2>1 DEF Try
    <2>3. tries'[i] = Settled(try)
        BY <1>1, <2>1 DEF PageOver, TypeOK
    <2> QED BY <1>3, <2>2, <2>3, SettledIsQuiet
<1> QED BY <1>2, <1>3

\* A request just posted is still on its way.
LEMMA PostIsQuiet ==
    ASSUME TypeOK, NEW says, NEW nonce, NEW from, Post(says, nonce, from)
    PROVE  \A j \in Slots : Quiet(j)
<1> SUFFICES ASSUME NEW j \in Slots PROVE Quiet(j)
    OBVIOUS
<1>1. FreeSlot \in Slots
    BY FreeSlotIsFree DEF Post, TypeOK
<1>2. CASE j # FreeSlot
    <2>1. tries'[j] = tries[j]
        BY <1>1, <1>2 DEF Post, TypeOK
    <2> QED BY <2>1, UntouchedIsQuiet
<1>3. CASE j = FreeSlot
    <2>1. tries'[j] = Request(says, nonce, from)
        BY <1>1, <1>3 DEF Post, TypeOK
    <2> QED BY <2>1 DEF Quiet, Runner, Pending, Request
<1> QED BY <1>2, <1>3

LEMMA ReloadIsQuiet ==
    ASSUME TypeOK, Reload
    PROVE  \A j \in Slots : Quiet(j)
<1> SUFFICES ASSUME NEW j \in Slots PROVE Quiet(j)
    OBVIOUS
<1>1. CASE j \notin Busy
    <2>1. tries'[j] = None
        BY <1>1 DEF Reload
    <2> QED BY <2>1 DEF Quiet, Runner, Busy
<1>2. CASE j \in Busy
    <2>1. tries[j] \in Try
        BY <1>2 DEF TypeOK, Busy
    <2>2. PICK try \in Try : try = [tries[j] EXCEPT !.page = "over"]
        BY <2>1, FieldsOfTry
    <2>3. /\ try.at = tries[j].at /\ try.window = tries[j].window
          /\ try.nonce = tries[j].nonce /\ try.claimed = tries[j].claimed
        BY <2>1, <2>2 DEF Try
    <2>4. tries'[j] = Settled(try)
        BY <1>2, <2>2 DEF Reload
    <2> QED BY <1>2, <2>3, <2>4, SettledIsQuiet
<1> QED BY <1>1, <1>2

\* Nothing the page does makes a request run.
LEMMA PageSteps ==
    ASSUME TypeOK, RunInv,
           \/ \E t \in Texts : Type(t) \/ SwapFile(t)
           \/ SendLater \/ SendNow \/ Drain \/ StreamDrops \/ Hello \/ Poll \/ Reload
           \/ \E k \in DOMAIN queue : TakeBack(k) \/ DiscardHeld(k) \/ RetryHeld(k)
           \/ \E i \in Slots : HearTaken(i) \/ HearRefused(i) \/ HearNothing(i)
    PROVE  RunInv'
<1>1. UNCHANGED <<seen, ran>>
    BY DEF Type, SwapFile, SendLater, SendNow, Drain, StreamDrops, Hello, Poll, Reload,
           TakeBack, DiscardHeld, RetryHeld, HearTaken, HearRefused, HearNothing, host
<1>2. CASE UNCHANGED tries
    <2>1. \A j \in Slots : Quiet(j)
        BY <1>2, UntouchedIsQuiet
    <2> QED BY <1>1, <2>1, QuietStep
<1>3. CASE SendNow
    <2>1. \A j \in Slots : Quiet(j)
        BY <1>3, PostIsQuiet DEF SendNow
    <2> QED BY <1>1, <2>1, QuietStep
<1>4. CASE Drain /\ tries' # tries
    <2>1. \A j \in Slots : Quiet(j)
        BY <1>4, PostIsQuiet DEF Drain
    <2> QED BY <1>1, <2>1, QuietStep
<1>5. CASE Reload
    <2>1. \A j \in Slots : Quiet(j)
        BY <1>5, ReloadIsQuiet
    <2> QED BY <1>1, <2>1, QuietStep
<1>6. ASSUME NEW i \in Slots, HearTaken(i) \/ HearRefused(i) \/ HearNothing(i)
      PROVE  RunInv'
    <2>1. i \in Busy /\ PageOver(i)
        BY <1>6 DEF HearTaken, HearRefused, HearNothing, Waits
    <2>2. \A j \in Slots : Quiet(j)
        BY <2>1, PageOverIsQuiet
    <2> QED BY <1>1, <2>2, QuietStep
<1> QED BY <1>2, <1>3, <1>4, <1>5, <1>6
        DEF Type, SwapFile, SendLater, StreamDrops, Hello, Poll,
            TakeBack, DiscardHeld, RetryHeld

LEMMA RanTypes ==
    ASSUME TypeOK
    PROVE  \A k \in DOMAIN ran : ran[k].nonce \in Nonces
<1> SUFFICES ASSUME NEW k \in DOMAIN ran PROVE ran[k].nonce \in Nonces
    OBVIOUS
<1>1. ran \in Seq([says : SUBSET Texts, nonce : Nonces])
    BY DEF TypeOK
<1>2. k \in 1..Len(ran)
    BY <1>1
<1>3. ran[k] \in [says : SUBSET Texts, nonce : Nonces]
    BY <1>1, <1>2, ElementOfSeq
<1> QED BY <1>3

\* The host answers a call it waits for; a refusal only of one not run.
LEMMA AnswerStep ==
    ASSUME TypeOK, RunInv, NEW i \in Busy, Pending(i), ran' = ran,
           NEW answer \in {"taken", "refused"}, NEW w \in WindowSteps, Answer(i, answer, w),
           w = "begun" => tries[i].window = "begun",
           answer = "refused" => w # "begun" /\ tries[i].window # "took"
    PROVE  RunInv'
<1>1. i \in Slots /\ tries[i] \in Try
    BY DEF TypeOK, Busy
<1>2. PICK try \in Try :
        try = [tries[i] EXCEPT !.at = "answered", !.answer = answer, !.window = w]
    BY <1>1, FieldsOfTry DEF Answers
<1>3. try.at = "answered" /\ try.window = w /\ try.nonce = tries[i].nonce
    BY <1>1, <1>2 DEF Try
<1>4. tries' = [tries EXCEPT ![i] = Settled(try)]
    BY <1>2 DEF Answer
<1>5. tries'[i] = Settled(try) /\ \A j \in Slots \ {i} : tries'[j] = tries[j]
    BY <1>1, <1>4 DEF TypeOK
<1>6. \A j \in Slots : Quiet(j)
    <2>1. Quiet(i)
        BY <1>3, <1>5, SettledIsQuiet
    <2>2. \A j \in Slots \ {i} : Quiet(j)
        BY <1>5, UntouchedIsQuiet
    <2> QED BY <2>1, <2>2
<1>7. seen' = [seen EXCEPT ![tries[i].nonce] = SettledAs(answer)] /\ tries[i].nonce \in Nonces
    BY <1>1 DEF Answer, Try
<1>8. answer = "refused" => ~Runner(i)'
    <2>1. CASE Settled(try) = None
        BY <1>5, <2>1 DEF Runner, Busy
    <2>2. CASE Settled(try) = try
        BY <1>3, <1>5, <2>2 DEF Runner, Pending
    <2> QED BY <2>1, <2>2 DEF Settled
<1>9. \A n \in Nonces : seen[n] # "unseen" /\ seen'[n] = "unseen" =>
            n = tries[i].nonce /\ answer = "refused"
    BY <1>7 DEF SettledAs, TypeOK
<1>10. Remembered'
    <2>1. ASSUME NEW j \in Slots, Runner(j)'
          PROVE  seen'[tries'[j].nonce] # "unseen"
        <3>1. Runner(j) /\ tries'[j].nonce = tries[j].nonce
            BY <1>6, <2>1 DEF Quiet
        <3>2. tries[j].nonce \in Nonces /\ seen[tries[j].nonce] # "unseen"
            <4>1. tries[j] \in Try
                BY <3>1 DEF Runner, Busy, TypeOK
            <4> QED BY <3>1, <4>1 DEF Try, RunInv, Remembered
        <3>3. Runner(i)
            BY DEF Runner
        <3>4. tries[j].nonce = tries[i].nonce => j = i
            BY <1>1, <3>1, <3>3 DEF RunInv, RunsAlone
        <3> QED BY <1>8, <1>9, <2>1, <3>1, <3>2, <3>4
    <2>2. ASSUME NEW k \in DOMAIN ran
          PROVE  seen'[ran[k].nonce] # "unseen"
        <3>1. seen[ran[k].nonce] # "unseen" /\ ran[k].nonce \in Nonces
            BY RanTypes DEF RunInv, Remembered
        <3>2. Runner(i)
            BY DEF Runner
        <3>3. ran[k].nonce = tries[i].nonce => tries[i].window = "took"
            BY <1>1, <3>2 DEF RunInv, RunnerTook
        <3> QED BY <1>9, <3>1, <3>3
    <2> QED BY <2>1, <2>2 DEF Remembered
<1>11. RunsAlone' /\ RunnerTook' /\ BeginningsAreClaimed' /\ NonceRunsOnce'
    <2>1. RunsAlone'
        BY <1>6 DEF RunInv, RunsAlone, Quiet
    <2>2. RunnerTook'
        BY <1>6 DEF RunInv, RunnerTook, Quiet
    <2>3. BeginningsAreClaimed'
        BY <1>6 DEF RunInv, BeginningsAreClaimed, Quiet
    <2>4. NonceRunsOnce'
        BY DEF RunInv, NonceRunsOnce
    <2> QED BY <2>1, <2>2, <2>3, <2>4
<1> QED BY <1>10, <1>11 DEF RunInv

LEMMA HostSteps ==
    ASSUME TypeOK, RunInv, NEW i \in Slots,
           RequestLost(i) \/ Arrives(i) \/ Deadline(i) \/ GraceOver(i)
    PROVE  RunInv'
<1>1. i \in Busy /\ tries[i] \in Try /\ tries[i].window \in WindowSteps /\ ran' = ran
    <2>1. i \in Busy /\ tries[i] \in Try /\ ran' = ran
        BY DEF RequestLost, Arrives, Deadline, GraceOver, Busy, TypeOK, host
    <2> QED BY <2>1 DEF Try, WindowSteps
<1>2. CASE RequestLost(i)
    <2>1. PICK try \in Try : try = [tries[i] EXCEPT !.at = "lost"]
        BY <1>1, FieldsOfTry
    <2>2. try.at = "lost" /\ try.window = tries[i].window /\ try.nonce = tries[i].nonce
        BY <1>1, <2>1 DEF Try
    <2>3. tries' = [tries EXCEPT ![i] = Settled(try)] /\ seen' = seen
        BY <1>2, <2>1 DEF RequestLost, host
    <2>4. tries'[i] = Settled(try) /\ \A j \in Slots \ {i} : tries'[j] = tries[j]
        BY <2>3 DEF TypeOK
    <2>5. \A j \in Slots : Quiet(j)
        BY <1>1, <2>2, <2>4, SettledIsQuiet, UntouchedIsQuiet
    <2> QED BY <1>1, <2>3, <2>5, QuietStep
<1>3. CASE Arrives(i) /\ ~FirstTry(tries[i].nonce)
    <2>1. PICK try \in Try : try = [tries[i] EXCEPT !.at = "answered", !.answer = "taken"]
        BY <1>1, FieldsOfTry DEF Answers
    <2>2. try.at = "answered" /\ try.window = tries[i].window /\ try.nonce = tries[i].nonce
        BY <1>1, <2>1 DEF Try
    <2>3. tries' = [tries EXCEPT ![i] = Settled(try)] /\ seen' = seen
        BY <1>3, <2>1 DEF Arrives
    <2>4. tries'[i] = Settled(try) /\ \A j \in Slots \ {i} : tries'[j] = tries[j]
        BY <2>3 DEF TypeOK
    <2>5. \A j \in Slots : Quiet(j)
        BY <1>1, <2>2, <2>4, SettledIsQuiet, UntouchedIsQuiet
    <2> QED BY <1>1, <2>3, <2>5, QuietStep
<1>4. CASE Arrives(i) /\ FirstTry(tries[i].nonce)
    <2>1. PICK try \in Try : try = [tries[i] EXCEPT !.at = "handed", !.window = "asked"]
        BY <1>1, FieldsOfTry
    <2>2. try.window = "asked" /\ try.nonce = tries[i].nonce /\ try.nonce \in Nonces
        BY <1>1, <2>1 DEF Try
    <2>3. tries' = [tries EXCEPT ![i] = try] /\ seen' = [seen EXCEPT ![try.nonce] = "running"]
        BY <1>4, <2>1, <2>2 DEF Arrives
    <2>4. tries'[i] = try /\ \A j \in Slots \ {i} : tries'[j] = tries[j]
        BY <2>3 DEF TypeOK
    <2>5. \A j \in Slots \ {i} : Runner(j)' => Runner(j) /\ tries[j].nonce # try.nonce
        <3>1. \A j \in Slots \ {i} : Runner(j)' => Runner(j)
            BY <2>4 DEF Runner, Busy, Pending
        <3> QED BY <1>4, <2>2, <3>1 DEF FirstTry, RunInv, Remembered
    <2>6. \A k \in DOMAIN ran : ran[k].nonce # try.nonce /\ ran[k].nonce \in Nonces
        BY <1>4, <2>2, RanTypes DEF FirstTry, RunInv, Remembered
    <2>7. RunsAlone'
        BY <2>4, <2>5 DEF RunInv, RunsAlone
    <2>8. Remembered'
        <3>1. \A n \in Nonces : seen[n] # "unseen" => seen'[n] # "unseen"
            BY <2>3 DEF TypeOK
        <3>2. seen'[try.nonce] # "unseen"
            BY <2>2, <2>3 DEF TypeOK
        <3>3. ASSUME NEW j \in Slots \ {i}, Runner(j)'
              PROVE  seen'[tries'[j].nonce] # "unseen"
            <4>1. tries[j] \in Try /\ Runner(j)
                BY <2>5, <3>3 DEF Runner, Busy, TypeOK
            <4>2. tries[j].nonce \in Nonces
                BY <4>1 DEF Try
            <4> QED BY <2>4, <3>1, <4>1, <4>2 DEF RunInv, Remembered
        <3>4. \A k \in DOMAIN ran : seen'[ran[k].nonce] # "unseen"
            BY <2>6, <3>1 DEF RunInv, Remembered
        <3> QED BY <1>1, <2>4, <3>2, <3>3, <3>4 DEF Remembered
    <2>9. RunnerTook'
        BY <1>1, <2>4, <2>5, <2>6 DEF RunInv, RunnerTook
    <2>10. BeginningsAreClaimed'
        BY <2>2, <2>4, <2>5 DEF RunInv, BeginningsAreClaimed
    <2>11. NonceRunsOnce'
        BY <1>1 DEF RunInv, NonceRunsOnce
    <2> QED BY <2>7, <2>8, <2>9, <2>10, <2>11 DEF RunInv
<1>5. CASE Deadline(i) /\ GivesUp(i)
    <2>1. Pending(i) /\ Answer(i, "refused", tries[i].window)
        BY <1>5 DEF Deadline, Pending
    <2>2. tries[i].window \notin {"begun", "took"}
        BY <1>1, <1>5, <2>1 DEF Deadline, GivesUp, Runner, RunInv, BeginningsAreClaimed
    <2> QED BY <1>1, <2>1, <2>2, AnswerStep
<1>6. CASE Deadline(i) /\ ~GivesUp(i)
    <2>1. PICK try \in Try : try = [tries[i] EXCEPT !.at = "grace", !.claimed = FALSE]
        BY <1>1, FieldsOfTry
    <2>2. try.at = "grace" /\ try.window = tries[i].window /\ try.nonce = tries[i].nonce
        BY <1>1, <2>1 DEF Try
    <2>3. tries' = [tries EXCEPT ![i] = try] /\ seen' = seen
        BY <1>6, <2>1 DEF Deadline
    <2>4. tries'[i] = try /\ \A j \in Slots \ {i} : tries'[j] = tries[j]
        BY <2>3 DEF TypeOK
    <2>5. Quiet(i)
        BY <1>1, <1>6, <2>2, <2>4 DEF Quiet, Runner, Pending, Deadline
    <2>6. \A j \in Slots : Quiet(j)
        BY <2>4, <2>5, UntouchedIsQuiet
    <2> QED BY <1>1, <2>3, <2>6, QuietStep
<1>7. CASE GraceOver(i)
    <2>1. Pending(i) /\ Answer(i, "taken", tries[i].window)
        BY <1>7 DEF GraceOver, Pending, LateAnswer
    <2> QED BY <1>1, <2>1, AnswerStep
<1> QED BY <1>2, <1>3, <1>4, <1>5, <1>6, <1>7

LEMMA WindowActs ==
    ASSUME TypeOK, RunInv, NEW i \in Slots, Claim(i) \/ Takes(i) \/ Refuses(i) \/ Says(i)
    PROVE  RunInv'
<1>1. i \in Busy /\ tries[i] \in Try
    BY DEF Claim, Takes, Refuses, Says, WindowAt, Busy, TypeOK
<1>2. ASSUME NEW w \in {"begun", "took", "refused"}, NEW try \in Try,
             try.at = tries[i].at, try.nonce = tries[i].nonce, try.window = w,
             tries' = [tries EXCEPT ![i] = try], seen' = seen,
             Runner(i)' => Runner(i),
             w = "begun" => try.claimed,
             w = "took" => tries[i].window = "begun" /\ try.claimed = tries[i].claimed,
             w # "took" => ran' = ran /\ tries[i].window # "took",
             w = "took" =>
                ran' = Append(ran, [says |-> tries[i].says, nonce |-> tries[i].nonce])
      PROVE  RunInv'
    <2>1. tries'[i] = try /\ \A j \in Slots \ {i} : tries'[j] = tries[j]
        BY <1>2 DEF TypeOK
    <2>2. \A j \in Slots : Runner(j)' => Runner(j) /\ tries'[j].nonce = tries[j].nonce
        BY <1>2, <2>1 DEF Runner, Busy, Pending
    <2>3. RunsAlone'
        BY <2>2 DEF RunInv, RunsAlone
    <2>4. ran \in Seq([says : SUBSET Texts, nonce : Nonces]) /\ Len(ran) \in Nat
          /\ DOMAIN ran = 1..Len(ran)
        BY DEF TypeOK
    <2>5. w = "took" => /\ Runner(i)
                        /\ \A k \in DOMAIN ran : ran[k].nonce # tries[i].nonce
        <3>1. w = "took" => Runner(i)
            BY <1>1, <1>2 DEF Runner
        <3> QED BY <1>2, <3>1 DEF RunInv, RunnerTook
    <2>6. ASSUME NEW k \in DOMAIN ran'
          PROVE  \/ k \in DOMAIN ran /\ ran'[k] = ran[k]
                 \/ w = "took" /\ k = Len(ran) + 1 /\ ran'[k].nonce = tries[i].nonce
        BY <1>2, <2>4, <2>6
    <2>7. Remembered'
        <3>1. w = "took" => seen[tries[i].nonce] # "unseen"
            BY <2>5 DEF RunInv, Remembered
        <3>2. \A k \in DOMAIN ran' : seen'[ran'[k].nonce] # "unseen"
            BY <1>2, <2>6, <3>1 DEF RunInv, Remembered
        <3> QED BY <1>2, <2>2, <3>2 DEF RunInv, Remembered
    <2>8. RunnerTook'
        <3>1. ASSUME NEW j \in Slots, NEW k \in DOMAIN ran', Runner(j)',
                     ran'[k].nonce = tries'[j].nonce
              PROVE  tries'[j].window = "took"
            <4>1. Runner(j) /\ tries'[j].nonce = tries[j].nonce
                BY <2>2, <3>1
            <4>2. CASE w = "took" /\ ran'[k].nonce = tries[i].nonce
                <5>1. j = i
                    BY <2>5, <3>1, <4>1, <4>2 DEF RunInv, RunsAlone
                <5> QED BY <1>2, <2>1, <4>2, <5>1
            <4>3. CASE k \in DOMAIN ran /\ ran'[k] = ran[k]
                <5>1. tries[j].window = "took"
                    BY <3>1, <4>1, <4>3 DEF RunInv, RunnerTook
                <5>2. j # i
                    BY <1>2, <5>1
                <5> QED BY <2>1, <5>1, <5>2
            <4> QED BY <2>6, <4>2, <4>3
        <3> QED BY <3>1 DEF RunnerTook
    <2>9. BeginningsAreClaimed'
        <3>1. ASSUME NEW j \in Slots, Runner(j)', tries'[j].at = "handed",
                     tries'[j].window \in {"begun", "took"}
              PROVE  tries'[j].claimed
            <4>1. CASE j # i
                BY <2>1, <2>2, <3>1, <4>1 DEF RunInv, BeginningsAreClaimed
            <4>2. CASE j = i /\ w = "begun"
                BY <1>2, <2>1, <4>2
            <4>3. CASE j = i /\ w = "took"
                BY <1>2, <2>1, <2>2, <3>1, <4>3 DEF RunInv, BeginningsAreClaimed
            <4> QED BY <1>2, <2>1, <3>1, <4>1, <4>2, <4>3
        <3> QED BY <3>1 DEF BeginningsAreClaimed
    <2>10. NonceRunsOnce'
        <3>1. ASSUME NEW j \in DOMAIN ran', NEW k \in DOMAIN ran', j # k
              PROVE  ran'[j].nonce # ran'[k].nonce
            <4>1. CASE j \in DOMAIN ran /\ ran'[j] = ran[j] /\ k \in DOMAIN ran /\ ran'[k] = ran[k]
                BY <3>1, <4>1 DEF RunInv, NonceRunsOnce
            <4> QED BY <2>5, <2>6, <3>1, <4>1
        <3> QED BY <3>1 DEF NonceRunsOnce
    <2> QED BY <2>3, <2>7, <2>8, <2>9, <2>10 DEF RunInv
<1>3. CASE Claim(i) /\ MayClaim(i)
    <2>1. PICK try \in Try : try = [tries[i] EXCEPT !.window = "begun", !.claimed = TRUE]
        BY <1>1, FieldsOfTry
    <2>2. /\ try.at = tries[i].at /\ try.nonce = tries[i].nonce
          /\ try.window = "begun" /\ try.claimed
        BY <1>1, <2>1 DEF Try
    <2>3. tries' = [tries EXCEPT ![i] = try] /\ seen' = seen /\ ran' = ran
        BY <1>3, <2>1 DEF Claim, host
    <2>4. Runner(i) /\ tries[i].window = "asked"
        BY <1>1, <1>3 DEF Claim, MayClaim, WindowAt, Runner
    <2> QED BY <1>2, <2>2, <2>3, <2>4
<1>4. CASE Takes(i)
    <2>1. PICK try \in Try : try = [tries[i] EXCEPT !.window = "took"]
        BY <1>1, FieldsOfTry DEF WindowSteps
    <2>2. /\ try.at = tries[i].at /\ try.nonce = tries[i].nonce /\ try.window = "took"
          /\ try.claimed = tries[i].claimed
        BY <1>1, <2>1 DEF Try
    <2>3. tries' = [tries EXCEPT ![i] = try] /\ seen' = seen
          /\ ran' = Append(ran, [says |-> tries[i].says, nonce |-> tries[i].nonce])
        BY <1>4, <2>1 DEF Takes
    <2>4. Runner(i) /\ tries[i].window = "begun"
        BY <1>1, <1>4 DEF Takes, WindowAt, Runner
    <2> QED BY <1>2, <2>2, <2>3, <2>4
<1>5. CASE Refuses(i)
    <2>1. PICK try \in Try : try = [tries[i] EXCEPT !.window = "refused"]
        BY <1>1, FieldsOfTry DEF WindowSteps
    <2>2. try.at = tries[i].at /\ try.nonce = tries[i].nonce /\ try.window = "refused"
        BY <1>1, <2>1 DEF Try
    <2>3. tries' = [tries EXCEPT ![i] = try] /\ seen' = seen /\ ran' = ran
        BY <1>5, <2>1 DEF Refuses, host
    <2>4. tries[i].window # "took"
        BY <1>5 DEF Refuses, WindowAt
    <2>5. Runner(i)' => Runner(i)
        <3>1. tries'[i] = try
            BY <2>3 DEF TypeOK
        <3> QED BY <1>1, <2>2, <3>1 DEF Runner, Pending, Busy
    <2> QED BY <1>2, <2>2, <2>3, <2>4, <2>5
<1>6. CASE Says(i) /\ Pending(i)
    <2>1. ran' = ran
        BY <1>6 DEF Says
    <2>2. CASE tries[i].window = "took"
        BY <1>1, <1>6, <2>1, <2>2, AnswerStep DEF Says, WindowSteps
    <2>3. CASE tries[i].window = "refused"
        BY <1>1, <1>6, <2>1, <2>3, AnswerStep DEF Says, WindowSteps
    <2> QED BY <1>6, <2>2, <2>3 DEF Says, WindowAt
<1>7. CASE (Says(i) \/ Claim(i)) /\ ~Pending(i)
    <2>1. PICK try \in Try : try = [tries[i] EXCEPT !.window = "over"]
        BY <1>1, FieldsOfTry DEF WindowSteps
    <2>2. try.at = tries[i].at /\ try.window = "over"
        BY <1>1, <2>1 DEF Try
    <2>3. tries' = [tries EXCEPT ![i] = Settled(try)] /\ seen' = seen /\ ran' = ran
        BY <1>7, <2>1 DEF Says, Claim, MayClaim, host
    <2>4. tries'[i] = Settled(try) /\ \A j \in Slots \ {i} : tries'[j] = tries[j]
        BY <2>3 DEF TypeOK
    <2>5. \A j \in Slots : Quiet(j)
        BY <1>1, <1>7, <2>2, <2>4, SettledIsQuiet, UntouchedIsQuiet DEF Pending
    <2> QED BY <2>3, <2>5, QuietStep
<1> QED BY <1>3, <1>4, <1>5, <1>6, <1>7 DEF MayClaim

\* The hardships are chosen once.
LEMMA WorldStays == [Next]_vars => world' = world
<1> SUFFICES ASSUME [Next]_vars PROVE world' = world
    OBVIOUS
<1> QED BY DEF Next, vars, told, Type, SwapFile, SendLater, SendNow, Drain, StreamDrops, Hello,
        Poll, Reload, TakeBack, DiscardHeld, RetryHeld, HearTaken, HearRefused, HearNothing,
        RequestLost, Arrives, Deadline, GraceOver, Claim, Takes, Refuses, Says, Forgets,
        TurnEnds

LEMMA InitRuns == PhoneInit => RunInv
BY DEF PhoneInit, RunInv, RunsAlone, Remembered, RunnerTook, BeginningsAreClaimed,
       NonceRunsOnce, Runner, Busy

LEMMA RunStep ==
    TypeOK /\ RunInv /\ "forgets" \notin world /\ [Next]_vars => RunInv'
<1> SUFFICES ASSUME TypeOK, RunInv, "forgets" \notin world, [Next]_vars PROVE RunInv'
    OBVIOUS
<1>1. CASE TurnEnds \/ UNCHANGED vars
    <2>1. UNCHANGED <<seen, ran, tries>>
        BY <1>1 DEF TurnEnds, vars, host
    <2>2. \A j \in Slots : Quiet(j)
        BY <2>1, UntouchedIsQuiet
    <2> QED BY <2>1, <2>2, QuietStep
<1> QED BY <1>1, PageSteps, HostSteps, WindowActs DEF Next, Forgets

\* One nonce is run once, whatever is lost, resent, claimed late or given
\* up on, as long as the listener remembers (Phone's NonceOnce).
THEOREM NonceIsRunOnce == Spec => []NonceOnce
<1> DEFINE IInv == TypeOK /\ ("forgets" \notin world => RunInv)
<1>1. PhoneInit => IInv
    BY InitTypes, InitRuns
<1>2. IInv /\ [Next]_vars => IInv'
    BY TypeStep, RunStep, WorldStays
<1>3. IInv => NonceOnce
    BY DEF NonceOnce, RunInv
<1> QED BY <1>1, <1>2, <1>3, PTL DEF Spec

----------------------------------------------------------------------------
(***************************************************************************)
(* What he wrote runs once                                                 *)
(***************************************************************************)

\* The message s bears the nonce n: held, on its way, or taken by the window.
Occurs(s, n) ==
    \/ \E k \in DOMAIN queue : queue[k].says = s /\ queue[k].nonce = n
    \/ \E i \in Slots : tries[i] # None /\ tries[i].says = s /\ tries[i].nonce = n
    \/ \E k \in DOMAIN ran : ran[k].says = s /\ ran[k].nonce = n

\* The page awaits what became of a message from there.
Awaits(i, from) == i \in Slots /\ tries[i] # None /\ tries[i].page = "waits" /\ tries[i].from = from

\* Where the page does not write ahead, the box is empty while a message from
\* it is on its way, and the last try is that message.
OneFromTheBox ==
    /\ \A i \in Slots : Awaits(i, "box") =>
            /\ box = {}
            /\ lastTry = [key |-> KeyOf(tries[i].says), nonce |-> tries[i].nonce]
    /\ \A i, j \in Slots : Awaits(i, "box") /\ Awaits(j, "box") => i = j

\* What is sent, and what is in the box, he has written.
HeWroteIt == box \subseteq typed /\ \A s \in SUBSET Texts, n \in Nonces : Occurs(s, n) => s \subseteq typed

\* A message has one nonce; back in the box it will be sent under the same.
OneNonce ==
    /\ \A s \in SUBSET Texts : \A n, o \in Nonces : Occurs(s, n) /\ Occurs(s, o) => n = o
    /\ \A n \in Nonces : box # {} /\ Occurs(box, n) =>
            lastTry = [key |-> KeyOf(box), nonce |-> n]

InTurn == world \cap {"ahead", "back", "reload"} = {}

OnceInv == HeWroteIt /\ (InTurn => OneFromTheBox /\ OneNonce)

----------------------------------------------------------------------------
(***************************************************************************)
(* Nothing he wrote is lost                                                *)
(***************************************************************************)

\* The worlds of KeptUntilTaken.
Calm == world \subseteq {"refuses", "half", "forgets"}

\* A nonce has one message, and none was made twice.
OneMessage ==
    /\ \A s, r \in SUBSET Texts : \A n \in Nonces : Occurs(s, n) /\ Occurs(r, n) => s = r
    /\ \A s \in SUBSET Texts, n \in Nonces : Occurs(s, n) => n <= made
    /\ lastTry # None => lastTry.nonce <= made

\* The last try is of a message still in the box, or on its way from it.
LastTryIsHis ==
    lastTry # None /\ (\A i \in Slots : ~Awaits(i, "box")) =>
        \E s \in SUBSET box : 
            /\ lastTry.key = KeyOf(s)
            /\ \A r \in SUBSET Texts : Occurs(r, lastTry.nonce) => r = s

\* A held message and one from the box have nonces of their own; of each kind
\* one is on its way.
OneAwaited ==
    /\ \A i, j \in Slots : Awaits(i, "queue") /\ Awaits(j, "queue") => i = j
    /\ lastTry # None =>
        /\ \A k \in DOMAIN queue : queue[k].nonce # lastTry.nonce
        /\ \A i \in Slots : Awaits(i, "queue") => tries[i].nonce # lastTry.nonce
    /\ \A i \in Slots : tries[i] # None =>
        /\ tries[i].page = "waits" \/ tries[i].at \in {"lost", "answered"}
        /\ tries[i].answer \in {"taken", "refused"} => tries[i].at = "answered"

Ran(n) == \E k \in DOMAIN ran : ran[k].nonce = n

\* What is said to be taken was taken.
TakenIsRun ==
    /\ \A n \in Nonces : seen[n] = "running" =>
        \E i \in Slots : tries[i] # None /\ Pending(i) /\ tries[i].nonce = n
    /\ \A n \in Nonces : seen[n] = "done" => Ran(n)
    /\ \A i \in Slots : tries[i] # None /\ (tries[i].answer = "taken" \/ tries[i].window = "took") =>
        Ran(tries[i].nonce)

\* Where a text he wrote may be: in the box, held, awaited from the box, or
\* taken.
Somewhere(t) ==
    \/ t \in box
    \/ \E k \in DOMAIN queue : t \in queue[k].says
    \/ \E i \in Slots : Awaits(i, "box") /\ t \in tries[i].says
    \/ \E k \in DOMAIN ran : t \in ran[k].says

Whole == \A t \in typed \ dropped : Somewhere(t)

KeptInv == Calm => OneMessage /\ LastTryIsHis /\ OneAwaited /\ TakenIsRun /\ Whole

LEMMA RemovedOne ==
    ASSUME NEW S, NEW q \in Seq(S), NEW j \in DOMAIN q
    PROVE  /\ RemoveAt(q, j) \in Seq(S)
           /\ \A k \in DOMAIN RemoveAt(q, j) : \E m \in DOMAIN q : RemoveAt(q, j)[k] = q[m]
           /\ \A m \in DOMAIN q : m # j => \E k \in DOMAIN RemoveAt(q, j) : RemoveAt(q, j)[k] = q[m]
<1> DEFINE a == SubSeq(q, 1, j - 1)
           b == SubSeq(q, j + 1, Len(q))
           r == a \o b
<1>1. j \in 1..Len(q) /\ Len(q) \in Nat /\ DOMAIN q = 1..Len(q)
    OBVIOUS
<1>2. /\ a \in Seq(S) /\ Len(a) = j - 1 /\ \A k \in 1..(j - 1) : a[k] = q[k]
    BY <1>1, SubSeqProperties
<1>3. /\ b \in Seq(S) /\ Len(b) = Len(q) - j /\ \A k \in 1..(Len(q) - j) : b[k] = q[j + k]
    <2>1. \A k \in 1..(Len(q) - j) : j + 1 + k - 1 = j + k
        BY <1>1
    <2> QED BY <1>1, <2>1, SubSeqProperties
<1>4. RemoveAt(q, j) = r
    BY DEF RemoveAt
<1> HIDE DEF a, b
<1>5. /\ r \in Seq(S) /\ Len(r) = Len(q) - 1 /\ DOMAIN r = 1..(Len(q) - 1)
      /\ \A k \in 1..(Len(q) - 1) : r[k] = IF k < j THEN q[k] ELSE q[k + 1]
    <2>1. r \in Seq(S) /\ Len(r) = Len(a) + Len(b)
        BY <1>2, <1>3, ConcatProperties
    <2>2. Len(r) = Len(q) - 1
        BY <1>1, <1>2, <1>3, <2>1
    <2>3. ASSUME NEW k \in 1..(Len(q) - 1)
          PROVE  r[k] = IF k < j THEN q[k] ELSE q[k + 1]
        <3>1. k \in 1..(Len(a) + Len(b)) /\ r[k] = IF k <= Len(a) THEN a[k] ELSE b[k - Len(a)]
            BY <1>1, <1>2, <1>3, ConcatProperties
        <3>2. CASE k < j
            <4>1. k \in 1..(j - 1) /\ k <= Len(a)
                BY <1>1, <1>2, <3>2
            <4> QED BY <1>2, <3>1, <3>2, <4>1
        <3>3. CASE ~(k < j)
            <4>1. k - (j - 1) \in 1..(Len(q) - j) /\ ~(k <= Len(a)) /\ j + (k - (j - 1)) = k + 1
                BY <1>1, <1>2, <3>3
            <4> QED BY <1>2, <1>3, <3>1, <3>3, <4>1
        <3> QED BY <3>2, <3>3
    <2> HIDE DEF r
    <2>4. DOMAIN r = 1..(Len(q) - 1)
        BY <2>1, <2>2
    <2> QED BY <2>1, <2>2, <2>3, <2>4
<1> HIDE DEF r
<1>6. \A k \in DOMAIN r : \E m \in DOMAIN q : r[k] = q[m]
    <2> SUFFICES ASSUME NEW k \in 1..(Len(q) - 1) PROVE \E m \in DOMAIN q : r[k] = q[m]
        BY <1>5
    <2>1. k \in DOMAIN q /\ k + 1 \in DOMAIN q
        BY <1>1
    <2> QED BY <1>5, <2>1
<1>7. \A m \in DOMAIN q : m # j => \E k \in DOMAIN r : r[k] = q[m]
    <2> SUFFICES ASSUME NEW m \in 1..Len(q), m # j PROVE \E k \in DOMAIN r : r[k] = q[m]
        BY <1>1
    <2>1. CASE m < j
        <3>1. m \in 1..(Len(q) - 1)
            BY <1>1, <2>1
        <3> QED BY <1>5, <2>1, <3>1
    <2>2. CASE m > j
        <3>1. m - 1 \in 1..(Len(q) - 1) /\ ~(m - 1 < j) /\ (m - 1) + 1 = m
            BY <1>1, <2>2
        <3> QED BY <1>5, <3>1
    <2> QED BY <1>1, <2>1, <2>2
<1> QED BY <1>4, <1>5, <1>6, <1>7

\* What a step leaves of a request: what it says, its nonce, where it is from.
Same(i) ==
    tries'[i] # None =>
        /\ tries[i] # None
        /\ tries'[i].says = tries[i].says /\ tries'[i].nonce = tries[i].nonce
        /\ tries'[i].from = tries[i].from
        /\ tries'[i].page = "waits" => tries[i].page = "waits"

LEMMA Untouched == ASSUME NEW i, tries'[i] = tries[i] PROVE Same(i)
BY DEF Same

LEMMA SettledSame ==
    ASSUME NEW i, NEW try \in Try, tries[i] # None, tries'[i] \in {try, Settled(try)},
           try.says = tries[i].says, try.nonce = tries[i].nonce, try.from = tries[i].from,
           try.page = "waits" => tries[i].page = "waits"
    PROVE  Same(i)
BY DEF Same, Settled

LEMMA TryFields ==
    ASSUME TypeOK, NEW i \in Slots, tries[i] # None
    PROVE  /\ tries[i] \in Try /\ tries[i].says \in SUBSET Texts /\ tries[i].nonce \in Nonces
           /\ tries[i].page \in {"waits", "over"} /\ tries[i].from \in {"box", "queue"}
<1>1. tries[i] \in Try
    BY DEF TypeOK
<1> QED BY <1>1 DEF Try

LEMMA HeldFields ==
    ASSUME TypeOK, NEW k \in DOMAIN queue
    PROVE  queue[k] \in Message /\ queue[k].says \in SUBSET Texts /\ queue[k].nonce \in Nonces
<1>1. queue[k] \in Message
    BY DEF TypeOK
<1> QED BY <1>1 DEF Message

LEMMA RanFields ==
    ASSUME TypeOK, NEW k \in DOMAIN ran
    PROVE  ran[k].says \in SUBSET Texts /\ ran[k].nonce \in Nonces
<1>1. ran \in Seq([says : SUBSET Texts, nonce : Nonces])
    BY DEF TypeOK
<1>2. k \in 1..Len(ran)
    BY <1>1
<1>3. ran[k] \in [says : SUBSET Texts, nonce : Nonces]
    BY <1>1, <1>2, ElementOfSeq
<1> QED BY <1>3

\* The page is over with a request.
LEMMA PageOverLeaves ==
    ASSUME TypeOK, NEW i \in Slots, tries[i] # None, PageOver(i)
    PROVE  /\ \A j \in Slots : Same(j)
           /\ \A j \in Slots : j # i => tries'[j] = tries[j]
           /\ tries'[i] # None =>
                /\ tries'[i].page = "over" /\ tries'[i].at = tries[i].at
                /\ tries'[i].answer = tries[i].answer /\ tries'[i].window = tries[i].window
           /\ tries'[i] = None => tries[i].at \in {"lost", "answered"}
<1>1. tries[i] \in Try
    BY TryFields
<1>2. PICK try \in Try : try = [tries[i] EXCEPT !.page = "over"]
    BY <1>1, FieldsOfTry
<1>3. /\ try.says = tries[i].says /\ try.nonce = tries[i].nonce /\ try.from = tries[i].from
      /\ try.page = "over" /\ try.at = tries[i].at /\ try.answer = tries[i].answer
      /\ try.window = tries[i].window
    BY <1>1, <1>2 DEF Try
<1>4. tries'[i] = Settled(try) /\ \A j \in Slots : j # i => tries'[j] = tries[j]
    BY <1>2 DEF PageOver, TypeOK
<1>5. Same(i)
    BY <1>3, <1>4, SettledSame
<1>6. \A j \in Slots : Same(j)
    BY <1>4, <1>5, Untouched
<1>7. /\ tries'[i] # None => tries'[i] = try
      /\ tries'[i] = None => tries[i].at \in {"lost", "answered"}
    <2>1. None # try
        BY PhoneAssumption
    <2> QED BY <1>3, <1>4, <2>1 DEF Settled
<1> QED BY <1>3, <1>4, <1>6, <1>7

\* A request just posted.
LEMMA PostLeaves ==
    ASSUME TypeOK, NEW says \in SUBSET Texts, NEW nonce \in Nonces, NEW from \in {"box", "queue"},
           Post(says, nonce, from)
    PROVE  \E i \in Slots :
              /\ tries[i] = None
              /\ tries'[i] = Request(says, nonce, from) /\ tries'[i] # None
              /\ \A j \in Slots : j # i => tries'[j] = tries[j]
<1>1. FreeSlot \in Slots /\ tries[FreeSlot] = None
    BY FreeSlotIsFree DEF Post, TypeOK
<1>2. tries'[FreeSlot] = Request(says, nonce, from)
      /\ \A j \in Slots : j # FreeSlot => tries'[j] = tries[j]
    BY <1>1 DEF Post, TypeOK
<1>3. Request(says, nonce, from) \in Try
    BY DEF Request, Try
<1>4. Request(says, nonce, from) # None
    BY <1>3, PhoneAssumption
<1> QED BY <1>1, <1>2, <1>4

----------------------------------------------------------------------------
(* What a step of the network, the host or the window leaves of a request. *)

\* Nothing is answered and nothing taken.
GoesOn(i, try) ==
    /\ UNCHANGED <<seen, ran>> /\ try.answer = tries[i].answer
    /\ try.window = "took" => tries[i].window = "took"
    /\ Pending(i) => try.at \in {"handed", "grace"}
    /\ tries[i].at \in {"lost", "answered"} => try.at = tries[i].at

\* The first try of its nonce is handed to the window.
GoesIn(i, try) ==
    /\ seen' = [seen EXCEPT ![tries[i].nonce] = "running"] /\ UNCHANGED ran
    /\ tries[i].at = "coming" /\ try.at = "handed" /\ try.answer = tries[i].answer
    /\ try.window = "asked"

\* Another try is answered at once.
Resends(i, try) ==
    /\ UNCHANGED <<seen, ran>> /\ seen[tries[i].nonce] # "unseen"
    /\ tries[i].at = "coming" /\ try.at = "answered"
    /\ try.window = tries[i].window

\* The host has its answer.
IsAnswered(i, try) ==
    /\ UNCHANGED ran /\ Pending(i) /\ try.at = "answered"
    /\ seen' = [seen EXCEPT ![tries[i].nonce] = SettledAs(try.answer)]
    /\ try.answer \in {"taken", "refused"}
    /\ try.answer = "taken" => tries[i].window = "took" \/ "late" \in world
    /\ try.window = "took" => tries[i].window = "took"

\* The window takes the message.
IsTaken(i, try) ==
    /\ UNCHANGED seen
    /\ ran' = Append(ran, [says |-> tries[i].says, nonce |-> tries[i].nonce])
    /\ try.at = tries[i].at /\ try.answer = tries[i].answer

HostKind(i, try) ==
    GoesOn(i, try) \/ GoesIn(i, try) \/ Resends(i, try) \/ IsAnswered(i, try) \/ IsTaken(i, try)

\* The request is the one it was, on the page's side.
Goes(i, try) ==
    /\ try.says = tries[i].says /\ try.nonce = tries[i].nonce /\ try.from = tries[i].from
    /\ try.page = tries[i].page
    /\ tries'[i] \in {try, Settled(try)}
    /\ \A j \in Slots : j # i => tries'[j] = tries[j]

HostAct(i) ==
    \/ RequestLost(i) \/ Arrives(i) \/ Deadline(i) \/ GraceOver(i)
    \/ Claim(i) \/ Takes(i) \/ Refuses(i) \/ Says(i)

LEMMA HostLeaves ==
    ASSUME TypeOK, NEW i \in Slots, HostAct(i)
    PROVE  tries[i] # None /\ \E try \in Try : Goes(i, try) /\ HostKind(i, try)
<1>1. tries[i] # None /\ tries[i] \in Try
    <2>1. tries[i] # None
        BY DEF HostAct, RequestLost, Arrives, Deadline, GraceOver, Claim, Takes, Refuses, Says,
               WindowAt, Busy
    <2> QED BY <2>1, TryFields
<1>2. ASSUME NEW try \in Try,
             tries' = [tries EXCEPT ![i] = try] \/ tries' = [tries EXCEPT ![i] = Settled(try)]
      PROVE  /\ tries'[i] \in {try, Settled(try)}
             /\ \A j \in Slots : j # i => tries'[j] = tries[j]
    BY <1>2 DEF TypeOK
<1>3. CASE RequestLost(i)
    <2>1. PICK try \in Try : try = [tries[i] EXCEPT !.at = "lost"]
        BY <1>1, FieldsOfTry
    <2>2. /\ try.says = tries[i].says /\ try.nonce = tries[i].nonce /\ try.from = tries[i].from
          /\ try.page = tries[i].page /\ try.at = "lost" /\ try.answer = tries[i].answer
          /\ try.window = tries[i].window
        BY <1>1, <2>1 DEF Try
    <2>3. tries' = [tries EXCEPT ![i] = Settled(try)] /\ UNCHANGED <<seen, ran>>
          /\ tries[i].at = "coming"
        BY <1>3, <2>1 DEF RequestLost, host
    <2>4. Goes(i, try)
        BY <1>2, <2>2, <2>3 DEF Goes
    <2>5. GoesOn(i, try)
        BY <2>2, <2>3 DEF GoesOn, Pending
    <2> QED BY <1>1, <2>4, <2>5 DEF HostKind
<1>4. CASE Arrives(i) /\ FirstTry(tries[i].nonce)
    <2>1. PICK try \in Try : try = [tries[i] EXCEPT !.at = "handed", !.window = "asked"]
        BY <1>1, FieldsOfTry
    <2>2. /\ try.says = tries[i].says /\ try.nonce = tries[i].nonce /\ try.from = tries[i].from
          /\ try.page = tries[i].page /\ try.at = "handed" /\ try.answer = tries[i].answer
          /\ try.window = "asked"
        BY <1>1, <2>1 DEF Try
    <2>3. tries' = [tries EXCEPT ![i] = try] /\ seen' = [seen EXCEPT ![tries[i].nonce] = "running"]
          /\ UNCHANGED ran /\ tries[i].at = "coming"
        BY <1>4, <2>1 DEF Arrives
    <2>4. Goes(i, try)
        BY <1>2, <2>2, <2>3 DEF Goes
    <2>5. GoesIn(i, try)
        BY <2>2, <2>3 DEF GoesIn
    <2> QED BY <1>1, <2>4, <2>5 DEF HostKind
<1>5. CASE Arrives(i) /\ ~FirstTry(tries[i].nonce)
    <2>1. PICK try \in Try : try = [tries[i] EXCEPT !.at = "answered", !.answer = "taken"]
        BY <1>1, FieldsOfTry DEF Answers
    <2>2. /\ try.says = tries[i].says /\ try.nonce = tries[i].nonce /\ try.from = tries[i].from
          /\ try.page = tries[i].page /\ try.at = "answered" /\ try.window = tries[i].window
        BY <1>1, <2>1 DEF Try
    <2>3. tries' = [tries EXCEPT ![i] = Settled(try)] /\ UNCHANGED <<seen, ran>>
          /\ tries[i].at = "coming" /\ seen[tries[i].nonce] # "unseen"
        BY <1>5, <2>1 DEF Arrives, FirstTry
    <2>4. Goes(i, try)
        BY <1>2, <2>2, <2>3 DEF Goes
    <2>5. Resends(i, try)
        BY <2>2, <2>3 DEF Resends
    <2> QED BY <1>1, <2>4, <2>5 DEF HostKind
<1>6. ASSUME NEW a \in {"taken", "refused"}, NEW w \in WindowSteps, Answer(i, a, w), Pending(i),
             ran' = ran, a = "taken" => tries[i].window = "took" \/ "late" \in world,
             w = "took" => tries[i].window = "took"
      PROVE  \E try \in Try : Goes(i, try) /\ HostKind(i, try)
    <2>1. PICK try \in Try : try = [tries[i] EXCEPT !.at = "answered", !.answer = a, !.window = w]
        BY <1>1, FieldsOfTry DEF Answers
    <2>2. /\ try.says = tries[i].says /\ try.nonce = tries[i].nonce /\ try.from = tries[i].from
          /\ try.page = tries[i].page /\ try.at = "answered" /\ try.answer = a /\ try.window = w
        BY <1>1, <2>1 DEF Try
    <2>3. tries' = [tries EXCEPT ![i] = Settled(try)]
          /\ seen' = [seen EXCEPT ![tries[i].nonce] = SettledAs(a)]
        BY <1>6, <2>1 DEF Answer
    <2>4. Goes(i, try)
        BY <1>2, <2>2, <2>3 DEF Goes
    <2>5. IsAnswered(i, try)
        BY <1>6, <2>2, <2>3 DEF IsAnswered
    <2> QED BY <2>4, <2>5 DEF HostKind
<1>7. tries[i].window \in WindowSteps
    BY <1>1 DEF Try, WindowSteps
<1>8. CASE Deadline(i) /\ GivesUp(i)
    <2>1. Answer(i, "refused", tries[i].window) /\ Pending(i) /\ ran' = ran
        BY <1>8 DEF Deadline, Pending
    <2> QED BY <1>1, <1>6, <1>7, <2>1
<1>9. CASE Deadline(i) /\ ~GivesUp(i)
    <2>1. PICK try \in Try : try = [tries[i] EXCEPT !.at = "grace", !.claimed = FALSE]
        BY <1>1, FieldsOfTry
    <2>2. /\ try.says = tries[i].says /\ try.nonce = tries[i].nonce /\ try.from = tries[i].from
          /\ try.page = tries[i].page /\ try.at = "grace" /\ try.answer = tries[i].answer
          /\ try.window = tries[i].window
        BY <1>1, <2>1 DEF Try
    <2>3. tries' = [tries EXCEPT ![i] = try] /\ UNCHANGED <<seen, ran>> /\ tries[i].at = "handed"
        BY <1>9, <2>1 DEF Deadline
    <2>4. Goes(i, try)
        BY <1>2, <2>2, <2>3 DEF Goes
    <2>5. GoesOn(i, try)
        BY <2>2, <2>3 DEF GoesOn
    <2> QED BY <1>1, <2>4, <2>5 DEF HostKind
<1>10. CASE GraceOver(i)
    <2>1. /\ Answer(i, "taken", tries[i].window) /\ Pending(i) /\ ran' = ran
          /\ tries[i].window = "took" \/ "late" \in world
        BY <1>10 DEF GraceOver, LateAnswer, Pending
    <2> QED BY <1>1, <1>6, <1>7, <2>1
<1>11. CASE Says(i) /\ Pending(i)
    <2>1. ran' = ran /\ tries[i].window \in {"took", "refused"}
        BY <1>11 DEF Says, WindowAt
    <2>2. CASE tries[i].window = "took"
        <3>1. Answer(i, "taken", "over")
            BY <1>11, <2>2 DEF Says
        <3> QED BY <1>1, <1>6, <1>11, <2>1, <2>2, <3>1 DEF WindowSteps
    <2>3. CASE tries[i].window = "refused"
        <3>1. Answer(i, "refused", "over")
            BY <1>11, <2>3 DEF Says
        <3> QED BY <1>1, <1>6, <1>11, <2>1, <3>1 DEF WindowSteps
    <2> QED BY <2>1, <2>2, <2>3
<1>12. ASSUME NEW w \in {"over", "refused"}, NEW try \in Try, try = [tries[i] EXCEPT !.window = w],
              tries' = [tries EXCEPT ![i] = try] \/ tries' = [tries EXCEPT ![i] = Settled(try)],
              UNCHANGED <<seen, ran>>
       PROVE  \E other \in Try : Goes(i, other) /\ HostKind(i, other)
    <2>1. /\ try.says = tries[i].says /\ try.nonce = tries[i].nonce /\ try.from = tries[i].from
          /\ try.page = tries[i].page /\ try.at = tries[i].at /\ try.answer = tries[i].answer
          /\ try.window = w
        BY <1>1, <1>12 DEF Try
    <2>2. Goes(i, try)
        BY <1>2, <1>12, <2>1 DEF Goes
    <2>3. GoesOn(i, try)
        BY <1>12, <2>1 DEF GoesOn, Pending
    <2> QED BY <2>2, <2>3 DEF HostKind
<1>13. CASE (Says(i) \/ Claim(i)) /\ ~Pending(i)
    <2>1. PICK try \in Try : try = [tries[i] EXCEPT !.window = "over"]
        BY <1>1, FieldsOfTry DEF WindowSteps
    <2>2. tries' = [tries EXCEPT ![i] = Settled(try)] /\ UNCHANGED <<seen, ran>>
        BY <1>13, <2>1 DEF Says, Claim, MayClaim, host
    <2> QED BY <1>1, <1>12, <2>1, <2>2
<1>14. CASE Refuses(i)
    <2>1. PICK try \in Try : try = [tries[i] EXCEPT !.window = "refused"]
        BY <1>1, FieldsOfTry DEF WindowSteps
    <2>2. tries' = [tries EXCEPT ![i] = try] /\ UNCHANGED <<seen, ran>>
        BY <1>14, <2>1 DEF Refuses, host
    <2> QED BY <1>1, <1>12, <2>1, <2>2
<1>15. CASE Claim(i) /\ Pending(i)
    <2>1. PICK try \in Try : try = [tries[i] EXCEPT !.window = "begun", !.claimed = TRUE]
        BY <1>1, FieldsOfTry
    <2>2. /\ try.says = tries[i].says /\ try.nonce = tries[i].nonce /\ try.from = tries[i].from
          /\ try.page = tries[i].page /\ try.at = tries[i].at /\ try.answer = tries[i].answer
          /\ try.window = "begun"
        BY <1>1, <2>1 DEF Try
    <2>3. tries' = [tries EXCEPT ![i] = try] /\ UNCHANGED <<seen, ran>>
        BY <1>15, <2>1 DEF Claim, MayClaim, host
    <2>4. Goes(i, try)
        BY <1>2, <2>2, <2>3 DEF Goes
    <2>5. GoesOn(i, try)
        BY <2>2, <2>3 DEF GoesOn, Pending
    <2> QED BY <1>1, <2>4, <2>5 DEF HostKind
<1>16. CASE Takes(i)
    <2>1. PICK try \in Try : try = [tries[i] EXCEPT !.window = "took"]
        BY <1>1, FieldsOfTry DEF WindowSteps
    <2>2. /\ try.says = tries[i].says /\ try.nonce = tries[i].nonce /\ try.from = tries[i].from
          /\ try.page = tries[i].page /\ try.at = tries[i].at /\ try.answer = tries[i].answer
        BY <1>1, <2>1 DEF Try
    <2>3. tries' = [tries EXCEPT ![i] = try] /\ UNCHANGED seen
          /\ ran' = Append(ran, [says |-> tries[i].says, nonce |-> tries[i].nonce])
        BY <1>16, <2>1 DEF Takes
    <2>4. Goes(i, try)
        BY <1>2, <2>2, <2>3 DEF Goes
    <2>5. IsTaken(i, try)
        BY <2>2, <2>3 DEF IsTaken
    <2> QED BY <1>1, <2>4, <2>5 DEF HostKind
<1> QED BY <1>1, <1>3, <1>4, <1>5, <1>8, <1>9, <1>10, <1>11, <1>13, <1>14, <1>15, <1>16 DEF HostAct

LEMMA HostSame ==
    ASSUME TypeOK, NEW i \in Slots, HostAct(i)
    PROVE  \A j \in Slots : Same(j)
<1>1. tries[i] # None /\ \E try \in Try : Goes(i, try)
    BY HostLeaves
<1>2. PICK try \in Try : Goes(i, try)
    BY <1>1
<1>3. Same(i)
    BY <1>1, <1>2, SettledSame DEF Goes
<1> QED BY <1>2, <1>3, Untouched DEF Goes

LEMMA HostElse ==
    ASSUME NEW i \in Slots, HostAct(i)
    PROVE  /\ UNCHANGED <<box, lastTry, queue, world, typed, dropped, made>>
           /\ ran' = ran \/ ran' = Append(ran, [says |-> tries[i].says, nonce |-> tries[i].nonce])
BY DEF HostAct, RequestLost, Arrives, Deadline, GraceOver, Claim, Takes, Refuses, Says, Answer,
       page, told, host

----------------------------------------------------------------------------
(* Where the messages a step leaves come from. *)

LEMMA ReloadSame ==
    ASSUME TypeOK, Reload
    PROVE  \A j \in Slots : Same(j)
<1> SUFFICES ASSUME NEW j \in Slots, tries'[j] # None PROVE Same(j)
    BY DEF Same
<1>1. j \in Busy /\ tries[j] # None /\ tries[j] \in Try
    <2>1. j \in Busy
        BY DEF Reload
    <2> QED BY <2>1, TryFields DEF Busy
<1>2. PICK try \in Try : try = [tries[j] EXCEPT !.page = "over"]
    BY <1>1, FieldsOfTry
<1>3. try.says = tries[j].says /\ try.nonce = tries[j].nonce /\ try.from = tries[j].from
      /\ try.page = "over"
    BY <1>1, <1>2 DEF Try
<1>4. tries'[j] = Settled(try)
    BY <1>1, <1>2 DEF Reload
<1> QED BY <1>1, <1>3, <1>4, SettledSame

Hears(i) == HearTaken(i) \/ HearRefused(i) \/ HearNothing(i)

LEMMA HearsOne ==
    ASSUME TypeOK, NEW i \in Slots, Hears(i)
    PROVE  /\ tries[i] # None /\ tries[i].page = "waits" /\ PageOver(i)
           /\ UNCHANGED <<ran, seen, world, typed, dropped, made>>
BY DEF Hears, HearTaken, HearRefused, HearNothing, Waits, Busy, host, told

\* A message held after a step was held before, but for its mark.
HeldBefore == \A k \in DOMAIN queue' : \E m \in DOMAIN queue :
            queue'[k].says = queue[m].says /\ queue'[k].nonce = queue[m].nonce

LEMMA RemovedKept ==
    ASSUME TypeOK, NEW j \in DOMAIN queue, queue' = RemoveAt(queue, j)
    PROVE  HeldBefore
<1>1. queue \in Seq(Message)
    BY DEF TypeOK
<1>2. \A k \in DOMAIN queue' : \E m \in DOMAIN queue : queue'[k] = queue[m]
    BY <1>1, RemovedOne
<1> QED BY <1>2 DEF HeldBefore

LEMMA WithoutKept ==
    ASSUME TypeOK, NEW try, queue' = Without(try)
    PROVE  HeldBefore
<1>1. CASE \E k \in DOMAIN queue : IsHeld(k, try)
    <2>1. PICK j \in DOMAIN queue : j = CHOOSE k \in DOMAIN queue : IsHeld(k, try)
        BY <1>1
    <2>2. queue' = RemoveAt(queue, j)
        BY <1>1, <2>1 DEF Without
    <2> QED BY <2>2, RemovedKept
<1>2. CASE ~\E k \in DOMAIN queue : IsHeld(k, try)
    <2>1. queue' = queue
        BY <1>2 DEF Without
    <2> QED BY <2>1 DEF HeldBefore
<1> QED BY <1>1, <1>2

LEMMA RefusedKept ==
    ASSUME TypeOK, NEW try, queue' = Refused(try)
    PROVE  HeldBefore
<1>1. DOMAIN queue' = DOMAIN queue
    BY DEF Refused
<1> SUFFICES ASSUME NEW k \in DOMAIN queue
             PROVE  queue'[k].says = queue[k].says /\ queue'[k].nonce = queue[k].nonce
    BY <1>1 DEF HeldBefore
<1>2. queue[k] \in Message
    BY HeldFields
<1>3. queue'[k] \in {queue[k], [queue[k] EXCEPT !.failed = TRUE]}
    BY DEF Refused
<1> QED BY <1>2, <1>3 DEF Message

LEMMA RetryKept ==
    ASSUME TypeOK, NEW j \in DOMAIN queue, RetryHeld(j)
    PROVE  HeldBefore
<1>1. queue \in Seq(Message) /\ queue[j] \in Message
    BY HeldFields DEF TypeOK
<1>2. PICK q \in Message : q = [queue[j] EXCEPT !.failed = FALSE]
    BY <1>1 DEF Message
<1>3. queue' = [queue EXCEPT ![j] = q]
    BY <1>2 DEF RetryHeld
<1>4. q.says = queue[j].says /\ q.nonce = queue[j].nonce
    BY <1>1, <1>2 DEF Message
<1>5. DOMAIN queue' = DOMAIN queue /\ \A k \in DOMAIN queue : queue'[k] = IF k = j THEN q ELSE queue[k]
    BY <1>3
<1> QED BY <1>4, <1>5 DEF HeldBefore

\* What is held anew.
LEMMA HoldingOne ==
    ASSUME TypeOK, NEW says \in SUBSET Texts, NEW nonce \in Nonces, queue' = Holding(says, nonce)
    PROVE  /\ DOMAIN queue' = 1..(Len(queue) + 1) /\ DOMAIN queue = 1..Len(queue) /\ Len(queue) \in Nat
           /\ \A k \in DOMAIN queue : queue'[k] = queue[k]
           /\ queue'[Len(queue) + 1] = [says |-> says, nonce |-> nonce, failed |-> FALSE]
<1> DEFINE l == [says |-> says, nonce |-> nonce, failed |-> FALSE]
<1>1. queue \in Seq(Message) /\ l \in Message /\ queue' = Append(queue, l)
    BY DEF TypeOK, Message, Holding
<1> HIDE DEF l
<1>2. /\ DOMAIN queue' = 1..(Len(queue) + 1) /\ DOMAIN queue = 1..Len(queue) /\ Len(queue) \in Nat
      /\ \A k \in DOMAIN queue : queue'[k] = queue[k]
      /\ queue'[Len(queue) + 1] = l
    BY <1>1, AppendProperties
<1> QED BY <1>2 DEF l

LEMMA NewlyHeld ==
    ASSUME TypeOK, NEW says \in SUBSET Texts, NEW nonce \in Nonces, queue' = Holding(says, nonce)
    PROVE  \A k \in DOMAIN queue' :
              \/ k \in DOMAIN queue /\ queue'[k] = queue[k]
              \/ k = Len(queue) + 1 /\ queue'[k].says = says /\ queue'[k].nonce = nonce
<1> SUFFICES ASSUME NEW k \in DOMAIN queue'
             PROVE  \/ k \in DOMAIN queue /\ queue'[k] = queue[k]
                    \/ k = Len(queue) + 1 /\ queue'[k].says = says /\ queue'[k].nonce = nonce
    OBVIOUS
<1>1. /\ DOMAIN queue' = 1..(Len(queue) + 1) /\ DOMAIN queue = 1..Len(queue) /\ Len(queue) \in Nat
      /\ \A j \in DOMAIN queue : queue'[j] = queue[j]
      /\ queue'[Len(queue) + 1] = [says |-> says, nonce |-> nonce, failed |-> FALSE]
    BY HoldingOne
<1>2. k \in DOMAIN queue \/ k = Len(queue) + 1
    BY <1>1
<1>3. CASE k = Len(queue) + 1
    BY <1>1, <1>3
<1> QED BY <1>1, <1>2, <1>3

LEMMA AppendedLast ==
    ASSUME TypeOK, NEW says \in SUBSET Texts, NEW nonce \in Nonces,
           ran' = Append(ran, [says |-> says, nonce |-> nonce])
    PROVE  /\ \A k \in DOMAIN ran' :
                \/ k \in DOMAIN ran /\ ran'[k] = ran[k]
                \/ ran'[k] = [says |-> says, nonce |-> nonce]
           /\ \A k \in DOMAIN ran : k \in DOMAIN ran' /\ ran'[k] = ran[k]
           /\ \E k \in DOMAIN ran' : ran'[k] = [says |-> says, nonce |-> nonce]
<1> DEFINE l == [says |-> says, nonce |-> nonce]
           S == [says : SUBSET Texts, nonce : Nonces]
<1>1. ran \in Seq(S) /\ l \in S /\ ran' = Append(ran, l)
    BY DEF TypeOK
<1> HIDE DEF l, S
<1>2. /\ DOMAIN ran' = 1..(Len(ran) + 1) /\ DOMAIN ran = 1..Len(ran) /\ Len(ran) \in Nat
      /\ \A k \in DOMAIN ran : ran'[k] = ran[k]
      /\ ran'[Len(ran) + 1] = l
    BY <1>1, AppendProperties
<1>3. /\ \A k \in DOMAIN ran' : k \in DOMAIN ran \/ k = Len(ran) + 1
      /\ \A k \in DOMAIN ran : k \in DOMAIN ran'
      /\ Len(ran) + 1 \in DOMAIN ran'
    BY <1>2
<1>4. /\ \A k \in DOMAIN ran' : (k \in DOMAIN ran /\ ran'[k] = ran[k]) \/ ran'[k] = l
      /\ \A k \in DOMAIN ran : k \in DOMAIN ran' /\ ran'[k] = ran[k]
      /\ \E k \in DOMAIN ran' : ran'[k] = l
    BY <1>2, <1>3
<1> QED BY <1>4 DEF l

\* The message comes from the queue, a request, or the runs before the step.
OfQueue(s, n) == \E k \in DOMAIN queue : queue[k].says = s /\ queue[k].nonce = n
OfTries(s, n) == \E i \in Slots : tries[i] # None /\ tries[i].says = s /\ tries[i].nonce = n
OfRan(s, n)   == \E k \in DOMAIN ran : ran[k].says = s /\ ran[k].nonce = n

LEMMA OccursOf == \A s, n : Occurs(s, n) <=> (OfQueue(s, n) \/ OfTries(s, n) \/ OfRan(s, n))
BY DEF Occurs, OfQueue, OfTries, OfRan

SendsBox == SendNow \/ SendLater

LEMMA QueueLess ==
    ASSUME TypeOK, [Next]_vars, NEW s \in SUBSET Texts, NEW n \in Nonces, OfQueue(s, n)'
    PROVE  OfQueue(s, n) \/ OfTries(s, n) \/ (SendsBox /\ s = box /\ n = NonceFor(box))
<1>1. CASE HeldBefore
    BY <1>1 DEF HeldBefore, OfQueue
<1>2. CASE queue' = queue
    BY <1>2 DEF OfQueue
<1>3. CASE SendLater
    <2>1. NonceFor(box) \in Nonces /\ box \in SUBSET Texts
        BY <1>3 DEF SendLater, TypeOK
    <2>2. CASE queue' = Holding(box, NonceFor(box))
        <3>1. PICK k \in DOMAIN queue' : queue'[k].says = s /\ queue'[k].nonce = n
            BY DEF OfQueue
        <3>2. \/ k \in DOMAIN queue /\ queue'[k] = queue[k]
              \/ queue'[k].says = box /\ queue'[k].nonce = NonceFor(box)
            BY <2>1, <2>2, NewlyHeld
        <3> QED BY <1>3, <3>1, <3>2 DEF OfQueue, SendsBox
    <2> QED BY <1>2, <1>3, <2>2 DEF SendLater
<1>4. ASSUME NEW i \in Slots, Hears(i)
      PROVE  OfQueue(s, n) \/ OfTries(s, n)
    <2>1. tries[i] # None /\ tries[i].says \in SUBSET Texts /\ tries[i].nonce \in Nonces
        BY <1>4, HearsOne, TryFields
    <2>2. CASE queue' = Holding(tries[i].says, tries[i].nonce)
        <3>1. PICK k \in DOMAIN queue' : queue'[k].says = s /\ queue'[k].nonce = n
            BY DEF OfQueue
        <3>2. \/ k \in DOMAIN queue /\ queue'[k] = queue[k]
              \/ queue'[k].says = tries[i].says /\ queue'[k].nonce = tries[i].nonce
            BY <2>1, <2>2, NewlyHeld
        <3> QED BY <2>1, <3>1, <3>2 DEF OfQueue, OfTries
    <2>3. CASE queue' = Without(tries[i])
        BY <1>1, <2>3, WithoutKept, OccursOf DEF HeldBefore, OfQueue
    <2>4. CASE queue' = Refused(tries[i])
        BY <2>4, RefusedKept DEF HeldBefore, OfQueue
    <2>5. CASE queue' = queue
        BY <2>5 DEF OfQueue
    <2> QED BY <1>4, <2>2, <2>3, <2>4, <2>5 DEF Hears, HearTaken, HearRefused, HearNothing
<1>5. ASSUME NEW j \in DOMAIN queue, TakeBack(j) \/ DiscardHeld(j) \/ RetryHeld(j)
      PROVE  HeldBefore
    BY <1>5, RemovedKept, RetryKept DEF TakeBack, DiscardHeld
<1>6. ASSUME NEW i \in Slots, HostAct(i) PROVE queue' = queue
    BY <1>6, HostElse
<1>7. CASE Reload \/ Forgets \/ TurnEnds \/ SendNow \/ Drain \/ StreamDrops \/ Hello \/ Poll
           \/ UNCHANGED vars \/ \E t \in Texts : Type(t) \/ SwapFile(t)
    <2>1. queue' = queue
        BY <1>7 DEF Reload, Forgets, TurnEnds, SendNow, Drain, StreamDrops, Hello, Poll, Type, SwapFile,
                 vars, page
    <2> QED BY <1>2, <2>1
<1> QED BY <1>1, <1>2, <1>3, <1>4, <1>5, <1>6, <1>7 DEF Next, HostAct, Hears

LEMMA TriesLess ==
    ASSUME TypeOK, [Next]_vars
    PROVE  \/ \A j \in Slots : Same(j)
           \/ SendNow
           \/ Drain /\ \E k \in DOMAIN queue : Post(queue[k].says, queue[k].nonce, "queue")
<1>1. CASE tries' = tries
    BY <1>1, Untouched
<1>2. ASSUME NEW i \in Slots, Hears(i) PROVE \A j \in Slots : Same(j)
    BY <1>2, HearsOne, PageOverLeaves
<1>3. ASSUME NEW i \in Slots, HostAct(i) PROVE \A j \in Slots : Same(j)
    BY <1>3, HostSame
<1>4. CASE Forgets \/ TurnEnds \/ SendLater \/ StreamDrops \/ Hello \/ Poll
           \/ UNCHANGED vars \/ (\E t \in Texts : Type(t) \/ SwapFile(t))
           \/ \E k \in DOMAIN queue : TakeBack(k) \/ DiscardHeld(k) \/ RetryHeld(k)
    <2>1. tries' = tries
        BY <1>4 DEF Forgets, TurnEnds, SendLater, StreamDrops, Hello, Poll, Type, SwapFile, TakeBack,
                 DiscardHeld, RetryHeld, vars
    <2> QED BY <1>1, <2>1
<1>5. CASE Drain
    BY <1>1, <1>5 DEF Drain
<1> QED BY <1>2, <1>3, <1>4, <1>5, ReloadSame DEF Next, HostAct, Hears

LEMMA RanLess ==
    ASSUME TypeOK, [Next]_vars
    PROVE  ran' = ran \/ \E i \in Slots : HostAct(i)
BY HearsOne DEF Next, HostAct, Hears, Forgets, TurnEnds, SendLater, SendNow, Drain, StreamDrops, Hello,
       Poll, Type, SwapFile, TakeBack, DiscardHeld, RetryHeld, Reload, vars, host

\* Only what is sent from the box is new.
LEMMA OccursLess ==
    ASSUME TypeOK, [Next]_vars, NEW s \in SUBSET Texts, NEW n \in Nonces, Occurs(s, n)'
    PROVE  Occurs(s, n) \/ (SendsBox /\ s = box /\ n = NonceFor(box))
<1>1. Occurs(s, n)' <=> (OfQueue(s, n)' \/ OfTries(s, n)' \/ OfRan(s, n)')
    BY DEF Occurs, OfQueue, OfTries, OfRan
<1>2. Occurs(s, n) <=> (OfQueue(s, n) \/ OfTries(s, n) \/ OfRan(s, n))
    BY OccursOf
<1>3. CASE OfQueue(s, n)'
    BY <1>2, <1>3, QueueLess
<1>4. CASE OfTries(s, n)'
    <2>1. PICK i \in Slots : tries'[i] # None /\ tries'[i].says = s /\ tries'[i].nonce = n
        BY <1>4 DEF OfTries
    <2>2. CASE \A j \in Slots : Same(j)
        BY <1>2, <2>1, <2>2 DEF Same, OfTries
    <2>3. CASE SendNow
        <3>1. PICK j \in Slots : /\ tries'[j] = Request(box, NonceFor(box), "box")
                                 /\ \A l \in Slots : l # j => tries'[l] = tries[l]
            <4>1. box \in SUBSET Texts /\ NonceFor(box) \in Nonces /\ Post(box, NonceFor(box), "box")
                BY <2>3 DEF SendNow, TypeOK
            <4> QED BY <4>1, PostLeaves
        <3>2. CASE i = j
            BY <2>1, <2>3, <3>1, <3>2 DEF Request, SendsBox
        <3>3. CASE i # j
            BY <1>2, <2>1, <3>1, <3>3 DEF OfTries
        <3> QED BY <3>2, <3>3
    <2>4. ASSUME NEW k \in DOMAIN queue, Post(queue[k].says, queue[k].nonce, "queue")
          PROVE  Occurs(s, n)
        <3>1. PICK j \in Slots : /\ tries'[j] = Request(queue[k].says, queue[k].nonce, "queue")
                                 /\ \A l \in Slots : l # j => tries'[l] = tries[l]
            BY <2>4, HeldFields, PostLeaves
        <3>2. CASE i = j
            BY <1>2, <2>1, <3>1, <3>2 DEF Request, OfQueue
        <3>3. CASE i # j
            BY <1>2, <2>1, <3>1, <3>3 DEF OfTries
        <3> QED BY <3>2, <3>3
    <2> QED BY <2>2, <2>3, <2>4, TriesLess
<1>5. CASE OfRan(s, n)'
    <2>1. CASE ran' = ran
        BY <1>2, <1>5, <2>1 DEF OfRan
    <2>2. ASSUME NEW i \in Slots, HostAct(i), ran' # ran
          PROVE  Occurs(s, n)
        <3>1. tries[i] # None /\ tries[i].says \in SUBSET Texts /\ tries[i].nonce \in Nonces
              /\ ran' = Append(ran, [says |-> tries[i].says, nonce |-> tries[i].nonce])
            BY <2>2, HostLeaves, HostElse, TryFields
        <3>2. PICK k \in DOMAIN ran' : ran'[k].says = s /\ ran'[k].nonce = n
            BY <1>5 DEF OfRan
        <3>3. \/ k \in DOMAIN ran /\ ran'[k] = ran[k]
              \/ ran'[k] = [says |-> tries[i].says, nonce |-> tries[i].nonce]
            BY <3>1, AppendedLast
        <3> QED BY <1>2, <3>1, <3>2, <3>3 DEF OfRan, OfTries
    <2> QED BY <2>1, <2>2, RanLess
<1> QED BY <1>1, <1>3, <1>4, <1>5

LEMMA HeldOccurs ==
    ASSUME NEW k \in DOMAIN queue PROVE Occurs(queue[k].says, queue[k].nonce)
BY DEF Occurs

LEMMA TriedOccurs ==
    ASSUME NEW i \in Slots, tries[i] # None PROVE Occurs(tries[i].says, tries[i].nonce)
BY DEF Occurs

LEMMA RanOccurs ==
    ASSUME NEW k \in DOMAIN ran PROVE Occurs(ran[k].says, ran[k].nonce)
BY DEF Occurs

LEMMA HeWroteItKept ==
    ASSUME TypeOK, HeWroteIt, [Next]_vars
    PROVE  HeWroteIt'
<1>1. typed \subseteq typed'
    BY DEF Next, vars, told, Type, SwapFile, SendLater, SendNow, Drain, StreamDrops, Hello,
        Poll, Reload, TakeBack, DiscardHeld, RetryHeld, HearTaken, HearRefused, HearNothing,
        RequestLost, Arrives, Deadline, GraceOver, Claim, Takes, Refuses, Says, Forgets,
        TurnEnds
<1>2. ASSUME NEW s \in SUBSET Texts, NEW n \in Nonces, Occurs(s, n)' PROVE s \subseteq typed'
    BY <1>1, <1>2, OccursLess DEF HeWroteIt
<1>3. box' \subseteq typed'
    <2>1. ASSUME NEW t \in Texts, Type(t) \/ SwapFile(t) PROVE box' \subseteq box \cup {t} /\ t \in typed'
        BY <2>1 DEF Type, SwapFile
    <2>2. ASSUME NEW k \in DOMAIN queue, TakeBack(k) PROVE box' \subseteq typed
        <3>1. queue[k].says \subseteq typed
            BY HeldFields, HeldOccurs DEF HeWroteIt
        <3> QED BY <2>2, <3>1 DEF TakeBack, HeWroteIt
    <2>3. ASSUME NEW i \in Slots, Hears(i) PROVE box' \subseteq typed
        <3>1. tries[i].says \subseteq typed
            BY <2>3, HearsOne, TryFields, TriedOccurs DEF HeWroteIt
        <3> QED BY <2>3, <3>1 DEF Hears, HearTaken, HearRefused, HearNothing, HeWroteIt
    <2>4. ASSUME NEW i \in Slots, HostAct(i) PROVE box' = box
        BY <2>4, HostElse
    <2>5. CASE SendLater \/ SendNow \/ Drain \/ StreamDrops \/ Hello \/ Poll \/ Reload \/ Forgets
               \/ TurnEnds \/ UNCHANGED vars \/ \E k \in DOMAIN queue : DiscardHeld(k) \/ RetryHeld(k)
        <3>1. box' \subseteq box
            BY <2>5 DEF SendLater, SendNow, Drain, StreamDrops, Hello, Poll, Reload, Forgets, TurnEnds,
                     DiscardHeld, RetryHeld, vars, page
        <3> QED BY <1>1, <3>1 DEF HeWroteIt
    <2> QED BY <1>1, <2>1, <2>2, <2>3, <2>4, <2>5 DEF Next, HostAct, Hears, HeWroteIt
<1> QED BY <1>2, <1>3 DEF HeWroteIt

LEMMA SameAwaits ==
    ASSUME NEW i \in Slots, Same(i), NEW from, Awaits(i, from)'
    PROVE  Awaits(i, from) /\ tries'[i].says = tries[i].says /\ tries'[i].nonce = tries[i].nonce
BY DEF Awaits, Same

LEMMA SendingAwaits == Sending <=> \E i \in Slots : Awaits(i, "box")
BY DEF Sending, Awaits, Busy, Waits

\* Nothing from the box was under way, and nothing is now.
LEMMA NoneFromTheBox ==
    ASSUME \A i \in Slots : ~Awaits(i, "box"), \A i \in Slots : Same(i)
    PROVE  OneFromTheBox' /\ \A i \in Slots : ~Awaits(i, "box")'
<1>1. \A i \in Slots : ~Awaits(i, "box")'
    BY SameAwaits
<1> QED BY <1>1 DEF OneFromTheBox

LEMMA BoxStays ==
    ASSUME OneFromTheBox, UNCHANGED <<box, lastTry>>,
           \A i \in Slots : Awaits(i, "box")' =>
                Awaits(i, "box") /\ tries'[i].says = tries[i].says /\ tries'[i].nonce = tries[i].nonce
    PROVE  OneFromTheBox'
<1>1. ASSUME NEW i \in Slots, Awaits(i, "box")'
      PROVE  /\ box' = {}
             /\ lastTry' = [key |-> KeyOf(tries'[i].says), nonce |-> tries'[i].nonce]
    BY <1>1 DEF OneFromTheBox
<1>2. \A i, j \in Slots : Awaits(i, "box")' /\ Awaits(j, "box")' => i = j
    BY DEF OneFromTheBox
<1> QED BY <1>1, <1>2 DEF OneFromTheBox

\* The steps that leave the box and the last try alone and post none from it.
BoxAlone ==
    /\ UNCHANGED <<box, lastTry>> /\ ~SendsBox
    /\ \A i \in Slots : Awaits(i, "box")' =>
            Awaits(i, "box") /\ tries'[i].says = tries[i].says /\ tries'[i].nonce = tries[i].nonce
    /\ \A i \in Slots : Awaits(i, "box") => Awaits(i, "box")'

\* The steps that put in the box what was never there.
BoxGrows ==
    /\ \A i \in Slots : ~Awaits(i, "box") 
    /\ UNCHANGED <<tries, lastTry>> /\ ~SendsBox /\ \E t \in Texts : t \notin typed /\ t \in box'
    /\ "swap" \in world \/ box \subseteq box'

\* The page hears of a message from the box.
BoxHears ==
    \E i \in Slots : Awaits(i, "box") /\ Hears(i)

\* The page awaits a request until it hears of it.
LEMMA HostAwaits ==
    ASSUME TypeOK, NEW i \in Slots, HostAct(i), NEW j \in Slots, NEW from, Awaits(j, from)
    PROVE  Awaits(j, from)'
<1>1. tries[i] # None /\ \E try \in Try : Goes(i, try)
    BY HostLeaves
<1>2. PICK try \in Try : Goes(i, try)
    BY <1>1
<1>3. CASE j # i
    <2>1. tries'[j] = tries[j]
        BY <1>2, <1>3 DEF Goes
    <2> QED BY <2>1 DEF Awaits
<1>4. CASE j = i
    <2>1. try.page = "waits" /\ try.from = from /\ try # None
        BY <1>2, <1>4, PhoneAssumption DEF Goes, Awaits
    <2>2. tries'[j] = try
        BY <1>2, <1>4, <2>1 DEF Goes, Settled
    <2> QED BY <2>1, <2>2 DEF Awaits
<1> QED BY <1>3, <1>4

LEMMA HearsAwaits ==
    ASSUME TypeOK, NEW i \in Slots, Hears(i), NEW j \in Slots, j # i, NEW from, Awaits(j, from)
    PROVE  Awaits(j, from)'
<1>1. tries'[j] = tries[j]
    BY HearsOne, PageOverLeaves
<1> QED BY <1>1 DEF Awaits

LEMMA BoxSteps ==
    ASSUME TypeOK, [Next]_vars, InTurn, OneFromTheBox
    PROVE  BoxAlone \/ BoxGrows \/ BoxHears \/ SendsBox
<1>1. ASSUME NEW t \in Texts, Type(t), ~SendsBox PROVE BoxGrows
    <2>1. ~Sending
        BY <1>1 DEF Type, InTurn
    <2> QED BY <1>1, <2>1, SendingAwaits DEF Type, BoxGrows
<1>2. ASSUME NEW t \in Texts, SwapFile(t), ~SendsBox PROVE BoxGrows
    <2>1. box # {} /\ UNCHANGED <<tries, lastTry>> /\ t \notin typed /\ t \in box'
          /\ "swap" \in world
        BY <1>2 DEF SwapFile
    <2> QED BY <1>2, <2>1 DEF BoxGrows, OneFromTheBox
<1>3. ASSUME NEW i \in Slots, Hears(i), ~SendsBox PROVE BoxAlone \/ BoxHears
    <2>1. tries[i] # None /\ tries[i].page = "waits" /\ tries[i].from \in {"box", "queue"}
        BY <1>3, HearsOne, TryFields
    <2>2. CASE tries[i].from = "box"
        BY <1>3, <2>1, <2>2 DEF BoxHears, Awaits
    <2>3. CASE tries[i].from = "queue"
        <3>1. UNCHANGED <<box, lastTry>>
            BY <1>3, <2>3 DEF Hears, HearTaken, HearRefused, HearNothing
        <3>2. \A j \in Slots : Same(j)
            BY <1>3, HearsOne, PageOverLeaves
        <3>3. ASSUME NEW j \in Slots, Awaits(j, "box") PROVE Awaits(j, "box")'
            <4>1. j # i
                BY <2>3, <3>3 DEF Awaits
            <4> QED BY <1>3, <3>3, <4>1, HearsAwaits
        <3> QED BY <1>3, <3>1, <3>2, <3>3, SameAwaits DEF BoxAlone
    <2> QED BY <2>1, <2>2, <2>3
<1>4. ASSUME NEW i \in Slots, HostAct(i), ~SendsBox PROVE BoxAlone
    BY <1>4, HostElse, HostSame, HostAwaits, SameAwaits DEF BoxAlone
<1>5. ASSUME Drain, ~SendsBox PROVE BoxAlone
    <2>1. UNCHANGED <<box, lastTry>>
        BY <1>5 DEF Drain
    <2>2. ASSUME NEW k \in DOMAIN queue, Post(queue[k].says, queue[k].nonce, "queue"),
                 NEW i \in Slots, Awaits(i, "box")'
          PROVE  Awaits(i, "box") /\ tries'[i].says = tries[i].says /\ tries'[i].nonce = tries[i].nonce
        <3>1. PICK j \in Slots : /\ tries'[j] = Request(queue[k].says, queue[k].nonce, "queue")
                                 /\ \A l \in Slots : l # j => tries'[l] = tries[l]
            BY <2>2, HeldFields, PostLeaves
        <3>2. i # j
            BY <2>2, <3>1 DEF Awaits, Request
        <3> QED BY <2>2, <3>1, <3>2 DEF Awaits
    <2>4. ASSUME NEW k \in DOMAIN queue, Post(queue[k].says, queue[k].nonce, "queue"),
                 NEW i \in Slots, Awaits(i, "box")
          PROVE  Awaits(i, "box")'
        <3>1. PICK j \in Slots : /\ tries[j] = None
                                 /\ \A l \in Slots : l # j => tries'[l] = tries[l]
            BY <2>4, HeldFields, PostLeaves
        <3> QED BY <2>4, <3>1 DEF Awaits
    <2>3. CASE tries' = tries
        BY <1>5, <2>1, <2>3 DEF BoxAlone, Awaits
    <2> QED BY <1>5, <2>1, <2>2, <2>3, <2>4 DEF Drain, BoxAlone
<1>6. ASSUME ~SendsBox,
             \/ Forgets \/ TurnEnds \/ StreamDrops \/ Hello \/ Poll \/ UNCHANGED vars
             \/ \E k \in DOMAIN queue : DiscardHeld(k) \/ RetryHeld(k)
      PROVE  BoxAlone
    <2>1. UNCHANGED <<box, lastTry, tries>>
        BY <1>6 DEF Forgets, TurnEnds, StreamDrops, Hello, Poll, DiscardHeld, RetryHeld, vars, page
    <2> QED BY <1>6, <2>1 DEF BoxAlone, Awaits
<1>7. ~Reload /\ \A k \in DOMAIN queue : ~TakeBack(k)
    BY DEF Reload, TakeBack, InTurn
<1> QED BY <1>1, <1>2, <1>3, <1>4, <1>5, <1>6, <1>7 DEF Next, HostAct, Hears, SendsBox

LEMMA WorldInTurn == ASSUME [Next]_vars PROVE (InTurn <=> InTurn') /\ (Calm <=> Calm')
BY WorldStays DEF InTurn, Calm

\* Sending from the box: nothing from it is under way yet.
LEMMA SendsAlone ==
    ASSUME InTurn, OneFromTheBox, SendsBox
    PROVE  box # {} /\ \A i \in Slots : ~Awaits(i, "box")
<1>1. box # {} /\ NonceFor(box) \in Nonces
    BY DEF SendsBox, SendNow, SendLater
<1> QED BY <1>1 DEF OneFromTheBox

LEMMA SentNow ==
    ASSUME TypeOK, SendNow, \A i \in Slots : ~Awaits(i, "box")
    PROVE  /\ box' = {} /\ lastTry' = [key |-> KeyOf(box), nonce |-> NonceFor(box)]
           /\ NonceFor(box) \in Nonces
           /\ \A i \in Slots : Awaits(i, "box")' => tries'[i].says = box /\ tries'[i].nonce = NonceFor(box)
           /\ \A i, j \in Slots : Awaits(i, "box")' /\ Awaits(j, "box")' => i = j
           /\ \E i \in Slots : Awaits(i, "box")'
           /\ \A i \in Slots : Awaits(i, "queue")' => Awaits(i, "queue") /\ tries'[i] = tries[i]
<1>1. box \in SUBSET Texts /\ NonceFor(box) \in Nonces /\ Post(box, NonceFor(box), "box")
      /\ box' = {} /\ lastTry' = [key |-> KeyOf(box), nonce |-> NonceFor(box)]
    BY DEF SendNow, TypeOK
<1>2. PICK j \in Slots : /\ tries'[j] = Request(box, NonceFor(box), "box") /\ tries'[j] # None
                         /\ \A l \in Slots : l # j => tries'[l] = tries[l]
    BY <1>1, PostLeaves
<1>3. \A i \in Slots : Awaits(i, "box")' => i = j
    BY <1>2 DEF Awaits
<1>4. tries'[j].says = box /\ tries'[j].nonce = NonceFor(box) /\ Awaits(j, "box")' /\ ~Awaits(j, "queue")'
    BY <1>2 DEF Request, Awaits
<1>5. \A i \in Slots : Awaits(i, "queue")' => Awaits(i, "queue") /\ tries'[i] = tries[i]
    BY <1>2, <1>4 DEF Awaits
<1> QED BY <1>1, <1>3, <1>4, <1>5

LEMMA SentLater ==
    ASSUME TypeOK, SendLater
    PROVE  /\ UNCHANGED tries /\ NonceFor(box) \in Nonces
           /\ \/ UNCHANGED <<box, queue>> /\ lastTry' = [key |-> KeyOf(box), nonce |-> NonceFor(box)]
              \/ box' = {} /\ lastTry' = None /\ queue' = Holding(box, NonceFor(box))
BY DEF SendLater

\* What becomes of a message from the box the page hears of: back into the
\* box under the last try, held, or taken.
LEMMA HeardOfBox ==
    ASSUME TypeOK, InTurn, OneFromTheBox, NEW i \in Slots, Awaits(i, "box"), Hears(i)
    PROVE  /\ \A j \in Slots : ~Awaits(j, "box")'
           /\ \/ UNCHANGED <<queue, lastTry>> /\ box' = tries[i].says
              \/ UNCHANGED box /\ lastTry' = None /\ queue' = Holding(tries[i].says, tries[i].nonce)
              \/ UNCHANGED <<box, queue>> /\ lastTry' = None /\ tries[i].answer = "taken"
<1>1. box = {} /\ lastTry = [key |-> KeyOf(tries[i].says), nonce |-> tries[i].nonce]
      /\ \A j \in Slots : Awaits(j, "box") => j = i
    BY DEF OneFromTheBox
<1>2. /\ PageOver(i) /\ tries[i] # None /\ tries[i].from = "box"
    BY HearsOne DEF Awaits
<1>3. /\ \A j \in Slots : Same(j)
      /\ tries'[i] # None => tries'[i].page = "over"
    BY <1>2, PageOverLeaves
<1>4. ASSUME NEW j \in Slots, Awaits(j, "box")' PROVE FALSE
    <2>1. j = i
        BY <1>1, <1>3, <1>4, SameAwaits
    <2> QED BY <1>3, <1>4, <2>1 DEF Awaits
<1>5. CASE HearTaken(i)
    BY <1>2, <1>4, <1>5 DEF HearTaken
<1>6. CASE HearRefused(i)
    BY <1>1, <1>2, <1>4, <1>6 DEF HearRefused
<1>7. CASE HearNothing(i)
    <2>1. \/ box' = tries[i].says /\ UNCHANGED <<lastTry, queue>>
          \/ /\ queue' = Holding(tries[i].says, tries[i].nonce)
             /\ lastTry' = AfterHold(lastTry, tries[i].nonce)
             /\ UNCHANGED box
        BY <1>1, <1>2, <1>7 DEF HearNothing
    <2>2. AfterHold(lastTry, tries[i].nonce) = None
        BY <1>1 DEF AfterHold
    <2> QED BY <1>4, <2>1, <2>2
<1> QED BY <1>4, <1>5, <1>6, <1>7 DEF Hears

LEMMA OneFromTheBoxKept ==
    ASSUME TypeOK, [Next]_vars, InTurn, OneFromTheBox
    PROVE  OneFromTheBox'
<1>1. CASE BoxAlone
    BY <1>1, BoxStays DEF BoxAlone
<1>2. CASE BoxGrows
    BY <1>2, Untouched, NoneFromTheBox DEF BoxGrows
<1>3. CASE BoxHears
    <2>1. \A j \in Slots : ~Awaits(j, "box")'
        BY <1>3, HeardOfBox DEF BoxHears
    <2> QED BY <2>1 DEF OneFromTheBox
<1>4. CASE SendNow
    <2>1. \A i \in Slots : ~Awaits(i, "box")
        BY <1>4, SendsAlone DEF SendsBox
    <2>2. /\ box' = {} /\ lastTry' = [key |-> KeyOf(box), nonce |-> NonceFor(box)]
          /\ \A i \in Slots : Awaits(i, "box")' => tries'[i].says = box /\ tries'[i].nonce = NonceFor(box)
          /\ \A i, j \in Slots : Awaits(i, "box")' /\ Awaits(j, "box")' => i = j
        BY <1>4, <2>1, SentNow
    <2>3. ASSUME NEW i \in Slots, Awaits(i, "box")'
          PROVE  lastTry' = [key |-> KeyOf(tries'[i].says), nonce |-> tries'[i].nonce]
        BY <2>2, <2>3
    <2> QED BY <2>2, <2>3 DEF OneFromTheBox
<1>5. CASE SendLater
    <2>1. \A i \in Slots : ~Awaits(i, "box")
        BY <1>5, SendsAlone DEF SendsBox
    <2>2. UNCHANGED tries
        BY <1>5, SentLater
    <2> QED BY <2>1, <2>2, Untouched, NoneFromTheBox
<1> QED BY <1>1, <1>2, <1>3, <1>4, <1>5, BoxSteps DEF SendsBox

\* Sent again, a message bears the nonce it had.
LEMMA SentUnderItsNonce ==
    ASSUME OneNonce, box \in SUBSET Texts, box # {}, NEW n \in Nonces, Occurs(box, n)
    PROVE  n = NonceFor(box)
<1>1. lastTry = [key |-> KeyOf(box), nonce |-> n]
    BY DEF OneNonce
<1>2. lastTry # None => n = NonceFor(box)
    BY <1>1 DEF NonceFor
<1>3. [key |-> KeyOf(box), nonce |-> n] \in LastTry
    BY DEF LastTry
<1>4. lastTry # None
    BY <1>1, <1>3, PhoneAssumption
<1> QED BY <1>2, <1>4

LEMMA OneNonceKept ==
    ASSUME TypeOK, [Next]_vars, InTurn, HeWroteIt, OneFromTheBox, OneNonce
    PROVE  OneNonce'
<1>0. box \in SUBSET Texts
    BY DEF TypeOK
<1>1. ASSUME NEW s \in SUBSET Texts, NEW n \in Nonces, NEW o \in Nonces, Occurs(s, n)', Occurs(s, o)'
      PROVE  n = o
    <2>1. Occurs(s, n) \/ (SendsBox /\ s = box /\ n = NonceFor(box))
        BY <1>1, OccursLess
    <2>2. Occurs(s, o) \/ (SendsBox /\ s = box /\ o = NonceFor(box))
        BY <1>1, OccursLess
    <2>3. CASE Occurs(s, n) /\ Occurs(s, o)
        BY <2>3 DEF OneNonce
    <2>4. CASE SendsBox /\ s = box
        <3>1. box # {}
            BY <2>4, SendsAlone
        <3>2. n = NonceFor(box) /\ o = NonceFor(box)
            BY <1>0, <2>1, <2>2, <2>4, <3>1, SentUnderItsNonce
        <3> QED BY <3>2
    <2> QED BY <2>1, <2>2, <2>3, <2>4
<1>2. ASSUME NEW n \in Nonces, box' # {}, Occurs(box, n)'
      PROVE  lastTry' = [key |-> KeyOf(box'), nonce |-> n]
    <2>0. box' \in SUBSET Texts
        BY TypeStep DEF TypeOK
    <2>1. PICK b \in SUBSET Texts : b = box'
        BY <2>0
    <2>2. Occurs(b, n)'
        BY <1>2, <2>1 DEF Occurs
    <2>3. Occurs(b, n) \/ (SendsBox /\ b = box /\ n = NonceFor(box))
        BY <2>2, OccursLess
    <2>4. CASE BoxAlone
        <3>1. Occurs(box, n) /\ box # {}
            BY <1>2, <2>1, <2>3, <2>4 DEF BoxAlone
        <3>2. lastTry = [key |-> KeyOf(box), nonce |-> n]
            BY <3>1 DEF OneNonce
        <3> QED BY <2>4, <3>2 DEF BoxAlone
    <2>5. CASE BoxGrows
        <3>1. b \subseteq typed
            BY <2>3, <2>5 DEF BoxGrows, HeWroteIt
        <3> QED BY <2>1, <2>5, <3>1 DEF BoxGrows
    <2>6. CASE BoxHears /\ ~SendsBox
        <3>1. PICK i \in Slots : Awaits(i, "box") /\ Hears(i)
            BY <2>6 DEF BoxHears
        <3>2. box = {} /\ lastTry = [key |-> KeyOf(tries[i].says), nonce |-> tries[i].nonce]
            BY <3>1 DEF OneFromTheBox
        <3>3. UNCHANGED lastTry /\ b = tries[i].says
            BY <1>2, <2>1, <3>1, <3>2, HeardOfBox
        <3>4. tries[i] # None /\ tries[i].nonce \in Nonces
            BY <3>1, TryFields DEF Awaits
        <3>5. n = tries[i].nonce
            BY <2>3, <2>6, <3>3, <3>4, TriedOccurs DEF OneNonce
        <3> QED BY <2>1, <3>2, <3>3, <3>5
    <2>7. CASE SendNow
        <3>1. box' = {}
            BY <2>7 DEF SendNow
        <3> QED BY <1>2, <3>1
    <2>8. CASE SendLater
        <3>1. box # {} /\ SendsBox
            BY <2>8, SendsAlone DEF SendsBox
        <3>2. UNCHANGED box /\ lastTry' = [key |-> KeyOf(box), nonce |-> NonceFor(box)]
            BY <1>2, <2>8, SentLater
        <3>3. n = NonceFor(box)
            BY <1>0, <2>1, <2>3, <3>1, <3>2, SentUnderItsNonce
        <3> QED BY <3>2, <3>3
    <2> QED BY <2>4, <2>5, <2>6, <2>7, <2>8, BoxSteps DEF SendsBox
<1> QED BY <1>1, <1>2 DEF OneNonce

LEMMA OnceAtFirst == PhoneInit => OnceInv
<1> SUFFICES ASSUME PhoneInit PROVE OnceInv
    OBVIOUS
<1>1. /\ box = {} /\ queue = <<>> /\ ran = <<>>
      /\ \A i \in Slots : tries[i] = None
    BY DEF PhoneInit
<1>2. \A s, n : ~Occurs(s, n)
    BY <1>1 DEF Occurs
<1>3. \A i \in Slots : ~Awaits(i, "box")
    BY <1>1 DEF Awaits
<1> QED BY <1>1, <1>2, <1>3 DEF OnceInv, HeWroteIt, OneFromTheBox, OneNonce

LEMMA OnceStep == TypeOK /\ OnceInv /\ [Next]_vars => OnceInv'
<1> SUFFICES ASSUME TypeOK, OnceInv, [Next]_vars PROVE OnceInv'
    OBVIOUS
<1>1. HeWroteIt'
    BY HeWroteItKept DEF OnceInv
<1>2. InTurn' => OneFromTheBox' /\ OneNonce'
    BY WorldInTurn, OneFromTheBoxKept, OneNonceKept DEF OnceInv
<1> QED BY <1>1, <1>2 DEF OnceInv

LEMMA OnceAlways == Spec => [](TypeOK /\ OnceInv)
<1>1. PhoneInit => TypeOK /\ OnceInv
    BY InitTypes, OnceAtFirst
<1>2. (TypeOK /\ OnceInv) /\ [Next]_vars => (TypeOK /\ OnceInv)'
    BY TypeStep, OnceStep
<1> QED BY <1>1, <1>2, PTL DEF Spec

\* What he wrote once and sent runs once, while the listener remembers and he
\* neither takes a held message back, nor writes on while one is on its way,
\* nor reloads the page (Phone's MessageOnce).
THEOREM MessageRuns == Spec => []MessageOnce
<1>1. TypeOK /\ OnceInv /\ NonceOnce => MessageOnce
    <2> SUFFICES ASSUME TypeOK, OnceInv, NonceOnce,
                        world \cap {"forgets", "back", "ahead", "reload"} = {},
                        NEW j \in DOMAIN ran, NEW k \in DOMAIN ran, j # k, ran[j].says = ran[k].says
                 PROVE  FALSE
        BY DEF MessageOnce, MessageRunsOnce
    <2>1. OneNonce /\ NonceRunsOnce
        BY DEF OnceInv, InTurn, NonceOnce
    <2>2. ran[j].nonce = ran[k].nonce
        BY <2>1, RanFields, RanOccurs DEF OneNonce
    <2> QED BY <2>1, <2>2 DEF NonceRunsOnce
<1> QED BY <1>1, OnceAlways, NonceIsRunOnce, PTL

----------------------------------------------------------------------------
(* One message to a nonce. *)

LEMMA MadeGrows ==
    ASSUME TypeOK, [Next]_vars
    PROVE  /\ made \in Nat /\ made' \in Nat /\ made' >= made
           /\ SendsBox => NonceFor(box) <= made'
<1>1. made \in Nat
    BY PhoneAssumption DEF TypeOK
<1>2. CASE made' = made /\ ~SendsBox
    BY <1>1, <1>2
<1>3. CASE SendsBox
    <2>1. NonceFor(box) \in Nat /\ made' = IF NonceFor(box) > made THEN NonceFor(box) ELSE made
        BY <1>3, PhoneAssumption DEF SendsBox, SendNow, SendLater, Nonces
    <2> QED BY <1>1, <2>1
<1>4. made' = made \/ SendsBox
    BY DEF Next, vars, SendsBox, Type, SwapFile, Drain, StreamDrops, Hello,
        Poll, Reload, TakeBack, DiscardHeld, RetryHeld, HearTaken, HearRefused, HearNothing,
        RequestLost, Arrives, Deadline, GraceOver, Claim, Takes, Refuses, Says, Forgets,
        TurnEnds
<1> QED BY <1>2, <1>3, <1>4

\* In a part of the box the key shows whether it is all of it.
LEMMA SameKeySameMessage ==
    ASSUME NEW s, NEW b \in SUBSET Texts, s \subseteq b, KeyOf(s) = KeyOf(b)
    PROVE  s = b
<1>1. IsFiniteSet(b)
    BY PhoneAssumption, FS_Subset
<1>2. IsFiniteSet(s) /\ (Cardinality(s) = Cardinality(b) => s = b)
    BY <1>1, FS_Subset
<1>3. KeyOf(s).texts = Cardinality(s) /\ KeyOf(b).texts = Cardinality(b)
    BY DEF KeyOf
<1> QED BY <1>2, <1>3

\* The nonce it is sent under is that of no other message.
LEMMA OnlyItsNonce ==
    ASSUME TypeOK, OneMessage, LastTryIsHis, \A i \in Slots : ~Awaits(i, "box"), NonceFor(box) \in Nonces,
           NEW r \in SUBSET Texts, Occurs(r, NonceFor(box))
    PROVE  r = box
<1>1. NonceFor(box) <= made /\ made \in Nat
    BY PhoneAssumption DEF OneMessage, TypeOK
<1>2. lastTry # None /\ lastTry.key = KeyOf(box) /\ NonceFor(box) = lastTry.nonce
    BY <1>1 DEF NonceFor
<1>3. PICK s \in SUBSET box : lastTry.key = KeyOf(s) /\ (Occurs(r, lastTry.nonce) => r = s)
    BY <1>2 DEF LastTryIsHis
<1>4. r = s
    BY <1>2, <1>3
<1>5. s = box
    BY <1>2, <1>3, SameKeySameMessage DEF TypeOK
<1> QED BY <1>4, <1>5

LEMMA LastTryLess ==
    ASSUME TypeOK, [Next]_vars, InTurn, OneFromTheBox
    PROVE  lastTry' \in {lastTry, None} \/ (SendsBox /\ lastTry' = [key |-> KeyOf(box), nonce |-> NonceFor(box)])
<1>1. CASE BoxAlone \/ BoxGrows
    BY <1>1 DEF BoxAlone, BoxGrows
<1>2. CASE BoxHears
    BY <1>2, HeardOfBox DEF BoxHears
<1>3. CASE SendsBox
    BY <1>3, SendsAlone, SentNow, SentLater DEF SendsBox
<1> QED BY <1>1, <1>2, <1>3, BoxSteps

LEMMA OneMessageKept ==
    ASSUME TypeOK, [Next]_vars, InTurn, OneFromTheBox, OneMessage, LastTryIsHis
    PROVE  OneMessage'
<1>0. SendsBox => /\ NonceFor(box) \in Nonces
                  /\ \A i \in Slots : ~Awaits(i, "box")
    BY SendsAlone DEF SendsBox, SendNow, SendLater
<1>1. ASSUME NEW s \in SUBSET Texts, NEW r \in SUBSET Texts, NEW n \in Nonces,
             Occurs(s, n)', Occurs(r, n)'
      PROVE  s = r
    <2>1. Occurs(s, n) \/ (SendsBox /\ s = box /\ n = NonceFor(box))
        BY <1>1, OccursLess
    <2>2. Occurs(r, n) \/ (SendsBox /\ r = box /\ n = NonceFor(box))
        BY <1>1, OccursLess
    <2>3. CASE Occurs(s, n) /\ Occurs(r, n)
        BY <2>3 DEF OneMessage
    <2>4. CASE SendsBox /\ n = NonceFor(box)
        <3>1. Occurs(s, n) => s = box
            BY <1>0, <2>4, OnlyItsNonce
        <3>2. Occurs(r, n) => r = box
            BY <1>0, <2>4, OnlyItsNonce
        <3> QED BY <2>1, <2>2, <3>1, <3>2
    <2> QED BY <2>1, <2>2, <2>3, <2>4
<1>2. ASSUME NEW s \in SUBSET Texts, NEW n \in Nonces, Occurs(s, n)' PROVE n <= made'
    <2>1. n \in Nat
        BY PhoneAssumption DEF Nonces
    <2>2. Occurs(s, n) => n <= made
        BY DEF OneMessage
    <2> QED BY <1>2, <2>1, <2>2, OccursLess, MadeGrows
<1>3. ASSUME lastTry' # None PROVE lastTry'.nonce <= made'
    <2>1. CASE lastTry' = lastTry
        <3>1. lastTry \in LastTry
            BY <1>3, <2>1 DEF TypeOK
        <3>2. lastTry.nonce \in Nat
            BY <3>1, PhoneAssumption DEF LastTry, Nonces
        <3>3. lastTry.nonce <= made
            BY <1>3, <2>1 DEF OneMessage
        <3> QED BY <2>1, <3>2, <3>3, MadeGrows
    <2>2. CASE SendsBox /\ lastTry' = [key |-> KeyOf(box), nonce |-> NonceFor(box)]
        BY <2>2, MadeGrows
    <2> QED BY <1>3, <2>1, <2>2, LastTryLess
<1> QED BY <1>1, <1>2, <1>3 DEF OneMessage

LEMMA LastTryIsHisKept ==
    ASSUME TypeOK, [Next]_vars, Calm, InTurn, OneFromTheBox, OneMessage, LastTryIsHis
    PROVE  LastTryIsHis'
<1> SUFFICES ASSUME lastTry' # None, \A i \in Slots : ~Awaits(i, "box")'
             PROVE  \E s \in SUBSET box' :
                        /\ lastTry'.key = KeyOf(s)
                        /\ \A r \in SUBSET Texts : Occurs(r, lastTry.nonce)' => r = s
    BY DEF LastTryIsHis
<1>0. ASSUME NEW n \in Nonces, lastTry'.nonce = n, NEW r \in SUBSET Texts, Occurs(r, lastTry.nonce)'
      PROVE  Occurs(r, n) \/ (SendsBox /\ r = box /\ n = NonceFor(box))
    <2>1. Occurs(r, n)'
        BY <1>0 DEF Occurs
    <2> QED BY <2>1, OccursLess
<1>1. lastTry' \in LastTry /\ lastTry'.nonce \in Nonces
    <2>1. lastTry' \in LastTry
        BY TypeStep DEF TypeOK
    <2> QED BY <2>1 DEF LastTry
<1>2. ASSUME ~SendsBox, UNCHANGED lastTry, \A i \in Slots : ~Awaits(i, "box"), box \subseteq box'
      PROVE  \E s \in SUBSET box' :
                        /\ lastTry'.key = KeyOf(s)
                        /\ \A r \in SUBSET Texts : Occurs(r, lastTry.nonce)' => r = s
    <2>1. PICK s \in SUBSET box : /\ lastTry.key = KeyOf(s)
                                  /\ \A r \in SUBSET Texts : Occurs(r, lastTry.nonce) => r = s
        BY <1>2 DEF LastTryIsHis
    <2>2. \A r \in SUBSET Texts : Occurs(r, lastTry.nonce)' => r = s
        BY <1>0, <1>1, <1>2, <2>1
    <2>3. s \in SUBSET box' /\ lastTry'.key = KeyOf(s)
        BY <1>2, <2>1
    <2> QED BY <2>2, <2>3
<1>3. CASE BoxAlone
    <2>1. \A i \in Slots : ~Awaits(i, "box")
        BY <1>3 DEF BoxAlone
    <2> QED BY <1>2, <1>3, <2>1 DEF BoxAlone
<1>4. CASE BoxGrows
    BY <1>2, <1>4 DEF BoxGrows, Calm
<1>5. CASE BoxHears /\ ~SendsBox
    <2>1. PICK i \in Slots : Awaits(i, "box") /\ Hears(i)
        BY <1>5 DEF BoxHears
    <2>2. lastTry = [key |-> KeyOf(tries[i].says), nonce |-> tries[i].nonce]
        BY <2>1 DEF OneFromTheBox
    <2>3. UNCHANGED lastTry /\ box' = tries[i].says
        BY <2>1, HeardOfBox
    <2>4. tries[i] # None /\ tries[i].nonce \in Nonces /\ tries[i].says \in SUBSET Texts
        BY <2>1, TryFields DEF Awaits
    <2>5. \A r \in SUBSET Texts : Occurs(r, lastTry.nonce)' => r = box'
        <3> SUFFICES ASSUME NEW r \in SUBSET Texts, Occurs(r, lastTry.nonce)' PROVE r = tries[i].says
            BY <2>3
        <3>1. Occurs(r, tries[i].nonce)
            BY <1>0, <1>1, <1>5, <2>2, <2>3
        <3> QED BY <2>4, <3>1, TriedOccurs DEF OneMessage
    <2>6. box' \in SUBSET box' /\ lastTry'.key = KeyOf(box')
        BY <2>2, <2>3
    <2> QED BY <2>5, <2>6
<1>6. CASE SendNow
    <2>1. \A i \in Slots : ~Awaits(i, "box")
        BY <1>6, SendsAlone DEF SendsBox
    <2> QED BY <1>6, <2>1, SentNow
<1>7. CASE SendLater
    <2>1. SendsBox /\ \A i \in Slots : ~Awaits(i, "box")
        BY <1>7, SendsAlone DEF SendsBox
    <2>2. UNCHANGED box /\ lastTry' = [key |-> KeyOf(box), nonce |-> NonceFor(box)]
          /\ NonceFor(box) \in Nonces
        BY <1>7, SentLater
    <2>3. \A r \in SUBSET Texts : Occurs(r, lastTry.nonce)' => r = box'
        <3> SUFFICES ASSUME NEW r \in SUBSET Texts, Occurs(r, lastTry.nonce)' PROVE r = box
            BY <2>2
        <3>1. Occurs(r, NonceFor(box)) \/ r = box
            BY <1>0, <2>2
        <3> QED BY <2>1, <2>2, <3>1, OnlyItsNonce
    <2>4. box' \in SUBSET box' /\ lastTry'.key = KeyOf(box')
        BY <2>2
    <2> QED BY <2>3, <2>4
<1> QED BY <1>3, <1>4, <1>5, <1>6, <1>7, BoxSteps DEF SendsBox

----------------------------------------------------------------------------
(* Each message is awaited once, and what is said to be taken was taken. *)

LEMMA QueueAwaitedOnce ==
    ASSUME TypeOK, [Next]_vars, Calm, OneAwaited, NEW i \in Slots, NEW j \in Slots,
           Awaits(i, "queue")', Awaits(j, "queue")'
    PROVE  i = j
<1>1. CASE \A l \in Slots : Same(l)
    BY <1>1, SameAwaits DEF OneAwaited
<1>2. CASE SendNow
    <2>1. PICK l \in Slots : /\ tries'[l] = Request(box, NonceFor(box), "box")
                             /\ \A m \in Slots : m # l => tries'[m] = tries[m]
        <3>1. box \in SUBSET Texts /\ NonceFor(box) \in Nonces /\ Post(box, NonceFor(box), "box")
            BY <1>2 DEF SendNow, TypeOK
        <3> QED BY <3>1, PostLeaves
    <2>2. i # l /\ j # l
        BY <2>1 DEF Awaits, Request
    <2>3. Awaits(i, "queue") /\ Awaits(j, "queue")
        BY <2>1, <2>2 DEF Awaits
    <2> QED BY <2>3 DEF OneAwaited
<1>3. ASSUME NEW k \in DOMAIN queue, Drain, Post(queue[k].says, queue[k].nonce, "queue")
      PROVE  i = j
    <2>1. PICK l \in Slots : /\ tries'[l] = Request(queue[k].says, queue[k].nonce, "queue")
                             /\ \A m \in Slots : m # l => tries'[m] = tries[m]
        BY <1>3, HeldFields, PostLeaves
    <2>2. \A m \in Slots : ~Awaits(m, "queue")
        BY <1>3 DEF Drain, Calm, Busy, Waits, Awaits
    <2>3. i = l /\ j = l
        BY <2>1, <2>2 DEF Awaits
    <2> QED BY <2>3
<1> QED BY <1>1, <1>2, <1>3, TriesLess

\* The nonces of held messages, and of those awaited from the queue.
HeldNonces(n) == (\E k \in DOMAIN queue : queue[k].nonce = n) \/ \E i \in Slots : Awaits(i, "queue") /\ tries[i].nonce = n

LEMMA HeldNoncesLess ==
    ASSUME TypeOK, [Next]_vars, InTurn, OneFromTheBox, NEW n \in Nonces, HeldNonces(n)', lastTry' # None
    PROVE  HeldNonces(n)
<1>1. ASSUME NEW i \in Slots, Awaits(i, "queue")', tries'[i].nonce = n PROVE HeldNonces(n)
    <2>1. CASE Same(i)
        BY <1>1, <2>1, SameAwaits DEF HeldNonces
    <2>2. CASE SendNow
        <3>1. PICK l \in Slots : /\ tries'[l] = Request(box, NonceFor(box), "box")
                                 /\ \A m \in Slots : m # l => tries'[m] = tries[m]
            <4>1. box \in SUBSET Texts /\ NonceFor(box) \in Nonces /\ Post(box, NonceFor(box), "box")
                BY <2>2 DEF SendNow, TypeOK
            <4> QED BY <4>1, PostLeaves
        <3>2. i # l
            BY <1>1, <3>1 DEF Awaits, Request
        <3> QED BY <1>1, <3>1, <3>2 DEF HeldNonces, Awaits
    <2>3. ASSUME NEW k \in DOMAIN queue, Post(queue[k].says, queue[k].nonce, "queue")
          PROVE  HeldNonces(n)
        <3>1. PICK l \in Slots : /\ tries'[l] = Request(queue[k].says, queue[k].nonce, "queue")
                                 /\ \A m \in Slots : m # l => tries'[m] = tries[m]
            BY <2>3, HeldFields, PostLeaves
        <3>2. CASE i = l
            BY <1>1, <3>1, <3>2 DEF Request, HeldNonces
        <3>3. CASE i # l
            BY <1>1, <3>1, <3>3 DEF HeldNonces, Awaits
        <3> QED BY <3>2, <3>3
    <2> QED BY <2>1, <2>2, <2>3, TriesLess
<1>2. ASSUME NEW k \in DOMAIN queue', queue'[k].nonce = n PROVE HeldNonces(n)
    <2>1. CASE HeldBefore
        BY <1>2, <2>1 DEF HeldBefore, HeldNonces
    <2>2. CASE queue' = queue
        BY <1>2, <2>2 DEF HeldNonces
    <2>3. CASE SendLater
        BY <2>2, <2>3, SentLater
    <2>4. ASSUME NEW i \in Slots, Hears(i) PROVE HeldNonces(n)
        <3>1. tries[i] # None /\ tries[i].page = "waits" /\ tries[i].from \in {"box", "queue"}
            BY <2>4, HearsOne, TryFields
        <3>2. CASE tries[i].from = "box"
            <4>1. Awaits(i, "box")
                BY <3>1, <3>2 DEF Awaits
            <4> QED BY <2>2, <2>4, <4>1, HeardOfBox
        <3>3. CASE tries[i].from = "queue"
            <4>1. queue' = Without(tries[i]) \/ queue' = Refused(tries[i]) \/ queue' = queue
                BY <2>4, <3>3 DEF Hears, HearTaken, HearRefused, HearNothing
            <4> QED BY <2>1, <2>2, <4>1, WithoutKept, RefusedKept
        <3> QED BY <3>1, <3>2, <3>3
    <2>5. ASSUME NEW j \in DOMAIN queue, TakeBack(j) \/ DiscardHeld(j) \/ RetryHeld(j)
          PROVE  HeldBefore
        BY <2>5, RemovedKept, RetryKept DEF TakeBack, DiscardHeld
    <2>6. ASSUME NEW i \in Slots, HostAct(i) PROVE queue' = queue
        BY <2>6, HostElse
    <2>7. CASE Reload \/ Forgets \/ TurnEnds \/ SendNow \/ Drain \/ StreamDrops \/ Hello \/ Poll
               \/ UNCHANGED vars \/ \E t \in Texts : Type(t) \/ SwapFile(t)
        <3>1. queue' = queue
            BY <2>7 DEF Reload, Forgets, TurnEnds, SendNow, Drain, StreamDrops, Hello, Poll, Type, SwapFile,
                     vars, page
        <3> QED BY <2>2, <3>1
    <2> QED BY <2>1, <2>2, <2>3, <2>4, <2>5, <2>6, <2>7 DEF Next, HostAct, Hears
<1> QED BY <1>1, <1>2 DEF HeldNonces

\* What is in flight on the page's side, step by step.
LEMMA PageEnds ==
    ASSUME TypeOK, [Next]_vars, Calm, OneAwaited, NEW i \in Slots, tries'[i] # None
    PROVE  /\ tries'[i].page = "waits" \/ tries'[i].at \in {"lost", "answered"}
           /\ tries'[i].answer \in {"taken", "refused"} => tries'[i].at = "answered"
<1>0. tries[i] # None => /\ tries[i].page = "waits" \/ tries[i].at \in {"lost", "answered"}
                         /\ tries[i].answer \in {"taken", "refused"} => tries[i].at = "answered"
    BY DEF OneAwaited
<1>1. CASE tries'[i] = tries[i]
    BY <1>0, <1>1
<1>2. ASSUME NEW h \in Slots, Hears(h)
      PROVE  /\ tries'[i].page = "waits" \/ tries'[i].at \in {"lost", "answered"}
             /\ tries'[i].answer \in {"taken", "refused"} => tries'[i].at = "answered"
    <2>1. tries[h] # None /\ PageOver(h)
        BY <1>2, HearsOne
    <2>2. CASE i # h
        BY <1>1, <2>1, <2>2, PageOverLeaves
    <2>3. CASE i = h
        <3>1. tries'[i].at = tries[i].at /\ tries'[i].answer = tries[i].answer
            BY <2>1, <2>3, PageOverLeaves
        <3>2. tries[i].at \in {"lost", "answered"}
            <4>1. CASE HearTaken(h)
                BY <1>0, <2>1, <2>3, <4>1 DEF HearTaken
            <4>2. CASE HearRefused(h)
                BY <1>0, <2>1, <2>3, <4>2 DEF HearRefused
            <4>3. CASE HearNothing(h)
                BY <2>3, <4>3 DEF HearNothing, Calm
            <4> QED BY <1>2, <4>1, <4>2, <4>3 DEF Hears
        <3> QED BY <1>0, <2>1, <2>3, <3>1, <3>2
    <2> QED BY <2>2, <2>3
<1>3. ASSUME NEW h \in Slots, HostAct(h)
      PROVE  /\ tries'[i].page = "waits" \/ tries'[i].at \in {"lost", "answered"}
             /\ tries'[i].answer \in {"taken", "refused"} => tries'[i].at = "answered"
    <2>1. tries[h] # None /\ \E try \in Try : Goes(h, try) /\ HostKind(h, try)
        BY <1>3, HostLeaves
    <2>2. PICK try \in Try : Goes(h, try) /\ HostKind(h, try)
        BY <2>1
    <2>3. CASE i # h
        <3>1. tries'[i] = tries[i]
            BY <2>2, <2>3 DEF Goes
        <3> QED BY <1>1, <3>1
    <2>4. CASE i = h
        <3>1. tries'[i] = try
            BY <2>2, <2>4 DEF Goes, Settled
        <3>2. try.page = tries[i].page
            BY <2>2, <2>4 DEF Goes
        <3>3. CASE GoesOn(h, try)
            BY <1>0, <2>1, <2>4, <3>1, <3>2, <3>3 DEF GoesOn
        <3>4. CASE GoesIn(h, try)
            BY <1>0, <2>1, <2>4, <3>1, <3>2, <3>4 DEF GoesIn
        <3>5. CASE Resends(h, try)
            BY <3>1, <3>5 DEF Resends
        <3>6. CASE IsAnswered(h, try)
            BY <3>1, <3>6 DEF IsAnswered
        <3>7. CASE IsTaken(h, try)
            BY <1>0, <2>1, <2>4, <3>1, <3>2, <3>7 DEF IsTaken
        <3> QED BY <2>2, <3>3, <3>4, <3>5, <3>6, <3>7 DEF HostKind
    <2> QED BY <2>3, <2>4
<1>4. ASSUME NEW says \in SUBSET Texts, NEW nonce \in Nonces, NEW from \in {"box", "queue"},
             Post(says, nonce, from)
      PROVE  /\ tries'[i].page = "waits" \/ tries'[i].at \in {"lost", "answered"}
             /\ tries'[i].answer \in {"taken", "refused"} => tries'[i].at = "answered"
    <2>1. PICK l \in Slots : /\ tries'[l] = Request(says, nonce, from)
                             /\ \A m \in Slots : m # l => tries'[m] = tries[m]
        BY <1>4, PostLeaves
    <2>2. CASE i = l
        BY <2>1, <2>2, PhoneAssumption DEF Request
    <2> QED BY <1>1, <2>1, <2>2
<1>5. CASE SendNow
    <2>1. box \in SUBSET Texts /\ NonceFor(box) \in Nonces /\ Post(box, NonceFor(box), "box")
        BY <1>5 DEF SendNow, TypeOK
    <2> QED BY <1>4, <2>1
<1>6. CASE Drain
    <2>1. tries' = tries \/ \E k \in DOMAIN queue : Post(queue[k].says, queue[k].nonce, "queue")
        BY <1>6 DEF Drain
    <2>2. ASSUME NEW k \in DOMAIN queue, Post(queue[k].says, queue[k].nonce, "queue")
          PROVE  /\ tries'[i].page = "waits" \/ tries'[i].at \in {"lost", "answered"}
                 /\ tries'[i].answer \in {"taken", "refused"} => tries'[i].at = "answered"
        BY <1>4, <2>2, HeldFields
    <2> QED BY <1>1, <2>1, <2>2
<1>7. CASE Forgets \/ TurnEnds \/ SendLater \/ StreamDrops \/ Hello \/ Poll
           \/ UNCHANGED vars \/ (\E t \in Texts : Type(t) \/ SwapFile(t))
           \/ \E k \in DOMAIN queue : TakeBack(k) \/ DiscardHeld(k) \/ RetryHeld(k)
    <2>1. tries' = tries
        BY <1>7 DEF Forgets, TurnEnds, SendLater, StreamDrops, Hello, Poll, Type, SwapFile, TakeBack,
                 DiscardHeld, RetryHeld, vars
    <2> QED BY <1>1, <2>1
<1>8. ~Reload
    BY DEF Reload, Calm
<1> QED BY <1>2, <1>3, <1>5, <1>6, <1>7, <1>8 DEF Next, HostAct, Hears

LEMMA OneAwaitedKept ==
    ASSUME TypeOK, [Next]_vars, Calm, InTurn, OneFromTheBox, OneMessage, OneAwaited
    PROVE  OneAwaited'
<1>1. ASSUME lastTry' # None, NEW n \in Nonces, HeldNonces(n)' PROVE n # lastTry'.nonce
    <2>1. HeldNonces(n)
        BY <1>1, HeldNoncesLess
    <2>2. \E s \in SUBSET Texts : Occurs(s, n)
        <3>1. CASE \E k \in DOMAIN queue : queue[k].nonce = n
            BY <3>1, HeldFields, HeldOccurs
        <3>2. CASE \E i \in Slots : Awaits(i, "queue") /\ tries[i].nonce = n
            BY <3>2, TryFields, TriedOccurs DEF Awaits
        <3> QED BY <2>1, <3>1, <3>2 DEF HeldNonces
    <2>3. n <= made /\ n \in Nat /\ made \in Nat
        BY <2>2, PhoneAssumption DEF OneMessage, Nonces, TypeOK
    <2>4. lastTry # None => n # lastTry.nonce
        BY <2>1 DEF HeldNonces, OneAwaited
    <2>5. n # NonceFor(box)
        BY <2>3, <2>4 DEF NonceFor
    <2> QED BY <1>1, <2>4, <2>5, LastTryLess
<1>2. ASSUME lastTry' # None, NEW k \in DOMAIN queue' PROVE queue'[k].nonce # lastTry'.nonce
    <2>1. queue' \in Seq(Message)
        BY TypeStep DEF TypeOK
    <2>2. queue'[k] \in Message
        BY <2>1
    <2>3. queue'[k].nonce \in Nonces
        BY <2>2 DEF Message
    <2> QED BY <1>1, <1>2, <2>3 DEF HeldNonces
<1>3. ASSUME lastTry' # None, NEW i \in Slots, Awaits(i, "queue")' PROVE tries'[i].nonce # lastTry'.nonce
    <2>1. tries'[i] \in Try
        BY <1>3, TypeStep DEF TypeOK, Awaits
    <2>2. tries'[i].nonce \in Nonces
        BY <2>1 DEF Try
    <2> QED BY <1>1, <1>3, <2>2 DEF HeldNonces
<1> QED BY <1>2, <1>3, QueueAwaitedOnce, PageEnds DEF OneAwaited

LEMMA RanGrows ==
    ASSUME TypeOK, [Next]_vars, NEW n, Ran(n)
    PROVE  Ran(n)'
<1>1. CASE ran' = ran
    BY <1>1 DEF Ran
<1>2. ASSUME NEW i \in Slots, HostAct(i), ran' # ran PROVE Ran(n)'
    <2>1. tries[i].says \in SUBSET Texts /\ tries[i].nonce \in Nonces
          /\ ran' = Append(ran, [says |-> tries[i].says, nonce |-> tries[i].nonce])
        BY <1>2, HostLeaves, HostElse, TryFields
    <2>2. \A k \in DOMAIN ran : k \in DOMAIN ran' /\ ran'[k] = ran[k]
        BY <2>1, AppendedLast
    <2> QED BY <2>2 DEF Ran
<1> QED BY <1>1, <1>2, RanLess

\* A step of the page: nothing runs and nothing is said to have run.
LEMMA PageTakes ==
    ASSUME TypeOK, TakenIsRun, UNCHANGED <<seen, ran>>,
           \A i \in Slots : tries'[i] # None =>
                \/ /\ tries[i] # None /\ tries'[i].answer = tries[i].answer
                   /\ tries'[i].window = tries[i].window /\ tries'[i].nonce = tries[i].nonce
                \/ tries'[i].answer # "taken" /\ tries'[i].window # "took",
           \A i \in Slots : tries[i] # None /\ Pending(i) =>
                /\ tries'[i] # None /\ tries'[i].at = tries[i].at /\ tries'[i].nonce = tries[i].nonce
    PROVE  TakenIsRun'
<1>1. ASSUME NEW n \in Nonces, seen'[n] = "running"
      PROVE  \E i \in Slots : tries'[i] # None /\ Pending(i)' /\ tries'[i].nonce = n
    <2>1. PICK i \in Slots : tries[i] # None /\ Pending(i) /\ tries[i].nonce = n
        BY <1>1 DEF TakenIsRun
    <2> QED BY <2>1 DEF Pending
<1>2. \A n \in Nonces : seen'[n] = "done" => Ran(n)'
    BY DEF TakenIsRun, Ran
<1>3. ASSUME NEW i \in Slots, tries'[i] # None, tries'[i].answer = "taken" \/ tries'[i].window = "took"
      PROVE  \E k \in DOMAIN ran' : ran'[k].nonce = tries'[i].nonce
    BY <1>3 DEF TakenIsRun, Ran
<1> QED BY <1>1, <1>2, <1>3 DEF TakenIsRun, Ran

LEMMA PostTakes ==
    ASSUME TypeOK, TakenIsRun, UNCHANGED <<seen, ran>>,
           NEW says \in SUBSET Texts, NEW nonce \in Nonces, NEW from \in {"box", "queue"},
           Post(says, nonce, from)
    PROVE  TakenIsRun'
<1>1. PICK l \in Slots : /\ tries[l] = None
                         /\ tries'[l] = Request(says, nonce, from)
                         /\ \A m \in Slots : m # l => tries'[m] = tries[m]
    BY PostLeaves
<1>2. tries'[l].answer # "taken" /\ tries'[l].window # "took"
    BY <1>1, PhoneAssumption DEF Request
<1> QED BY <1>1, <1>2, PageTakes

\* Two requests of one nonce are not both under way.
LEMMA OneUnderWay ==
    ASSUME TypeOK, OneFromTheBox, OneAwaited, NEW i \in Slots, NEW j \in Slots,
           tries[i] # None, tries[j] # None, tries[i].nonce = tries[j].nonce,
           tries[i].at \notin {"lost", "answered"}, tries[j].at \notin {"lost", "answered"}
    PROVE  i = j
<1>1. /\ tries[i].page = "waits" /\ tries[j].page = "waits"
      /\ tries[i].from \in {"box", "queue"} /\ tries[j].from \in {"box", "queue"}
    BY TryFields DEF OneAwaited
<1>2. \A a, b \in Slots : Awaits(a, "box") /\ Awaits(b, "queue") => tries[a].nonce # tries[b].nonce
    <2> SUFFICES ASSUME NEW a \in Slots, NEW b \in Slots, Awaits(a, "box"), Awaits(b, "queue")
                 PROVE  tries[a].nonce # tries[b].nonce
        OBVIOUS
    <2>1. lastTry = [key |-> KeyOf(tries[a].says), nonce |-> tries[a].nonce]
        BY DEF OneFromTheBox
    <2>2. lastTry \in LastTry
        <3>1. tries[a].says \in SUBSET Texts /\ tries[a].nonce \in Nonces
            BY TryFields DEF Awaits
        <3> QED BY <2>1, <3>1 DEF LastTry
    <2>3. lastTry # None
        BY <2>2, PhoneAssumption
    <2> QED BY <2>1, <2>3 DEF OneAwaited
<1>3. (Awaits(i, "box") \/ Awaits(i, "queue")) /\ (Awaits(j, "box") \/ Awaits(j, "queue"))
    BY <1>1 DEF Awaits
<1> QED BY <1>2, <1>3 DEF OneFromTheBox, OneAwaited

LEMMA HostTakes ==
    ASSUME TypeOK, [Next]_vars, Calm, OneFromTheBox, OneAwaited, TakenIsRun, NEW h \in Slots, HostAct(h)
    PROVE  TakenIsRun'
<1>1. tries[h] # None /\ \E try \in Try : Goes(h, try) /\ HostKind(h, try)
    BY HostLeaves
<1>2. PICK try \in Try : Goes(h, try) /\ HostKind(h, try)
    BY <1>1
<1>3. /\ tries[h].nonce \in Nonces /\ try.nonce = tries[h].nonce /\ try # None
      /\ tries'[h] # None => tries'[h] = try
      /\ try.at \in {"handed", "grace"} => tries'[h] = try
      /\ \A j \in Slots : j # h => tries'[j] = tries[j]
    <2>1. tries[h].nonce \in Nonces /\ try.nonce = tries[h].nonce /\ try # None
        BY <1>1, <1>2, TryFields, PhoneAssumption DEF Goes
    <2> QED BY <1>2, <2>1 DEF Goes, Settled
<1>4. \A n \in Nonces : Ran(n) => Ran(n)'
    BY RanGrows
<1>5. seen \in [Nonces -> {"unseen", "running", "done"}]
    BY DEF TypeOK
<1> PICK m \in Nonces : m = tries[h].nonce
    BY <1>3
\* The requests but this one stay as they are; this one goes on, is answered or taken.
<1>6. ASSUME \A n \in Nonces : seen'[n] = "running" =>
                \/ seen[n] = "running" /\ ((Pending(h) /\ tries[h].nonce = n) => try.at \in {"handed", "grace"})
                \/ n = tries[h].nonce /\ try.at \in {"handed", "grace"},
             \A n \in Nonces : seen'[n] = "done" => seen[n] = "done" \/ Ran(n)',
             try.answer = "taken" \/ try.window = "took" =>
                tries[h].answer = "taken" \/ tries[h].window = "took" \/ Ran(m)'
      PROVE  TakenIsRun'
    <2>1. ASSUME NEW n \in Nonces, seen'[n] = "running"
          PROVE  \E i \in Slots : tries'[i] # None /\ Pending(i)' /\ tries'[i].nonce = n
        <3>1. CASE n = tries[h].nonce /\ try.at \in {"handed", "grace"}
            BY <1>3, <3>1 DEF Pending
        <3>2. CASE /\ seen[n] = "running"
                   /\ (Pending(h) /\ tries[h].nonce = n) => try.at \in {"handed", "grace"}
            <4>1. PICK i \in Slots : tries[i] # None /\ Pending(i) /\ tries[i].nonce = n
                BY <3>2 DEF TakenIsRun
            <4>2. CASE i = h
                BY <3>1, <3>2, <4>1, <4>2
            <4>3. CASE i # h
                BY <1>3, <4>1, <4>3 DEF Pending
            <4> QED BY <4>2, <4>3
        <3> QED BY <1>6, <2>1, <3>1, <3>2
    <2>2. \A n \in Nonces : seen'[n] = "done" => Ran(n)'
        BY <1>4, <1>6 DEF TakenIsRun
    <2>3. ASSUME NEW i \in Slots, tries'[i] # None, tries'[i].answer = "taken" \/ tries'[i].window = "took",
                 NEW n \in Nonces, n = tries'[i].nonce
          PROVE  Ran(n)'
        <3>1. CASE i = h
            <4>1. n = m /\ (Ran(n) \/ Ran(m)')
                BY <1>1, <1>3, <1>6, <2>3, <3>1 DEF TakenIsRun
            <4> QED BY <1>4, <4>1
        <3>2. CASE i # h
            BY <1>3, <1>4, <2>3, <3>2 DEF TakenIsRun
        <3> QED BY <3>1, <3>2
    <2>4. \A i \in Slots : tries'[i] # None => tries'[i].nonce \in Nonces
        <3>1. \A i \in Slots : tries'[i] # None => tries'[i] \in Try
            BY TypeStep DEF TypeOK
        <3> QED BY <3>1 DEF Try
    <2> QED BY <2>1, <2>2, <2>3, <2>4 DEF TakenIsRun, Ran
<1>7. CASE GoesOn(h, try)
    BY <1>6, <1>7 DEF GoesOn
<1>8. CASE GoesIn(h, try)
    <2>1. seen' = [seen EXCEPT ![m] = "running"] /\ ~Pending(h) /\ try.at = "handed"
          /\ try.answer = tries[h].answer /\ try.window = "asked"
        BY <1>8 DEF GoesIn, Pending
    <2>2. \A n \in Nonces : seen'[n] = IF n = m THEN "running" ELSE seen[n]
        BY <1>5, <2>1
    <2> QED BY <1>6, <2>1, <2>2
<1>9. CASE Resends(h, try)
    <2>1. seen' = seen /\ seen[m] # "unseen" /\ tries[h].at = "coming" /\ try.window = tries[h].window
          /\ ~Pending(h)
        BY <1>9 DEF Resends, Pending
    <2>2. seen[m] # "running"
        <3> SUFFICES ASSUME seen[m] = "running" PROVE FALSE
            OBVIOUS
        <3>1. PICK i \in Slots : tries[i] # None /\ Pending(i) /\ tries[i].nonce = m
            BY DEF TakenIsRun
        <3>2. i = h
            BY <1>1, <2>1, <3>1, OneUnderWay DEF Pending
        <3> QED BY <2>1, <3>1, <3>2
    <2>3. Ran(m)'
        BY <1>4, <1>5, <2>1, <2>2 DEF TakenIsRun
    <2> QED BY <1>6, <2>1, <2>3
<1>10. CASE IsAnswered(h, try)
    <2>1. /\ seen' = [seen EXCEPT ![m] = SettledAs(try.answer)]
          /\ try.answer \in {"taken", "refused"}
          /\ try.answer = "taken" => tries[h].window = "took"
          /\ try.window = "took" => tries[h].window = "took"
        BY <1>10 DEF IsAnswered, Calm
    <2>2. tries[h].window = "took" => Ran(m)'
        BY <1>1, <1>4 DEF TakenIsRun
    <2>3. \A n \in Nonces : seen'[n] = IF n = m THEN SettledAs(try.answer) ELSE seen[n]
        BY <1>5, <2>1
    <2>4. \A n \in Nonces : seen'[n] = "running" => seen[n] = "running" /\ n # m
        BY <2>3 DEF SettledAs
    <2>5. \A n \in Nonces : seen'[n] = "done" => seen[n] = "done" \/ Ran(n)'
        BY <2>1, <2>2, <2>3 DEF SettledAs
    <2> QED BY <1>6, <2>1, <2>2, <2>4, <2>5
<1>11. CASE IsTaken(h, try)
    <2>1. seen' = seen /\ try.at = tries[h].at
          /\ ran' = Append(ran, [says |-> tries[h].says, nonce |-> tries[h].nonce])
        BY <1>11 DEF IsTaken
    <2>2. tries[h].says \in SUBSET Texts
        BY <1>1, TryFields
    <2>3. \E k \in DOMAIN ran' : ran'[k] = [says |-> tries[h].says, nonce |-> tries[h].nonce]
        BY <1>3, <2>1, <2>2, AppendedLast
    <2>4. Ran(m)'
        BY <2>3 DEF Ran
    <2>5. Pending(h) => try.at \in {"handed", "grace"}
        BY <2>1 DEF Pending
    <2> QED BY <1>6, <2>1, <2>4, <2>5
<1> QED BY <1>2, <1>7, <1>8, <1>9, <1>10, <1>11 DEF HostKind

LEMMA TakenIsRunKept ==
    ASSUME TypeOK, [Next]_vars, Calm, OneFromTheBox, OneAwaited, TakenIsRun
    PROVE  TakenIsRun'
<1>1. ASSUME NEW h \in Slots, HostAct(h) PROVE TakenIsRun'
    BY <1>1, HostTakes
<1>2. ASSUME NEW h \in Slots, Hears(h) PROVE TakenIsRun'
    <2>1. UNCHANGED <<seen, ran>> /\ tries[h] # None /\ PageOver(h)
        BY <1>2, HearsOne
    <2>2. /\ \A j \in Slots : Same(j)
          /\ \A j \in Slots : j # h => tries'[j] = tries[j]
          /\ tries'[h] # None =>
                /\ tries'[h].at = tries[h].at
                /\ tries'[h].answer = tries[h].answer /\ tries'[h].window = tries[h].window
          /\ tries'[h] = None => tries[h].at \in {"lost", "answered"}
        BY <2>1, PageOverLeaves
    <2>3. \A i \in Slots : tries'[i] # None =>
                /\ tries[i] # None /\ tries'[i].answer = tries[i].answer
                /\ tries'[i].window = tries[i].window /\ tries'[i].nonce = tries[i].nonce
        BY <2>2 DEF Same
    <2>4. \A i \in Slots : tries[i] # None /\ Pending(i) =>
                /\ tries'[i] # None /\ tries'[i].at = tries[i].at /\ tries'[i].nonce = tries[i].nonce
        BY <2>2 DEF Same, Pending
    <2> QED BY <2>1, <2>3, <2>4, PageTakes
<1>3. CASE SendNow
    <2>1. box \in SUBSET Texts /\ NonceFor(box) \in Nonces /\ Post(box, NonceFor(box), "box")
          /\ UNCHANGED <<seen, ran>>
        BY <1>3 DEF SendNow, TypeOK, host
    <2> QED BY <2>1, PostTakes
<1>4. CASE tries' = tries /\ UNCHANGED <<seen, ran>>
    BY <1>4, PageTakes
<1>5. CASE Drain
    <2>1. UNCHANGED <<seen, ran>>
        BY <1>5 DEF Drain, host
    <2>2. tries' = tries \/ \E k \in DOMAIN queue : Post(queue[k].says, queue[k].nonce, "queue")
        BY <1>5 DEF Drain
    <2> QED BY <1>4, <2>1, <2>2, HeldFields, PostTakes
<1>6. CASE Forgets
    <2>1. tries' = tries /\ ran' = ran /\ seen' = [n \in Nonces |-> "unseen"]
        BY <1>6 DEF Forgets
    <2> QED BY <2>1 DEF TakenIsRun, Ran
<1>7. CASE TurnEnds \/ SendLater \/ StreamDrops \/ Hello \/ Poll
           \/ UNCHANGED vars \/ (\E t \in Texts : Type(t) \/ SwapFile(t))
           \/ \E k \in DOMAIN queue : TakeBack(k) \/ DiscardHeld(k) \/ RetryHeld(k)
    <2>1. tries' = tries /\ UNCHANGED <<seen, ran>>
        BY <1>7 DEF TurnEnds, SendLater, StreamDrops, Hello, Poll, Type, SwapFile, TakeBack,
                 DiscardHeld, RetryHeld, vars, host
    <2> QED BY <1>4, <2>1
<1>8. ~Reload
    BY DEF Reload, Calm
<1> QED BY <1>1, <1>2, <1>3, <1>5, <1>6, <1>7, <1>8 DEF Next, HostAct, Hears

----------------------------------------------------------------------------
(* Nothing he wrote is lost. *)

LEMMA RanSays ==
    ASSUME TypeOK, [Next]_vars, NEW t, NEW k \in DOMAIN ran, t \in ran[k].says
    PROVE  Somewhere(t)'
<1>1. CASE ran' = ran
    BY <1>1 DEF Somewhere
<1>2. ASSUME NEW i \in Slots, HostAct(i), ran' # ran PROVE Somewhere(t)'
    <2>1. tries[i].says \in SUBSET Texts /\ tries[i].nonce \in Nonces
          /\ ran' = Append(ran, [says |-> tries[i].says, nonce |-> tries[i].nonce])
        BY <1>2, HostLeaves, HostElse, TryFields
    <2>2. k \in DOMAIN ran' /\ ran'[k] = ran[k]
        BY <2>1, AppendedLast
    <2> QED BY <2>2 DEF Somewhere
<1> QED BY <1>1, <1>2, RanLess

\* The messages held before are held still but for one.
LEMMA RemovedElse ==
    ASSUME TypeOK, NEW j \in DOMAIN queue, queue' = RemoveAt(queue, j),
           NEW t, NEW k \in DOMAIN queue, t \in queue[k].says
    PROVE  t \in queue[j].says \/ Somewhere(t)'
<1>1. queue \in Seq(Message)
    BY DEF TypeOK
<1>2. k # j => \E m \in DOMAIN queue' : queue'[m] = queue[k]
    BY <1>1, RemovedOne
<1> QED BY <1>2 DEF Somewhere

LEMMA NewlyHeldSays ==
    ASSUME TypeOK, NEW says \in SUBSET Texts, NEW nonce \in Nonces, queue' = Holding(says, nonce), NEW t
    PROVE  /\ t \in says => Somewhere(t)'
           /\ \A k \in DOMAIN queue : t \in queue[k].says => Somewhere(t)'
<1>1. /\ DOMAIN queue' = 1..(Len(queue) + 1) /\ DOMAIN queue = 1..Len(queue) /\ Len(queue) \in Nat
      /\ \A k \in DOMAIN queue : queue'[k] = queue[k]
      /\ queue'[Len(queue) + 1] = [says |-> says, nonce |-> nonce, failed |-> FALSE]
    BY HoldingOne
<1>2. Len(queue) + 1 \in DOMAIN queue' /\ queue'[Len(queue) + 1].says = says
    BY <1>1
<1>3. \A k \in DOMAIN queue : k \in DOMAIN queue' /\ queue'[k].says = queue[k].says
    BY <1>1
<1> QED BY <1>2, <1>3 DEF Somewhere

\* The window has taken what an answer says it took.
LEMMA TakenSays ==
    ASSUME TypeOK, OneMessage, TakenIsRun, NEW i \in Slots, tries[i] # None, tries[i].answer = "taken"
    PROVE  \E k \in DOMAIN ran : ran[k].says = tries[i].says
<1>1. PICK k \in DOMAIN ran : ran[k].nonce = tries[i].nonce
    BY DEF TakenIsRun, Ran
<1>2. ran[k].says = tries[i].says
    BY <1>1, TryFields, RanFields, TriedOccurs, RanOccurs DEF OneMessage
<1> QED BY <1>2

LEMMA BoxAloneKeeps ==
    ASSUME BoxAlone, NEW t
    PROVE  /\ t \in box => Somewhere(t)'
           /\ \A i \in Slots : Awaits(i, "box") /\ t \in tries[i].says => Somewhere(t)'
<1>1. \A i \in Slots : Awaits(i, "box") /\ t \in tries[i].says => Awaits(i, "box")' /\ t \in tries'[i].says
    BY DEF BoxAlone
<1>2. box' = box
    BY DEF BoxAlone
<1> QED BY <1>1, <1>2 DEF Somewhere

LEMMA QueueSays ==
    ASSUME TypeOK, [Next]_vars, Calm, OneMessage, TakenIsRun,
           NEW t, t \notin dropped', NEW k \in DOMAIN queue, t \in queue[k].says
    PROVE  Somewhere(t)'
<1>1. CASE queue' = queue
    BY <1>1 DEF Somewhere
<1>2. CASE SendLater
    <2>1. NonceFor(box) \in Nonces /\ box \in SUBSET Texts
        BY <1>2 DEF SendLater, TypeOK
    <2> QED BY <1>1, <1>2, <2>1, SentLater, NewlyHeldSays
<1>3. ASSUME NEW i \in Slots, Hears(i) PROVE Somewhere(t)'
    <2>1. tries[i] # None /\ tries[i].says \in SUBSET Texts /\ tries[i].nonce \in Nonces
        BY <1>3, HearsOne, TryFields
    <2>2. CASE queue' = Holding(tries[i].says, tries[i].nonce)
        BY <2>1, <2>2, NewlyHeldSays
    <2>3. CASE queue' = Refused(tries[i])
        <3>1. queue[k] \in Message
            BY HeldFields
        <3>2. k \in DOMAIN queue' /\ queue'[k] \in {queue[k], [queue[k] EXCEPT !.failed = TRUE]}
            BY <2>3 DEF Refused
        <3>3. queue'[k].says = queue[k].says
            BY <3>1, <3>2 DEF Message
        <3> QED BY <3>2, <3>3 DEF Somewhere
    <2>4. CASE queue' = Without(tries[i]) /\ tries[i].answer = "taken" /\ queue' # queue
        <3>1. \E j \in DOMAIN queue : IsHeld(j, tries[i])
            BY <2>4 DEF Without
        <3>2. PICK j \in DOMAIN queue : j = CHOOSE l \in DOMAIN queue : IsHeld(l, tries[i])
            BY <3>1
        <3>3. IsHeld(j, tries[i]) /\ queue' = RemoveAt(queue, j)
            BY <2>4, <3>1, <3>2 DEF Without
        <3>4. CASE t \in queue[j].says
            <4>1. t \in tries[i].says
                BY <3>3, <3>4 DEF IsHeld
            <4> QED BY <2>1, <2>4, <4>1, TakenSays, RanSays
        <3> QED BY <3>3, <3>4, RemovedElse
    <2> QED BY <1>1, <1>3, <2>2, <2>3, <2>4 DEF Hears, HearTaken, HearRefused, HearNothing
<1>4. ASSUME NEW j \in DOMAIN queue, DiscardHeld(j) PROVE Somewhere(t)'
    <2>1. queue' = RemoveAt(queue, j) /\ queue[j].says \subseteq dropped'
        BY <1>4 DEF DiscardHeld
    <2> QED BY <2>1, RemovedElse
<1>5. ASSUME NEW j \in DOMAIN queue, RetryHeld(j) PROVE Somewhere(t)'
    <2>1. queue \in Seq(Message) /\ queue[k] \in Message
        BY HeldFields DEF TypeOK
    <2>2. k \in DOMAIN queue' /\ queue'[k] \in {queue[k], [queue[k] EXCEPT !.failed = FALSE]}
        BY <1>5, <2>1 DEF RetryHeld
    <2>3. queue'[k].says = queue[k].says
        BY <2>1, <2>2 DEF Message
    <2> QED BY <2>2, <2>3 DEF Somewhere
<1>6. ASSUME NEW i \in Slots, HostAct(i) PROVE queue' = queue
    BY <1>6, HostElse
<1>7. CASE Forgets \/ TurnEnds \/ SendNow \/ Drain \/ StreamDrops \/ Hello \/ Poll
           \/ UNCHANGED vars \/ \E u \in Texts : Type(u) \/ SwapFile(u)
    <2>1. queue' = queue
        BY <1>7 DEF Forgets, TurnEnds, SendNow, Drain, StreamDrops, Hello, Poll, Type, SwapFile,
                 vars, page
    <2> QED BY <1>1, <2>1
<1>8. ~Reload /\ \A j \in DOMAIN queue : ~TakeBack(j)
    BY DEF Reload, TakeBack, Calm
<1> QED BY <1>1, <1>2, <1>3, <1>4, <1>5, <1>6, <1>7, <1>8 DEF Next, HostAct, Hears

LEMMA SomewhereStill ==
    ASSUME TypeOK, [Next]_vars, Calm, InTurn, OneFromTheBox, OneMessage, TakenIsRun,
           NEW t, Somewhere(t), t \notin dropped'
    PROVE  Somewhere(t)'
<1>1. (\E k \in DOMAIN ran : t \in ran[k].says) => Somewhere(t)'
    BY RanSays
<1>2. (\E k \in DOMAIN queue : t \in queue[k].says) => Somewhere(t)'
    BY QueueSays
<1>3. SUFFICES ASSUME t \in box \/ \E i \in Slots : Awaits(i, "box") /\ t \in tries[i].says
               PROVE  Somewhere(t)'
    BY <1>1, <1>2 DEF Somewhere
<1>4. CASE BoxAlone
    BY <1>3, <1>4, BoxAloneKeeps
<1>5. CASE BoxGrows
    <2>1. box \subseteq box' /\ \A i \in Slots : ~Awaits(i, "box")
        BY <1>5 DEF BoxGrows, Calm
    <2> QED BY <1>3, <2>1 DEF Somewhere
<1>6. CASE BoxHears
    <2>1. PICK i \in Slots : Awaits(i, "box") /\ Hears(i)
        BY <1>6 DEF BoxHears
    <2>2. t \in tries[i].says
        BY <1>3, <2>1 DEF OneFromTheBox
    <2>3. tries[i] # None /\ tries[i].says \in SUBSET Texts /\ tries[i].nonce \in Nonces
        BY <2>1, TryFields DEF Awaits
    <2>4. CASE box' = tries[i].says
        BY <2>2, <2>4 DEF Somewhere
    <2>5. CASE queue' = Holding(tries[i].says, tries[i].nonce)
        BY <2>2, <2>3, <2>5, NewlyHeldSays
    <2>6. CASE tries[i].answer = "taken"
        BY <1>1, <2>2, <2>3, <2>6, TakenSays
    <2> QED BY <2>1, <2>4, <2>5, <2>6, HeardOfBox
<1>7. CASE SendsBox
    <2>1. \A i \in Slots : ~Awaits(i, "box")
        BY <1>7, SendsAlone
    <2>2. t \in box
        BY <1>3, <2>1
    <2>3. CASE SendNow
        <3>1. \E i \in Slots : Awaits(i, "box")' /\ tries'[i].says = box
            BY <2>1, <2>3, SentNow
        <3> QED BY <2>2, <3>1 DEF Somewhere
    <2>4. CASE SendLater
        <3>1. NonceFor(box) \in Nonces /\ box \in SUBSET Texts
            BY <2>4 DEF SendLater, TypeOK
        <3>2. CASE box' = box
            BY <2>2, <3>2 DEF Somewhere
        <3>3. CASE queue' = Holding(box, NonceFor(box))
            BY <2>2, <3>1, <3>3, NewlyHeldSays
        <3> QED BY <2>4, <3>2, <3>3, SentLater
    <2> QED BY <1>7, <2>3, <2>4 DEF SendsBox
<1> QED BY <1>4, <1>5, <1>6, <1>7, BoxSteps

LEMMA WholeKept ==
    ASSUME TypeOK, [Next]_vars, Calm, InTurn, OneFromTheBox, OneMessage, TakenIsRun, Whole
    PROVE  Whole'
<1> SUFFICES ASSUME NEW t \in typed' \ dropped' PROVE Somewhere(t)'
    BY DEF Whole
<1>1. CASE t \in typed \ dropped
    <2>1. Somewhere(t)
        BY <1>1 DEF Whole
    <2> QED BY <2>1, SomewhereStill
<1>2. CASE t \notin typed
    <2>1. \E u \in Texts : Type(u) \/ SwapFile(u)
        BY <1>2 DEF Next, vars, told, SendLater, SendNow, Drain, StreamDrops, Hello,
            Poll, Reload, TakeBack, DiscardHeld, RetryHeld, HearTaken, HearRefused, HearNothing,
            RequestLost, Arrives, Deadline, GraceOver, Claim, Takes, Refuses, Says, Forgets,
            TurnEnds
    <2>2. PICK u \in Texts : Type(u)
        BY <2>1 DEF SwapFile, Calm
    <2>3. t \in box'
        BY <1>2, <2>2 DEF Type
    <2> QED BY <2>3 DEF Somewhere
<1>3. dropped \subseteq dropped'
    BY DEF Next, vars, told, Type, SwapFile, SendLater, SendNow, Drain, StreamDrops, Hello,
        Poll, Reload, TakeBack, DiscardHeld, RetryHeld, HearTaken, HearRefused, HearNothing,
        RequestLost, Arrives, Deadline, GraceOver, Claim, Takes, Refuses, Says, Forgets,
        TurnEnds
<1> QED BY <1>1, <1>2, <1>3

LEMMA KeptAtFirst == PhoneInit => KeptInv
<1> SUFFICES ASSUME PhoneInit PROVE OneMessage /\ LastTryIsHis /\ OneAwaited /\ TakenIsRun /\ Whole
    BY DEF KeptInv
<1>1. /\ lastTry = None /\ typed = {} /\ queue = <<>> /\ ran = <<>>
      /\ \A i \in Slots : tries[i] = None
      /\ \A n \in Nonces : seen[n] = "unseen"
    BY DEF PhoneInit
<1>2. \A s, n : ~Occurs(s, n)
    BY <1>1 DEF Occurs
<1> QED BY <1>1, <1>2 DEF OneMessage, LastTryIsHis, OneAwaited, TakenIsRun, Whole, Awaits

LEMMA KeptStep == TypeOK /\ OnceInv /\ KeptInv /\ [Next]_vars => KeptInv'
<1> SUFFICES ASSUME TypeOK, OnceInv, KeptInv, [Next]_vars, Calm
             PROVE  OneMessage' /\ LastTryIsHis' /\ OneAwaited' /\ TakenIsRun' /\ Whole'
    BY WorldInTurn DEF KeptInv
<1>1. InTurn
    BY DEF InTurn, Calm
<1>2. OneFromTheBox /\ OneMessage /\ LastTryIsHis /\ OneAwaited /\ TakenIsRun /\ Whole
    BY <1>1 DEF OnceInv, KeptInv
<1> QED BY <1>1, <1>2, OneMessageKept, LastTryIsHisKept, OneAwaitedKept, TakenIsRunKept, WholeKept

\* A text he wrote is in the box, held, on its way, or taken, unless he threw
\* it away himself: whatever request or reply is lost, whatever the window
\* refuses, and though the listener forgets (Phone's KeptUntilTaken).
THEOREM NothingHeWroteIsLost == Spec => []KeptUntilTaken
<1>1. PhoneInit => KeptInv
    BY KeptAtFirst
<1>2. (TypeOK /\ OnceInv) /\ KeptInv /\ [Next]_vars => KeptInv'
    BY KeptStep
<1>3. KeptInv => KeptUntilTaken
    <2> SUFFICES ASSUME KeptInv, Calm, NEW t \in typed \ dropped
                 PROVE  \/ t \in box
                        \/ \E k \in DOMAIN queue : t \in queue[k].says
                        \/ \E i \in Busy : /\ t \in tries[i].says
                                           /\ MayRun(i) \/ (Waits(i) /\ tries[i].from = "box")
                        \/ \E k \in DOMAIN ran : t \in ran[k].says
        BY DEF KeptUntilTaken, Kept, Calm
    <2>1. Somewhere(t)
        BY DEF KeptInv, Whole
    <2> QED BY <2>1 DEF Somewhere, Awaits, Waits, Busy
<1> QED BY <1>1, <1>2, <1>3, OnceAlways, PTL DEF Spec

=============================================================================
