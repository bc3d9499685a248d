------------------------------- MODULE Phone -------------------------------
(***************************************************************************)
(* A message typed on the phone, on its way to a chat open on the Mac.     *)
(*                                                                         *)
(*   page     Remote.svelte, client.ts: the box, the messages held, tries  *)
(*   listener remote/mod.rs, resent.rs: the memory of nonces               *)
(*   host     src-tauri/remote.rs: a call handed to the window, its waits  *)
(*   window   remoteHandlers.ts, state.svelte.ts: claims the call, runs it *)
(*                                                                         *)
(* A request or its reply may be lost, and the page cannot tell which: it  *)
(* tries again with the same nonce.                                        *)
(***************************************************************************)
EXTENDS Naturals, Sequences, FiniteSets, SequencesExt

CONSTANTS
    Texts,      \* what he writes, each once
    Photos,     \* those of them that carry files
    Words,      \* [Texts -> ...]: what a text reads as, its files left aside
    Slots,      \* requests under way at once
    Worlds,     \* the sets of hardships to explore (see Hardships)
    MaxNonces,  \* nonces made
    MaxLosses,  \* requests, replies, streams and pages lost
    None

(***************************************************************************)
(* What may go wrong besides a lost request or a lost reply.               *)
(*   refuses    the window refuses a message, or does not answer in time   *)
(*   impatient  the page's request fails while the host is still at it     *)
(*   late       the window needs longer than the grace of a claimed call   *)
(*   half       a request fails and the event stream lives on              *)
(*   again      the queue is drained while it is being drained             *)
(*   ahead      he writes on while a message is on its way                 *)
(*   back       he takes a held message back into the box                  *)
(*   swap       he changes the files under the same words                   *)
(*   reload     the page is loaded again                                   *)
(*   forgets    the listener is started again, or half an hour passes      *)
(***************************************************************************)
Hardships == {"refuses", "impatient", "late", "half", "again", "ahead",
              "back", "swap", "reload", "forgets"}

Nonces == 1..MaxNonces

\* A request: what it says, under which nonce, where the page has it from
\* and whether it still awaits the answer; how far it has come; what the
\* window made of it, and whether the host knows that it began.
Try == [says : SUBSET Texts, nonce : Nonces, from : {"box", "queue"},
        page : {"waits", "over"},
        at : {"coming", "lost", "handed", "grace", "answered"},
        answer : {"taken", "refused", None},
        window : {"unasked", "asked", "begun", "took", "refused", "over"},
        claimed : BOOLEAN]

\* The key of a message names its words, not its files.
KeyOf(says) == [words |-> {Words[t] : t \in says}, texts |-> Cardinality(says)]

\* The last message not known to have landed.
LastTry == [key : {KeyOf(says) : says \in SUBSET Texts}, nonce : Nonces]

ASSUME PhoneAssumption ==
    /\ IsFiniteSet(Texts) /\ Photos \subseteq Texts
    /\ DOMAIN Words = Texts
    /\ Worlds \subseteq SUBSET Hardships
    /\ MaxNonces \in Nat /\ MaxLosses \in Nat
    /\ None \notin Try /\ None \notin LastTry /\ None \notin {"taken", "refused"}

VARIABLES
    world,      \* the hardships of this behaviour
    typed,      \* the texts he has written
    dropped,    \* those he threw away himself
    box,        \* the draft: the texts joined in it
    lastTry,    \* [key, nonce] of the last message not known to have landed
    queue,      \* held messages, oldest first: [says, nonce, failed]
    link,       \* "online", "offline": what the page shows
    stream,     \* the event stream is open
    loaded,     \* the page has had its first hello
    busy,       \* a turn runs, as far as the page knows
    due,        \* drainQueue was called and has not looked yet
    tries,      \* [Slots -> a request, or None]
    seen,       \* Resent.seen: [nonces -> "unseen", "running", "done"]
    turn,       \* a turn runs on the Mac
    ran,        \* the messages the window took, in order: [says, nonce]
    made,       \* nonces made so far
    losses

page == <<box, lastTry, queue, link, stream, loaded, busy, due>>
host == <<seen, turn, ran>>
told == <<world, typed, dropped>>
vars == <<page, host, told, tries, made, losses>>

Busy == {i \in Slots : tries[i] # None}
Waits(i) == i \in Busy /\ tries[i].page = "waits"
HasFiles(says) == says \cap Photos # {}
Online == link = "online"

\* Held messages are tried on their own unless the host refused them.
Triable(k) == ~queue[k].failed
Held(n) == \E k \in DOMAIN queue : queue[k].nonce = n /\ Triable(k)

----------------------------------------------------------------------------
(***************************************************************************)
(* The page                                                                *)
(***************************************************************************)

PhoneInit ==
    /\ world \in Worlds
    /\ typed = {} /\ dropped = {}
    /\ box = {} /\ lastTry = None /\ queue = <<>>
    /\ link = "offline" /\ stream = FALSE /\ loaded = FALSE /\ busy = FALSE /\ due = FALSE
    /\ tries = [i \in Slots |-> None]
    /\ seen = [n \in Nonces |-> "unseen"]
    /\ turn = FALSE /\ ran = <<>> /\ made = 0 /\ losses = 0

\* The page awaits an answer to something sent from the box.
Sending == \E i \in Busy : Waits(i) /\ tries[i].from = "box"

Type(t) ==
    /\ t \notin typed
    /\ "ahead" \in world \/ ~Sending
    /\ typed' = typed \cup {t}
    /\ box' = box \cup {t}
    /\ UNCHANGED <<world, dropped, lastTry, queue, link, stream, loaded, busy, due,
                   host, tries, made, losses>>

\* He puts a file on the words, takes it off, or puts on another.
SwapFile(t) ==
    /\ "swap" \in world /\ t \notin typed
    /\ \E u \in box :
        /\ {t, u} \cap Photos # {} /\ Words[u] = Words[t]
        /\ box' = (box \ {u}) \cup {t}
        /\ dropped' = dropped \cup {u}
    /\ typed' = typed \cup {t}
    /\ UNCHANGED <<world, lastTry, queue, link, stream, loaded, busy, due, host,
                   tries, made, losses>>

\* Mutant: each try has a nonce of its own.
NonceEachTry(says) == made + 1

\* nonceFor: the same words as the last try, the same nonce.
NonceFor(says) ==
    IF lastTry # None /\ lastTry.key = KeyOf(says) THEN lastTry.nonce ELSE made + 1

Request(says, nonce, from) ==
    [says |-> says, nonce |-> nonce, from |-> from, page |-> "waits",
     at |-> "coming", answer |-> None, window |-> "unasked", claimed |-> FALSE]

FreeSlot == CHOOSE i \in Slots : tries[i] = None

Post(says, nonce, from) ==
    /\ Busy # Slots
    /\ tries' = [tries EXCEPT ![FreeSlot] = Request(says, nonce, from)]

Holding(says, nonce) == Append(queue, [says |-> says, nonce |-> nonce, failed |-> FALSE])

\* lastTry after hold: a held copy takes its nonce with it.
AfterHold(last, nonce) == IF last # None /\ last.nonce = nonce THEN None ELSE last

\* sendNow with the chat's host out of reach or at work: words are held, a
\* message with files stays in the box.
SendLater ==
    /\ box # {} /\ loaded /\ (~Online \/ busy)
    /\ LET nonce == NonceFor(box) IN
        /\ nonce \in Nonces
        /\ made' = IF nonce > made THEN nonce ELSE made
        /\ IF HasFiles(box)
           THEN /\ lastTry' = [key |-> KeyOf(box), nonce |-> nonce]
                /\ UNCHANGED <<box, queue>>
           ELSE /\ lastTry' = None
                /\ queue' = Holding(box, nonce)
                /\ box' = {}
    /\ UNCHANGED <<link, stream, loaded, busy, due, host, told, tries, losses>>

SendNow ==
    /\ box # {} /\ Online /\ ~busy
    /\ "ahead" \in world \/ ~Sending
    /\ LET nonce == NonceFor(box) IN
        /\ nonce \in Nonces
        /\ made' = IF nonce > made THEN nonce ELSE made
        /\ lastTry' = [key |-> KeyOf(box), nonce |-> nonce]
        /\ Post(box, nonce, "box")
    /\ box' = {}
    /\ UNCHANGED <<queue, link, stream, loaded, busy, due, host, told, losses>>

Oldest(k) == Triable(k) /\ \A j \in 1..(k - 1) : ~Triable(j)

\* drainQueue looks: the oldest goes if the Mac is there and idle.
Drain ==
    /\ due
    /\ \/ "again" \in world
       \/ ~\E i \in Busy : Waits(i) /\ tries[i].from = "queue"
    /\ due' = FALSE
    /\ \/ /\ Online /\ ~busy
          /\ \E k \in DOMAIN queue :
                Oldest(k) /\ Post(queue[k].says, queue[k].nonce, "queue")
       \/ /\ ~Online \/ busy \/ ~\E k \in DOMAIN queue : Triable(k)
          /\ UNCHANGED tries
    /\ UNCHANGED <<box, lastTry, queue, link, stream, loaded, busy, host, told, made, losses>>

\* A call the page is over with, and the host and its window too, is gone.
Settled(try) ==
    IF /\ try.page = "over" /\ try.at \in {"lost", "answered"}
       /\ try.window \in {"unasked", "over"}
    THEN None ELSE try

PageOver(i) == tries' = [tries EXCEPT ![i] = Settled([@ EXCEPT !.page = "over"])]

IsHeld(k, try) == queue[k].says = try.says /\ queue[k].nonce = try.nonce

Without(try) ==
    IF \E k \in DOMAIN queue : IsHeld(k, try)
    THEN RemoveAt(queue, CHOOSE k \in DOMAIN queue : IsHeld(k, try))
    ELSE queue

Refused(try) ==
    [k \in DOMAIN queue |->
        IF IsHeld(k, try) THEN [queue[k] EXCEPT !.failed = TRUE] ELSE queue[k]]

\* 202: the message landed.
HearTaken(i) ==
    /\ Waits(i) /\ tries[i].answer = "taken"
    /\ IF tries[i].from = "box"
       THEN lastTry' = None /\ UNCHANGED queue
       ELSE queue' = Without(tries[i]) /\ UNCHANGED lastTry
    /\ busy' = TRUE
    /\ PageOver(i)
    /\ UNCHANGED <<box, link, stream, loaded, due, host, told, made, losses>>

\* 409: back into the box if nothing is in it; a held one waits for Retry.
HearRefused(i) ==
    /\ Waits(i) /\ tries[i].answer = "refused"
    /\ IF tries[i].from = "box"
       THEN box' = (IF box = {} THEN tries[i].says ELSE box) /\ UNCHANGED queue
       ELSE queue' = Refused(tries[i]) /\ UNCHANGED box
    /\ PageOver(i)
    /\ UNCHANGED <<lastTry, link, stream, loaded, busy, due, host, told, made, losses>>

\* No answer is coming, or it was lost. sendNow holds words and puts files
\* back; drainQueue leaves the message held and takes the link for down.
HearNothing(i) ==
    /\ Waits(i)
    /\ \/ tries[i].at = "lost" /\ UNCHANGED losses
       \/ /\ tries[i].at = "answered" \/ "impatient" \in world
          /\ losses < MaxLosses /\ losses' = losses + 1
    /\ LET try == tries[i] IN
        \/ /\ try.from = "queue" /\ UNCHANGED <<box, lastTry, queue>>
        \/ /\ try.from = "box" /\ HasFiles(try.says)
           /\ box' = (IF box = {} THEN try.says ELSE box)
           /\ UNCHANGED <<lastTry, queue>>
        \/ /\ try.from = "box" /\ ~HasFiles(try.says)
           /\ queue' = Holding(try.says, try.nonce)
           /\ lastTry' = AfterHold(lastTry, try.nonce)
           /\ UNCHANGED box
    /\ stream' \in (IF "half" \in world THEN {FALSE, stream} ELSE {FALSE})
    /\ link' = IF stream' /\ tries[i].from = "box" THEN link ELSE "offline"
    /\ PageOver(i)
    /\ UNCHANGED <<loaded, busy, due, host, told, made>>

StreamDrops ==
    /\ stream /\ losses < MaxLosses
    /\ losses' = losses + 1
    /\ stream' = FALSE /\ link' = "offline"
    /\ UNCHANGED <<box, lastTry, queue, loaded, busy, due, host, told, tries, made>>

\* The stream opens: the state is read, and what is held may go. The first
\* time a page opens it goes back to where he was, and looks no further.
Hello ==
    /\ ~stream
    /\ stream' = TRUE /\ link' = "online" /\ loaded' = TRUE
    /\ busy' = turn
    /\ due' = (due \/ loaded)
    /\ UNCHANGED <<box, lastTry, queue, host, told, tries, made, losses>>

\* Mutant: the end of a turn lets nothing go.
PollOnly ==
    /\ Online /\ (busy \/ queue # <<>>)
    /\ busy' = turn
    /\ UNCHANGED <<box, lastTry, queue, link, stream, loaded, due, host, told,
                   tries, made, losses>>

\* The state is read every three seconds; a turn that has ended lets the
\* next held message go.
Poll ==
    /\ Online /\ (busy \/ queue # <<>>)
    /\ busy' = turn
    /\ due' = (due \/ (busy /\ ~turn))
    /\ UNCHANGED <<box, lastTry, queue, link, stream, loaded, host, told,
                   tries, made, losses>>

TakeBack(k) ==
    /\ "back" \in world
    /\ box' = box \cup queue[k].says
    /\ queue' = RemoveAt(queue, k)
    /\ UNCHANGED <<lastTry, link, stream, loaded, busy, due, host, told,
                   tries, made, losses>>

DiscardHeld(k) ==
    /\ dropped' = dropped \cup queue[k].says
    /\ queue' = RemoveAt(queue, k)
    /\ UNCHANGED <<world, typed, box, lastTry, link, stream, loaded, busy, due,
                   host, tries, made, losses>>

RetryHeld(k) ==
    /\ queue[k].failed
    /\ queue' = [queue EXCEPT ![k].failed = FALSE]
    /\ due' = TRUE
    /\ UNCHANGED <<box, lastTry, link, stream, loaded, busy, host, told,
                   tries, made, losses>>

\* The page starts over with the draft and the queue it saved.
Reload ==
    /\ "reload" \in world /\ loaded /\ losses < MaxLosses
    /\ losses' = losses + 1
    /\ box' = box \ Photos
    /\ dropped' = dropped \cup (box \cap Photos)
    /\ lastTry' = None
    /\ link' = "offline" /\ stream' = FALSE /\ loaded' = FALSE
    /\ busy' = FALSE /\ due' = FALSE
    /\ tries' = [i \in Slots |->
                    IF i \in Busy THEN Settled([tries[i] EXCEPT !.page = "over"]) ELSE None]
    /\ UNCHANGED <<world, typed, queue, host, made>>

----------------------------------------------------------------------------
(***************************************************************************)
(* The network, the listener and the host                                  *)
(***************************************************************************)

RequestLost(i) ==
    /\ i \in Busy /\ tries[i].at = "coming" /\ losses < MaxLosses
    /\ losses' = losses + 1
    /\ tries' = [tries EXCEPT ![i] = Settled([@ EXCEPT !.at = "lost"])]
    /\ UNCHANGED <<page, host, told, made>>

\* Resent.claim: a nonce seen before does nothing again.
FirstTry(nonce) == seen[nonce] = "unseen"

\* send_impl: the first try of a message is handed to the window; another
\* is answered at once, with "sent" while the first still runs.
Arrives(i) ==
    /\ i \in Busy /\ tries[i].at = "coming"
    /\ LET nonce == tries[i].nonce IN
       IF FirstTry(nonce)
       THEN /\ tries' = [tries EXCEPT ![i] = [@ EXCEPT !.at = "handed", !.window = "asked"]]
            /\ seen' = [seen EXCEPT ![nonce] = "running"]
       ELSE /\ tries' = [tries EXCEPT ![i] =
                            Settled([@ EXCEPT !.at = "answered", !.answer = "taken"])]
            /\ UNCHANGED seen
    /\ UNCHANGED <<page, told, turn, ran, made, losses>>

\* The call is among the replies the host waits for.
Pending(i) == tries[i].at \in {"handed", "grace"}

\* Mutant: a refusal is remembered like an answer.
SettledAlways(answer) == "done"

\* Resent.settle: an answer is kept, a refusal forgets the nonce.
SettledAs(answer) == IF answer = "taken" THEN "done" ELSE "unseen"

Answer(i, answer, window) ==
    /\ tries' = [tries EXCEPT ![i] =
          Settled([@ EXCEPT !.at = "answered", !.answer = answer, !.window = window])]
    /\ seen' = [seen EXCEPT ![tries[i].nonce] = SettledAs(answer)]

\* give_up_unless_claimed, at the end of SEND_WAIT.
GivesUp(i) == ~tries[i].claimed

Deadline(i) ==
    /\ i \in Busy /\ tries[i].at = "handed"
    /\ IF GivesUp(i)
       THEN /\ "refuses" \in world
            /\ Answer(i, "refused", tries[i].window)
       ELSE /\ tries' = [tries EXCEPT ![i] = [@ EXCEPT !.at = "grace", !.claimed = FALSE]]
            /\ UNCHANGED seen
    /\ UNCHANGED <<page, told, turn, ran, made, losses>>

\* What a claimed call that is never answered is said to have come to.
LateAnswer == "taken"

GraceOver(i) ==
    /\ i \in Busy /\ tries[i].at = "grace"
    /\ "late" \in world \/ tries[i].window = "took"
    /\ Answer(i, LateAnswer, tries[i].window)
    /\ UNCHANGED <<page, told, turn, ran, made, losses>>

\* The listener starts again, or the nonces are past REMEMBER_FOR.
Forgets ==
    /\ "forgets" \in world
    /\ \A i \in Busy : ~Pending(i)
    /\ seen # [n \in Nonces |-> "unseen"]
    /\ seen' = [n \in Nonces |-> "unseen"]
    /\ UNCHANGED <<page, told, turn, ran, tries, made, losses>>

----------------------------------------------------------------------------
(***************************************************************************)
(* The window                                                              *)
(***************************************************************************)

WindowAt(i, at) == i \in Busy /\ tries[i].window = at

\* Mutant: the window starts whatever it was handed.
MayClaimAny(i) == TRUE

\* remote_claim: only while the host still waits for the call.
MayClaim(i) == Pending(i)

Claim(i) ==
    /\ WindowAt(i, "asked")
    /\ tries' = [tries EXCEPT ![i] =
          IF MayClaim(i)
          THEN [@ EXCEPT !.window = "begun", !.claimed = TRUE]
          ELSE Settled([@ EXCEPT !.window = "over"])]
    /\ UNCHANGED <<page, host, told, made, losses>>

\* remoteSend: a turn begins, or the message joins the one that runs.
Takes(i) ==
    /\ WindowAt(i, "begun")
    /\ tries' = [tries EXCEPT ![i].window = "took"]
    /\ ran' = Append(ran, [says |-> tries[i].says, nonce |-> tries[i].nonce])
    /\ turn' = TRUE
    /\ UNCHANGED <<page, seen, told, made, losses>>

\* The chat would not open, no engine is connected, the Mac is busy elsewhere.
Refuses(i) ==
    /\ "refuses" \in world
    /\ WindowAt(i, "asked") \/ WindowAt(i, "begun")
    /\ tries' = [tries EXCEPT ![i].window = "refused"]
    /\ UNCHANGED <<page, host, told, made, losses>>

\* remote_sent: it reaches the host if that still waits.
Says(i) ==
    /\ WindowAt(i, "took") \/ WindowAt(i, "refused")
    /\ IF Pending(i)
       THEN Answer(i, IF tries[i].window = "took" THEN "taken" ELSE "refused", "over")
       ELSE /\ tries' = [tries EXCEPT ![i] = Settled([@ EXCEPT !.window = "over"])]
            /\ UNCHANGED seen
    /\ UNCHANGED <<page, told, turn, ran, made, losses>>

TurnEnds ==
    /\ turn
    /\ turn' = FALSE
    /\ UNCHANGED <<page, seen, ran, told, tries, made, losses>>

Next ==
    \/ \E t \in Texts : Type(t) \/ SwapFile(t)
    \/ SendLater \/ SendNow \/ Drain \/ StreamDrops \/ Hello \/ Poll \/ Reload
    \/ \E k \in DOMAIN queue : TakeBack(k) \/ DiscardHeld(k) \/ RetryHeld(k)
    \/ \E i \in Slots :
        \/ HearTaken(i) \/ HearRefused(i) \/ HearNothing(i)
        \/ RequestLost(i) \/ Arrives(i) \/ Deadline(i) \/ GraceOver(i)
        \/ Claim(i) \/ Takes(i) \/ Refuses(i) \/ Says(i)
    \/ Forgets \/ TurnEnds

Spec == PhoneInit /\ [][Next]_vars

\* The page's loops and its callbacks go on, the host's waits run out, a
\* request arrives or fails, the window answers and a turn ends.
Fairness ==
    /\ WF_vars(Hello) /\ WF_vars(Drain) /\ WF_vars(Poll) /\ WF_vars(TurnEnds)
    /\ \A i \in Slots :
        /\ WF_vars(HearTaken(i) \/ HearRefused(i) \/ HearNothing(i))
        /\ WF_vars(Arrives(i) \/ RequestLost(i))
        /\ WF_vars(Claim(i)) /\ WF_vars(Takes(i) \/ Refuses(i)) /\ WF_vars(Says(i))

FairSpec == Spec /\ Fairness

----------------------------------------------------------------------------
Message == [says : SUBSET Texts, nonce : Nonces, failed : BOOLEAN]

TypeOK ==
    /\ world \in Worlds
    /\ typed \subseteq Texts /\ dropped \subseteq Texts /\ box \subseteq Texts
    /\ lastTry \in LastTry \cup {None}
    /\ queue \in Seq(Message)
    /\ link \in {"online", "offline"} /\ (Online => stream)
    /\ {stream, loaded, busy, due, turn} \subseteq BOOLEAN
    /\ tries \in [Slots -> Try \cup {None}]
    /\ seen \in [Nonces -> {"unseen", "running", "done"}]
    /\ ran \in Seq([says : SUBSET Texts, nonce : Nonces])
    /\ made \in 0..MaxNonces /\ losses \in 0..MaxLosses

\* One nonce is run once, whatever is resent: of a call given up on the
\* window starts nothing, and a call it did start is never said to have
\* failed (resent.rs; remote.rs, claim_in and await_answer).
NonceRunsOnce ==
    \A j, k \in DOMAIN ran : j # k => ran[j].nonce # ran[k].nonce

\* What he wrote once and sent runs once.
MessageRunsOnce ==
    \A j, k \in DOMAIN ran : j # k => ran[j].says # ran[k].says

\* So it is while the listener remembers (resent.rs).
NonceOnce == "forgets" \notin world => NonceRunsOnce

\* And so it is while the listener remembers and he neither takes a held
\* message back, nor writes on while it is on its way, nor reloads.
MessageOnce ==
    world \cap {"forgets", "back", "ahead", "reload"} = {} => MessageRunsOnce

\* The request may still come to run.
MayRun(i) ==
    \/ tries[i].at = "coming"
    \/ tries[i].window = "asked" /\ Pending(i)
    \/ tries[i].window = "begun"

\* A text he wrote is in the box, held, on its way, taken by the Mac, or
\* thrown away by him (Remote.svelte: "so nothing typed is lost").
Kept ==
    \A t \in typed \ dropped :
        \/ t \in box
        \/ \E k \in DOMAIN queue : t \in queue[k].says
        \/ \E i \in Busy :
            /\ t \in tries[i].says
            /\ MayRun(i) \/ (Waits(i) /\ tries[i].from = "box")
        \/ \E k \in DOMAIN ran : t \in ran[k].says

\* So it is, whatever request or reply is lost and whatever the window
\* refuses, as long as the hardships that lose one stay away.
KeptUntilTaken ==
    world \subseteq {"refuses", "half", "forgets"} => Kept

\* A held message goes once the host is back (resent.rs).
EveryHeldGoes == \A n \in Nonces : Held(n) ~> ~Held(n)
HeldGoes == world = {} => EveryHeldGoes
=============================================================================
