------------------------------ MODULE SyncProofs ------------------------------
(***************************************************************************)
(* Theorems of Sync, for any files, chats, settings and number of stops    *)
(* and deaths: the mirror is what the Mac has, a log comes home with the   *)
(* session it names, and neither end replaces what the other may count on. *)
(***************************************************************************)
EXTENDS Sync, TLAPS

-----------------------------------------------------------------------------
(* The mirror.                                                             *)

Versions == [Files -> Nat]

UpSteps == {"rest", "asks", "waits", "sends", "puts", "sent"}

UpRec == [at : UpSteps, named : Versions, need : SUBSET Files, skipped : BOOLEAN]

Manifest == [kind : {"manifest"}, to : Versions, need : SUBSET Files]
PutJob   == [kind : {"put"}, file : Files, disk : Nat, index : Nat]

UpTypes ==
    /\ mine \in Versions /\ disk \in Versions /\ index \in Versions
    /\ marked \subseteq {f \in Files : mine[f] # 0}
    /\ up \in UpRec
    /\ job \in {NoJob} \cup Manifest \cup PutJob

\* Versions only grow: nothing is ahead of the Mac, nor the index of the disk
\* where there is a copy.
InOrder ==
    /\ \A f \in Files : disk[f] <= mine[f] /\ index[f] <= mine[f] /\ up.named[f] <= mine[f]
    /\ \A f \in Files : disk[f] # 0 => index[f] <= disk[f]
    /\ job \in Manifest => \A f \in Files : job.to[f] \in {0, index[f]}
    /\ job \in PutJob => job.disk = disk[job.file] /\ job.index = disk[job.file]

\* Past the manifest.
Answered == up.at \in {"waits", "sends", "puts", "sent"}

\* The files the pass still has to send.
ToSend == IF up.at = "waits" THEN job.need ELSE up.need

\* What the pass named is there, or is still to be sent.
NamedIsThere ==
    Answered =>
        /\ \A f \in Files : up.named[f] # 0 =>
              disk[f] >= up.named[f] \/ f \in ToSend \/ up.skipped
        /\ \A f \in ToSend : up.named[f] # 0
        /\ up.at = "waits" => job \in Manifest
        /\ up.at = "sent" => up.need = {}

\* While the server does not die its index is its disk, but for the request
\* it is half through, and what the pass did not name is gone.
NothingElse ==
    /\ job = NoJob => index = disk
    /\ job \in Manifest => job.to = disk
    /\ job \in PutJob => \A f \in Files \ {job.file} : index[f] = disk[f]
    /\ Answered => \A f \in Files : up.named[f] = 0 => disk[f] = 0

UpInv == UpTypes /\ InOrder /\ NamedIsThere /\ ("die" \notin may => NothingElse)

LEMMA JobKinds ==
    ASSUME UpTypes
    PROVE  /\ job = NoJob => job \notin Manifest /\ job \notin PutJob /\ job.kind = "none"
           /\ job \in Manifest => job \notin PutJob /\ job # NoJob /\ job.kind = "manifest"
           /\ job \in PutJob => job.kind = "put" /\ job # NoJob
BY DEF NoJob, Manifest, PutJob

LEMMA UpStart == Init => UpInv
<1> SUFFICES ASSUME Init PROVE UpInv
    OBVIOUS
<1>1. PICK files \in {Files, {}} : MirrorInit(files)
    BY DEF Init
<1>2. Nothing \in Versions /\ \A f \in Files : Nothing[f] = 0
    BY DEF Nothing, Versions
<1>3. job = NoJob /\ disk = Nothing /\ index = Nothing /\ marked = files
      /\ mine = [f \in Files |-> IF f \in files THEN 1 ELSE 0]
      /\ up = [at |-> "rest", named |-> Nothing, need |-> {}, skipped |-> FALSE]
    BY <1>1 DEF MirrorInit
<1>4. mine \in Versions /\ marked \subseteq {f \in Files : mine[f] # 0} /\ \A f \in Files : mine[f] >= 0
    BY <1>3 DEF Versions
<1>5. up \in UpRec /\ up.at = "rest" /\ up.named = Nothing
    BY <1>2, <1>3 DEF UpRec, UpSteps
<1>6. UpTypes
    BY <1>2, <1>3, <1>4, <1>5 DEF UpTypes
<1> QED BY <1>2, <1>3, <1>4, <1>5, <1>6, JobKinds
    DEF UpInv, InOrder, NamedIsThere, NothingElse, Answered

\* He edits, marks or unmarks.
LEMMA MineSteps ==
    ASSUME UpInv, may' = may, NEW f \in Files, Edit(f) \/ Mark(f)
    PROVE  UpInv'
<1>1. UNCHANGED << disk, index, up, job >>
    BY DEF Edit, Mark
<1>2. mine' \in Versions /\ marked' \subseteq {g \in Files : mine'[g] # 0}
      /\ \A g \in Files : mine'[g] >= mine[g]
    BY DEF Edit, Mark, UpInv, UpTypes, Versions
<1>3. UpTypes' /\ InOrder'
    BY <1>1, <1>2 DEF UpInv, UpTypes, InOrder, Versions, UpRec
<1> QED BY <1>1, <1>3 DEF UpInv, NamedIsThere, NothingElse, Answered, ToSend

LEMMA CollectStep ==
    ASSUME UpInv, may' = may, Collect
    PROVE  UpInv'
<1>1. Snapshot \in Versions /\ \A f \in Files : Snapshot[f] <= mine[f]
    BY DEF Snapshot, UpInv, UpTypes, Versions
<1>2. /\ up' = [at |-> "asks", named |-> Snapshot, need |-> {}, skipped |-> FALSE]
      /\ UNCHANGED << mine, marked, disk, index, job >>
    BY DEF Collect
<1>3. up' \in UpRec /\ up'.at = "asks" /\ up'.named = Snapshot
    BY <1>1, <1>2 DEF UpRec, UpSteps
<1>4. UpTypes' /\ InOrder'
    BY <1>1, <1>2, <1>3 DEF UpInv, UpTypes, InOrder
<1> QED BY <1>2, <1>3, <1>4 DEF UpInv, NamedIsThere, NothingElse, Answered

LEMMA ManifestStep ==
    ASSUME UpInv, may' = may, ApplyManifest
    PROVE  UpInv'
<1> DEFINE gone == Gone(up.named, Had)
           to == [f \in Files |-> IF f \in gone THEN 0 ELSE Had[f]]
           need == Changed(up.named, Had)
<1>1. Had \in Versions /\ gone \subseteq Files /\ need \subseteq Files
      /\ \A f \in Files : Had[f] = IF disk[f] = 0 THEN 0 ELSE index[f]
    BY DEF Had, Gone, Changed, UpInv, UpTypes, Versions
<1>2. \A f \in Files : /\ f \in gone <=> Had[f] # 0 /\ up.named[f] = 0
                       /\ f \in need <=> up.named[f] # 0 /\ Had[f] # up.named[f]
    BY DEF Gone, Changed
<1>3. PICK t, n, g : t = to /\ n = need /\ g = gone
    OBVIOUS
<1>4. /\ job = NoJob /\ up.at = "asks" /\ UNCHANGED << mine, marked, index >>
      /\ disk' = [f \in Files |-> IF f \in g THEN 0 ELSE disk[f]]
      /\ job' = [kind |-> "manifest", to |-> t, need |-> n]
      /\ up' = [up EXCEPT !.at = "waits"]
    BY <1>3 DEF ApplyManifest, UpAt
<1>5. t \in Versions /\ \A f \in Files : t[f] = IF f \in g THEN 0 ELSE Had[f]
    BY <1>1, <1>3 DEF Versions
<1>6. /\ n \subseteq Files /\ g \subseteq Files
      /\ \A f \in Files : /\ f \in g <=> Had[f] # 0 /\ up.named[f] = 0
                          /\ f \in n <=> up.named[f] # 0 /\ Had[f] # up.named[f]
    BY <1>1, <1>2, <1>3
<1> HIDE DEF gone, to, need
<1>7. /\ job' \in Manifest /\ job'.to = t /\ job'.need = n
      /\ up' \in UpRec /\ up'.at = "waits" /\ up'.named = up.named
      /\ disk' \in Versions /\ \A f \in Files : disk'[f] = IF f \in g THEN 0 ELSE disk[f]
    BY <1>4, <1>5, <1>6 DEF UpInv, UpTypes, Manifest, UpRec, UpSteps, Versions
<1>8. UpTypes'
    BY <1>4, <1>7 DEF UpInv, UpTypes
<1>9. job' \notin PutJob /\ job' # NoJob
    BY <1>7 DEF Manifest, PutJob, NoJob
<1>10. InOrder'
    BY <1>1, <1>4, <1>5, <1>7, <1>9 DEF UpInv, UpTypes, InOrder, Versions, UpRec
<1>11. NamedIsThere'
    <2>1. ToSend' = n
        BY <1>7 DEF ToSend
    <2>2. ASSUME NEW f \in Files, up.named[f] # 0, f \notin n
          PROVE  disk'[f] >= up.named[f]
        <3>1. disk[f] # 0 /\ index[f] = up.named[f] /\ f \notin g
            BY <1>1, <1>6, <2>2
        <3> QED BY <1>7, <3>1 DEF UpInv, UpTypes, InOrder, Versions, UpRec
    <2> QED BY <1>6, <1>7, <2>1, <2>2 DEF NamedIsThere, Answered
<1>12. NothingElse => NothingElse'
    <2>1. ASSUME index = disk
          PROVE  \A f \in Files : t[f] = disk'[f] /\ (up.named[f] = 0 => disk'[f] = 0)
        BY <1>1, <1>5, <1>6, <1>7, <2>1
    <2>2. index = disk => t = disk'
        BY <1>5, <1>7, <2>1 DEF Versions
    <2> QED BY <1>4, <1>7, <1>9, <2>1, <2>2 DEF NothingElse
<1> QED BY <1>8, <1>10, <1>11, <1>12 DEF UpInv

LEMMA AnswerStep ==
    ASSUME UpInv, may' = may, AnswerManifest
    PROVE  UpInv'
<1>1. job \in Manifest /\ job \notin PutJob
    BY JobKinds DEF AnswerManifest, UpInv, UpTypes, Manifest, PutJob, NoJob
<1>2. PICK t, n : t = job.to /\ n = job.need
    OBVIOUS
<1>3. t \in Versions /\ n \subseteq Files
    BY <1>1, <1>2 DEF Manifest
<1>4. /\ index' = t /\ job' = NoJob /\ UNCHANGED << mine, marked, disk >>
      /\ up' = IF up.at = "waits" THEN [[up EXCEPT !.at = "sends"] EXCEPT !.need = n] ELSE up
    BY <1>2 DEF AnswerManifest, UpAt
<1>5. /\ up' \in UpRec /\ up'.named = up.named /\ up'.skipped = up.skipped
      /\ up.at = "waits" => up'.at = "sends" /\ up'.need = n
      /\ up.at # "waits" => up' = up
    BY <1>3, <1>4 DEF UpInv, UpTypes, UpRec, UpSteps
<1>6. UpTypes'
    BY <1>3, <1>4, <1>5 DEF UpInv, UpTypes
<1>7. job' \notin Manifest /\ job' \notin PutJob
    BY <1>4 DEF NoJob, Manifest, PutJob
<1>8. InOrder'
    BY <1>1, <1>2, <1>4, <1>5, <1>7 DEF UpInv, UpTypes, InOrder, Versions, UpRec
<1>9. NamedIsThere'
    <2>1. ToSend' = ToSend /\ Answered' = Answered
        BY <1>2, <1>5 DEF ToSend, Answered
    <2>2. up'.at # "waits" /\ (up'.at = "sent" => up.at = "sent" /\ up' = up)
        BY <1>1, <1>5 DEF UpInv, NamedIsThere
    <2> QED BY <1>4, <1>5, <2>1, <2>2 DEF UpInv, NamedIsThere
<1>10. NothingElse => NothingElse'
    BY <1>1, <1>2, <1>4, <1>5, <1>7 DEF NothingElse, Answered
<1> QED BY <1>6, <1>8, <1>9, <1>10 DEF UpInv

LEMMA SendStep ==
    ASSUME UpInv, may' = may, NEW f \in Files, Send(f)
    PROVE  UpInv'
<1>1. PICK v : v = mine[f]
    OBVIOUS
<1>2. /\ up.at = "sends" /\ f \in up.need /\ job = NoJob
      /\ disk' = [disk EXCEPT ![f] = v]
      /\ job' = [kind |-> "put", file |-> f, disk |-> v, index |-> v]
      /\ up' = [[up EXCEPT !.at = "puts"] EXCEPT !.need = @ \ {f}]
      /\ UNCHANGED << mine, marked, index >>
    BY <1>1 DEF Send, PutFile, UpAt
<1>3. /\ v \in Nat /\ disk' \in Versions
      /\ \A g \in Files : disk'[g] = IF g = f THEN v ELSE disk[g]
    BY <1>1, <1>2 DEF UpInv, UpTypes, Versions
<1>4. /\ up' \in UpRec /\ up'.at = "puts" /\ up'.named = up.named
      /\ up'.need = up.need \ {f} /\ up'.skipped = up.skipped
    BY <1>2 DEF UpInv, UpTypes, UpRec, UpSteps
<1>5. job' \in PutJob /\ job'.file = f /\ job'.disk = v /\ job'.index = v
    BY <1>2, <1>3 DEF PutJob
<1>6. job' \notin Manifest /\ job' # NoJob
    BY <1>5 DEF PutJob, Manifest, NoJob
<1>7. UpTypes'
    BY <1>2, <1>3, <1>4, <1>5 DEF UpInv, UpTypes
<1>8. InOrder'
    BY <1>1, <1>2, <1>3, <1>4, <1>5, <1>6 DEF UpInv, UpTypes, InOrder, Versions, UpRec
<1>9. NamedIsThere'
    <2>1. ToSend = up.need /\ ToSend' = up.need \ {f} /\ Answered /\ Answered'
        BY <1>2, <1>4 DEF ToSend, Answered
    <2>2. up.named[f] \in Nat /\ up.named[f] <= v
        BY <1>1, <1>2 DEF UpInv, UpTypes, InOrder, Versions, UpRec
    <2> QED BY <1>3, <1>4, <2>1, <2>2 DEF UpInv, NamedIsThere
<1>10. NothingElse => NothingElse'
    <2>1. up.named[f] # 0 /\ Answered
        BY <1>2 DEF UpInv, NamedIsThere, ToSend, Answered
    <2> QED BY <1>2, <1>3, <1>4, <1>5, <1>6, <2>1 DEF NothingElse, Answered
<1> QED BY <1>7, <1>8, <1>9, <1>10 DEF UpInv

LEMMA SkipStep ==
    ASSUME UpInv, may' = may, NEW f \in Files, SkipUnread(f)
    PROVE  UpInv'
<1>1. /\ up.at = "sends" /\ up' = [up EXCEPT !.need = @ \ {f}, !.skipped = TRUE]
      /\ UNCHANGED << mine, marked, disk, index, job >>
    BY DEF SkipUnread
<1>2. /\ up' \in UpRec /\ up'.at = "sends" /\ up'.named = up.named
      /\ up'.need = up.need \ {f} /\ up'.skipped
    BY <1>1 DEF UpInv, UpTypes, UpRec
<1> QED BY <1>1, <1>2
    DEF UpInv, UpTypes, InOrder, NamedIsThere, NothingElse, Answered, ToSend

LEMMA PutDoneStep ==
    ASSUME UpInv, may' = may, PutDone
    PROVE  UpInv'
<1>1. job \in PutJob /\ job \notin Manifest
    BY JobKinds DEF PutDone, UpInv, UpTypes, Manifest, PutJob, NoJob
<1>2. PICK f, v : f = job.file /\ v = disk[f]
    OBVIOUS
<1>3. f \in Files /\ v \in Nat /\ job.index = v /\ job.disk = v
    BY <1>1, <1>2 DEF UpInv, UpTypes, InOrder, PutJob, Versions
<1>4. /\ index' = [index EXCEPT ![f] = v] /\ disk' = [disk EXCEPT ![f] = v]
      /\ job' = NoJob /\ UNCHANGED << mine, marked >>
      /\ up' = IF up.at = "puts" THEN [up EXCEPT !.at = "sends"] ELSE up
    BY <1>2, <1>3 DEF PutDone, UpAt
<1>5. disk' = disk /\ index' \in Versions /\ \A g \in Files : index'[g] = IF g = f THEN v ELSE index[g]
    BY <1>2, <1>3, <1>4 DEF UpInv, UpTypes, Versions
<1>6. /\ up' \in UpRec /\ up'.named = up.named /\ up'.skipped = up.skipped /\ up'.need = up.need
      /\ up.at = "puts" => up'.at = "sends"
      /\ up.at # "puts" => up' = up
    BY <1>4 DEF UpInv, UpTypes, UpRec, UpSteps
<1>7. job' \notin Manifest /\ job' \notin PutJob
    BY <1>4 DEF NoJob, Manifest, PutJob
<1>8. UpTypes' /\ InOrder'
    BY <1>2, <1>4, <1>5, <1>6, <1>7 DEF UpInv, UpTypes, InOrder, Versions, UpRec
<1>9. up.at # "waits"
    BY <1>1 DEF UpInv, NamedIsThere, Answered
<1>10. NamedIsThere'
    BY <1>5, <1>6, <1>9 DEF UpInv, NamedIsThere, Answered, ToSend
<1>11. NothingElse => NothingElse'
    <2>1. NothingElse => \A g \in Files : index'[g] = disk[g]
        BY <1>1, <1>2, <1>5 DEF NothingElse
    <2>2. NothingElse => index' = disk'
        BY <1>5, <2>1 DEF UpInv, UpTypes, Versions
    <2> QED BY <1>5, <1>6, <1>7, <2>2 DEF NothingElse, Answered
<1> QED BY <1>8, <1>10, <1>11 DEF UpInv

LEMMA PushDoneStep ==
    ASSUME UpInv, may' = may, PushDone
    PROVE  UpInv'
<1>1. /\ up.at = "sends" /\ up.need = {} /\ up' = [up EXCEPT !.at = "sent"]
      /\ UNCHANGED << mine, marked, disk, index, job >>
    BY DEF PushDone, UpAt
<1>2. /\ up' \in UpRec /\ up'.at = "sent" /\ up'.named = up.named
      /\ up'.need = {} /\ up'.skipped = up.skipped
    BY <1>1 DEF UpInv, UpTypes, UpRec, UpSteps
<1> QED BY <1>1, <1>2
    DEF UpInv, UpTypes, InOrder, NamedIsThere, NothingElse, Answered, ToSend

\* The pass ends, for whatever reason, and the server may have died with it.
LEMMA RestStep ==
    /\ UpInv /\ may' = may
    /\ UNCHANGED << mine, marked, disk, index >>
    /\ job' = job \/ (job' = NoJob /\ "die" \in may)
    /\ up' \in UpRec /\ up'.at = "rest" /\ up'.named = up.named
    => UpInv'
<1>1. NoJob \notin Manifest /\ NoJob \notin PutJob
    BY DEF NoJob, Manifest, PutJob
<1> QED BY <1>1 DEF UpInv, UpTypes, InOrder, NamedIsThere, NothingElse, Answered

LEMMA UpStep == UpInv /\ [Next]_vars => UpInv'
<1> SUFFICES ASSUME UpInv, [Next]_vars PROVE UpInv'
    OBVIOUS
<1>1. CASE UNCHANGED << upVars, may >>
    BY <1>1 DEF upVars, UpInv, UpTypes, InOrder, NamedIsThere, NothingElse, Answered, ToSend
<1>2. CASE Push
    BY <1>2, CollectStep, ManifestStep, AnswerStep, PutDoneStep, PushDoneStep, SendStep, SkipStep
    DEF Push, PushNext
<1>3. CASE Pull
    <2>1. CASE up' = up
        BY <1>1, <1>3, <2>1 DEF Pull, upVars
    <2>2. CASE up' = UpAt("rest")
        <3>1. up' \in UpRec /\ up'.at = "rest" /\ up'.named = up.named
            BY <2>2 DEF UpAt, UpInv, UpTypes, UpRec, UpSteps
        <3>2. UNCHANGED << mine, marked, disk, index >> /\ job' = job /\ may' = may
            BY <1>3 DEF Pull
        <3> QED BY <3>1, <3>2, RestStep
    <2> QED BY <1>3, <2>1, <2>2 DEF Pull
<1>4. CASE Serve
    BY <1>1, <1>4 DEF Serve
<1>5. CASE His
    BY <1>5, MineSteps DEF His
<1>6. CASE MacStops \/ ServerDies
    <2>1. up' = [up EXCEPT !.at = "rest", !.need = {}]
        BY <1>6 DEF MacStops, ServerDies
    <2>2. up' \in UpRec /\ up'.at = "rest" /\ up'.named = up.named
        BY <2>1 DEF UpInv, UpTypes, UpRec, UpSteps
    <2>3. may' = may /\ UNCHANGED << mine, marked, disk, index >>
        BY <1>6 DEF MacStops, ServerDies
    <2>4. job' = job \/ (job' = NoJob /\ "die" \in may)
        BY <1>6 DEF MacStops, ServerDies
    <2> QED BY <2>2, <2>3, <2>4, RestStep
<1>7. CASE UNCHANGED vars
    BY <1>1, <1>7 DEF vars
<1> QED BY <1>2, <1>3, <1>4, <1>5, <1>6, <1>7 DEF Next

\* After a push that went through, the mirror holds what the Mac has marked and
\* nothing more, whatever pushes were cut short before it (apply_manifest, put).
THEOREM TheMirror == Spec => []MirrorIsTheMacs
<1>1. ASSUME UpInv PROVE MirrorIsTheMacs
    <2>1. ASSUME UpToDate, NEW f \in marked
          PROVE  disk[f] = mine[f]
        <3>1. f \in Files /\ mine[f] # 0 /\ up.named[f] = mine[f]
            BY <1>1, <2>1 DEF UpToDate, Snapshot, UpInv, UpTypes
        <3>2. disk[f] >= mine[f] /\ disk[f] <= mine[f]
            BY <1>1, <2>1, <3>1 DEF UpToDate, UpInv, NamedIsThere, Answered, ToSend, InOrder
        <3> QED BY <1>1, <3>1, <3>2 DEF UpInv, UpTypes, Versions
    <2>2. ASSUME UpToDate, "die" \notin may, NEW f \in Files \ marked
          PROVE  disk[f] = 0
        BY <1>1, <2>2 DEF UpToDate, Snapshot, UpInv, NothingElse, Answered
    <2> QED BY <2>1, <2>2 DEF MirrorIsTheMacs, MirrorHasTheMacs, MirrorHasNoMore, UpInv, UpTypes
<1> QED BY <1>1, UpStart, UpStep, PTL DEF Spec

-----------------------------------------------------------------------------
(* What comes home.                                                        *)

LogRec  == [n : Nat, cli : Nat]
Pair    == [log : LogRec, cli : Nat]
HomeRec == [log : LogRec, cli : Nat, his : BOOLEAN]

DownSteps == {"rest", "lists", "hashes", "pulls", "cli", "places", "log", "acks"}

Entries == UNION {[S -> Pair] : S \in SUBSET Chats}
Got     == {<< >>} \cup [log : LogRec] \cup Pair

DownRec ==
    [at : DownSteps, todo : SUBSET Chats, seen : SUBSET Chats, entries : Entries,
     chat : Chats \cup {NoChat}, got : Got, placed : SUBSET Chats]

\* A log never names more of its Claude Code file than there is.
ServeInv ==
    /\ log \in [Chats -> LogRec] /\ cli \in [Chats -> Nat]
    /\ {turn, asked, sending} \subseteq Chats \cup {NoChat}
    /\ \A c \in Chats : log[c].cli <= cli[c] /\ (log[c].n = 0 => log[c].cli = 0)

\* A listing hashes the log before the file it names.
PullInv ==
    /\ down \in DownRec
    /\ \A c \in Left : down.entries[c].log.cli <= down.entries[c].cli
    /\ down.at = "hashes" =>
          /\ down.chat \in Chats /\ Started(down.chat)
          /\ down.got \in [log : LogRec]
          /\ down.got.log.cli <= log[down.chat].cli
    /\ down.at \in {"cli", "places", "log"} => down.chat \in Left
    /\ down.at = "cli" => down.got \in [log : LogRec]
    /\ down.at \in {"places", "log"} => down.got \in Pair

\* Between the placing of the two files the first is what the second names.
PlacedInv ==
    down.at = "log" =>
        /\ down.got.log.cli <= down.got.cli
        /\ down.got.cli # 0 => home[down.chat].cli = down.got.cli

HomeInv ==
    /\ home \in [Chats -> HomeRec]
    /\ \A c \in Chats : home[c].his => home[c].log # NoLog
    /\ HomeWithItsSession

\* Whatever the pull names is a chat the server has begun, and what is on its
\* list is read-only.
ListInv ==
    /\ acked \subseteq locked /\ ack \subseteq locked
    /\ \A c \in locked \cup down.placed \cup Left \cup down.todo :
          c \in Chats /\ Started(c)

DownInv == ServeInv /\ PullInv /\ PlacedInv /\ HomeInv /\ ListInv

LEMMA DownStart == Init => DownInv
<1> SUFFICES ASSUME Init PROVE DownInv
    OBVIOUS
<1>1. OutboxInit
    BY DEF Init
<1>2. NoLog \in LogRec /\ NoLog.n = 0 /\ NoLog.cli = 0
    BY DEF NoLog, LogRec
<1>3. ServeInv
    BY <1>1, <1>2 DEF OutboxInit, ServeInv
<1>4. << >> \in Entries /\ DOMAIN << >> = {}
    BY DEF Entries
<1>5. down = NoPull /\ Left = {}
    BY <1>1, <1>4 DEF OutboxInit, Left, NoPull
<1>6. down \in DownRec /\ down.at = "rest" /\ down.placed = {} /\ down.todo = {}
    BY <1>4, <1>5 DEF NoPull, DownRec, DownSteps, Got
<1>7. PullInv /\ PlacedInv
    BY <1>5, <1>6 DEF PullInv, PlacedInv
<1>8. home = [c \in Chats |-> [log |-> NoLog, cli |-> 0, his |-> FALSE]]
    BY <1>1 DEF OutboxInit
<1>9. \A c \in Chats : home[c] = [log |-> NoLog, cli |-> 0, his |-> FALSE]
    BY <1>8
<1>10. HomeInv
    BY <1>2, <1>8, <1>9 DEF HomeInv, HomeRec, HomeWithItsSession
<1>11. ListInv
    BY <1>1, <1>5, <1>6 DEF OutboxInit, ListInv
<1> QED BY <1>3, <1>7, <1>10, <1>11 DEF DownInv

\* What a step of the server may do to a log.
LogsGrow ==
    \A c \in Chats : /\ log[c].cli <= log'[c].cli
                     /\ Started(c) => Started(c)'
                     /\ c \in locked /\ ~Open(c) => log'[c] = log[c] /\ ~Open(c)'

LEMMA Grows ==
    DownInv /\ ServeInv' /\ LogsGrow /\ UNCHANGED << acked, locked, home, down, ack >>
    => DownInv'
<1> SUFFICES ASSUME DownInv, ServeInv', LogsGrow,
                    UNCHANGED << acked, locked, home, down, ack >>
             PROVE  DownInv'
    OBVIOUS
<1>1. PullInv'
    <2>1. Left' = Left
        BY DEF Left
    <2>2. ASSUME down.at = "hashes"
          PROVE  /\ Started(down.chat)'
                 /\ down.got.log.cli <= log'[down.chat].cli
        <3>1. /\ down.chat \in Chats /\ Started(down.chat) /\ down.got \in [log : LogRec]
              /\ down.got.log.cli <= log[down.chat].cli
            BY <2>2 DEF DownInv, PullInv
        <3>2. /\ log[down.chat] \in LogRec /\ log'[down.chat] \in LogRec
              /\ down.got.log \in LogRec
            BY <3>1 DEF DownInv, ServeInv
        <3>3. Started(down.chat)' /\ log[down.chat].cli <= log'[down.chat].cli
            BY <3>1 DEF LogsGrow, Started
        <3> QED BY <3>1, <3>2, <3>3 DEF LogRec
    <2> QED BY <2>1, <2>2 DEF DownInv, PullInv, Started
<1>2. PlacedInv' /\ HomeInv'
    BY DEF DownInv, PlacedInv, HomeInv, HomeWithItsSession
<1>3. ListInv'
    BY DEF DownInv, ListInv, LogsGrow, Left, Started
<1> QED BY <1>1, <1>2, <1>3 DEF DownInv

\* A record goes to a log that is open, and opens none.
LEMMA RecordStep ==
    ASSUME DownInv, NEW c \in Chats, Open(c), Record(c), cli' = cli,
           {turn', asked', sending'} \subseteq Chats \cup {NoChat},
           \A d \in Chats : Open(d)' => Open(d)
    PROVE  ServeInv' /\ LogsGrow
<1>1. PICK l : l = [n |-> log[c].n + 1, cli |-> cli[c]]
    OBVIOUS
<1>2. log[c] \in LogRec /\ cli[c] \in Nat /\ log[c].cli <= cli[c]
    BY DEF DownInv, ServeInv
<1>3. l \in LogRec /\ l.n = log[c].n + 1 /\ l.cli = cli[c]
    BY <1>1, <1>2 DEF LogRec
<1>4. log' = [log EXCEPT ![c] = l]
    BY <1>1 DEF Record
<1>5. \A d \in Chats : log'[d] = IF d = c THEN l ELSE log[d]
    BY <1>4 DEF DownInv, ServeInv
<1>6. log' \in [Chats -> LogRec]
    BY <1>3, <1>4 DEF DownInv, ServeInv
<1>7. l.n # 0 /\ l.n > 0 /\ log[c].cli <= l.cli
    BY <1>2, <1>3 DEF LogRec
<1>8. ServeInv'
    BY <1>2, <1>3, <1>5, <1>6, <1>7 DEF DownInv, ServeInv
<1>9. LogsGrow
    BY <1>5, <1>7 DEF LogsGrow, Started, DownInv, ServeInv, LogRec
<1> QED BY <1>8, <1>9

\* A chat begun holds no record yet, so no list names it.
LEMMA BeginStep ==
    ASSUME DownInv, NEW c \in Chats, ~Started(c), NEW l \in LogRec, l.n > 0, NEW v \in Nat,
           l.cli <= v,
           log' = [log EXCEPT ![c] = l], cli' = [cli EXCEPT ![c] = v],
           turn' = turn, sending' \in {sending, c}, asked' \in {asked, c}
    PROVE  ServeInv' /\ LogsGrow
<1>1. /\ \A d \in Chats : /\ log'[d] = IF d = c THEN l ELSE log[d]
                          /\ cli'[d] = IF d = c THEN v ELSE cli[d]
      /\ log' \in [Chats -> LogRec] /\ cli' \in [Chats -> Nat]
    BY DEF DownInv, ServeInv
<1>2. log[c] \in LogRec /\ log[c].n = 0 /\ log[c].cli = 0 /\ l.cli \in Nat /\ l.n # 0
    BY DEF Started, DownInv, ServeInv, LogRec
<1>3. ServeInv'
    BY <1>1, <1>2 DEF DownInv, ServeInv
<1>4. c \notin locked
    BY DEF DownInv, ListInv
<1>5. \A d \in Chats : Open(d)' => Open(d) \/ d = c
    BY DEF Open
<1>6. LogsGrow
    BY <1>1, <1>2, <1>4, <1>5 DEF LogsGrow, Started, DownInv, ServeInv, LogRec
<1> QED BY <1>3, <1>6

LEMMA ServeStep == DownInv /\ Serve => DownInv' /\ LogsGrow
<1> SUFFICES ASSUME DownInv, Serve PROVE DownInv' /\ LogsGrow
    OBVIOUS
<1>1. ASSUME UNCHANGED << log, acked, locked, home, down, ack >>, cli' \in [Chats -> Nat],
             \A c \in Chats : cli[c] <= cli'[c],
             {turn', asked', sending'} \subseteq Chats \cup {NoChat},
             \A c \in Chats : Open(c)' => Open(c) \/ c \notin locked
      PROVE  DownInv' /\ LogsGrow
    <2>1. ServeInv'
        BY <1>1 DEF DownInv, ServeInv, LogRec
    <2>2. LogsGrow
        BY <1>1 DEF LogsGrow, Started, DownInv, ServeInv, LogRec
    <2> QED BY <1>1, <2>1, <2>2, Grows
<1>0. {turn, asked, sending} \subseteq Chats \cup {NoChat} /\ NoChat \notin Chats
    BY SyncAssumption DEF DownInv, ServeInv
<1>u. cli \in [Chats -> Nat] /\ \A c \in Chats : cli[c] <= cli[c]
    BY DEF DownInv, ServeInv
<1>2. CASE Claim
    <2>1. /\ sending \in Chats /\ Record(sending) /\ turn' = sending /\ sending' = NoChat
          /\ UNCHANGED << cli, asked, acked, locked, home, down, ack >>
        BY <1>0, <1>2 DEF Claim
    <2>2. Open(sending) /\ \A c \in Chats : Open(c)' => Open(c)
        BY <1>0, <2>1 DEF Open
    <2>3. {turn', asked', sending'} \subseteq Chats \cup {NoChat}
        BY <1>0, <2>1
    <2> QED BY <2>1, <2>2, <2>3, RecordStep, Grows
<1>3. CASE TurnEnds
    <2>1. /\ turn \in Chats /\ Record(turn) /\ turn' = NoChat
          /\ UNCHANGED << cli, asked, sending, acked, locked, home, down, ack >>
        BY <1>0, <1>3 DEF TurnEnds
    <2>2. Open(turn) /\ \A c \in Chats : Open(c)' => Open(c)
        BY <1>0, <2>1 DEF Open
    <2>3. {turn', asked', sending'} \subseteq Chats \cup {NoChat}
        BY <1>0, <2>1
    <2> QED BY <2>1, <2>2, <2>3, RecordStep, Grows
<1>4. CASE Refused \/ LoadLog
    <2>1. {turn', asked', sending'} \subseteq Chats \cup {NoChat}
        BY <1>0, <1>4 DEF Refused, LoadLog
    <2>2. \A c \in Chats : Open(c)' => Open(c) \/ c \notin locked
        BY <1>0, <1>4 DEF Refused, LoadLog, Open
    <2>3. UNCHANGED << log, cli, acked, locked, home, down, ack >>
        BY <1>4 DEF Refused, LoadLog
    <2> QED BY <1>1, <1>u, <2>1, <2>2, <2>3
<1>5. CASE CliWrites
    <2>1. turn \in Chats /\ cli[turn] \in Nat /\ cli' = [cli EXCEPT ![turn] = cli[turn] + 1]
        BY <1>5 DEF CliWrites, DownInv, ServeInv
    <2>2. cli' \in [Chats -> Nat] /\ \A c \in Chats : cli[c] <= cli'[c]
        BY <2>1 DEF DownInv, ServeInv
    <2>3. UNCHANGED << log, turn, asked, sending, acked, locked, home, down, ack >>
        BY <1>5 DEF CliWrites
    <2> QED BY <1>0, <1>1, <2>2, <2>3 DEF Open
<1>6. ASSUME NEW c \in Chats, NewChat(c) PROVE DownInv' /\ LogsGrow
    <2>1. PICK l : l = [n |-> 1, cli |-> 0]
        OBVIOUS
    <2>2. /\ ~Started(c) /\ log' = [log EXCEPT ![c] = l] /\ sending' = c
          /\ UNCHANGED << cli, turn, asked, acked, locked, home, down, ack >>
        BY <1>6, <2>1 DEF NewChat
    <2>3. l \in LogRec /\ l.n > 0 /\ l.cli = 0
        BY <2>1 DEF LogRec
    <2>4. cli[c] \in Nat /\ l.cli <= cli[c] /\ cli' = [cli EXCEPT ![c] = cli[c]]
        BY <2>2, <2>3 DEF DownInv, ServeInv
    <2> QED BY <2>2, <2>3, <2>4, BeginStep, Grows
<1>7. ASSUME NEW c \in Chats, NEW d \in Chats, Fork(c, d) PROVE DownInv' /\ LogsGrow
    <2>1. PICK l : l = [n |-> log[c].n, cli |-> cli[c]]
        OBVIOUS
    <2>2. /\ ~Started(d) /\ log' = [log EXCEPT ![d] = l] /\ cli' = [cli EXCEPT ![d] = cli[c]]
          /\ c \in acked /\ asked' = d
          /\ UNCHANGED << turn, sending, acked, locked, home, down, ack >>
        BY <1>7, <2>1 DEF Fork
    <2>3. Started(c) /\ log[c] \in LogRec /\ cli[c] \in Nat
        BY <2>2 DEF DownInv, ListInv, ServeInv
    <2>4. l \in LogRec /\ l.n > 0 /\ l.cli = cli[c] /\ l.cli <= cli[c]
        BY <2>1, <2>3 DEF LogRec, Started
    <2> QED BY <2>2, <2>3, <2>4, BeginStep, Grows
<1>8. ASSUME NEW c \in Chats, SendMore(c) PROVE DownInv' /\ LogsGrow
    <2>1. /\ asked' = c /\ UNCHANGED << log, cli, turn, sending, acked, locked, home, down, ack >>
        BY <1>8 DEF SendMore
    <2> QED BY <1>0, <1>1, <1>u, <2>1 DEF Open
<1>9. ASSUME NEW c \in Chats, GoesOn(c) PROVE DownInv' /\ LogsGrow
    <2>1. /\ home[c].log # NoLog /\ home' = [home EXCEPT ![c].his = TRUE]
          /\ UNCHANGED << log, cli, turn, asked, sending, acked, locked, down, ack >>
        BY <1>9 DEF GoesOn
    <2>2. home' \in [Chats -> HomeRec]
          /\ \A d \in Chats : /\ home'[d].log = home[d].log /\ home'[d].cli = home[d].cli
                              /\ home'[d].his = (d = c \/ home[d].his)
        BY <2>1 DEF DownInv, HomeInv, HomeRec
    <2>3. HomeInv'
        BY <2>1, <2>2 DEF DownInv, HomeInv, HomeWithItsSession
    <2>4. PlacedInv'
        BY <2>1, <2>2 DEF DownInv, PullInv, PlacedInv, Left, DownRec, Entries
    <2>5. ServeInv' /\ PullInv' /\ ListInv'
        BY <2>1 DEF DownInv, ServeInv, PullInv, ListInv, Left, Started
    <2>6. LogsGrow
        BY <2>1 DEF LogsGrow, DownInv, ServeInv, LogRec, Started, Open
    <2> QED BY <2>3, <2>4, <2>5, <2>6 DEF DownInv
<1> QED BY <1>2, <1>3, <1>4, <1>5, <1>6, <1>7, <1>8, <1>9 DEF Serve, ServeNext

\* What a step of the pull may do to a chat at home.
HomeStays ==
    \A c \in Chats : /\ home[c].log # NoLog => home'[c].log = home[c].log
                     /\ home[c].cli # 0 => home'[c].cli = home[c].cli
                     /\ home[c].his => home'[c].his

\* Steps of the pull that place nothing.
LEMMA PullOnly ==
    DownInv /\ PullInv' /\ PlacedInv' /\ ListInv' /\ UNCHANGED << serveVars, home >>
    => DownInv' /\ HomeStays
BY DEF serveVars, DownInv, ServeInv, HomeInv, HomeWithItsSession, HomeStays

LEMMA ListSteps ==
    ASSUME DownInv,
           OpenOutbox \/ Listed \/ PullDone \/ HashCli
               \/ \E c \in Chats : HashLog(c) \/ GetLog(c)
    PROVE  DownInv' /\ HomeStays
<1>0. /\ down \in DownRec /\ down.entries \in Entries /\ Left \subseteq Chats
      /\ Left = DOMAIN down.entries
    BY DEF DownInv, PullInv, DownRec, Left, Entries
<1>1. CASE OpenOutbox
    <2>0. /\ << >> \in Entries /\ DOMAIN << >> = {} /\ << >> \in Got
        BY DEF Entries, Got
    <2>1. /\ << >> \in Entries /\ DOMAIN << >> = {} /\ << >> \in Got
          /\ acked \subseteq Chats /\ {c \in Chats : Started(c)} \subseteq Chats
        BY <2>0 DEF DownInv, ListInv
    <2>2. NoPull \in DownRec /\ NoPull.entries = << >> /\ NoPull.placed = {}
        BY <2>1 DEF NoPull, DownRec, DownSteps
    <2>3. down' = [[[NoPull EXCEPT !.at = "lists"] EXCEPT !.todo = {c \in Chats : Started(c)}]
                      EXCEPT !.seen = acked]
        BY <1>1 DEF OpenOutbox
    <2>4. /\ down' \in DownRec /\ down'.at = "lists" /\ down'.entries = << >>
          /\ down'.placed = {} /\ down'.todo = {c \in Chats : Started(c)}
        BY <2>1, <2>2, <2>3 DEF DownRec, DownSteps
    <2>5. Left' = {}
        BY <2>1, <2>4 DEF Left
    <2>6. UNCHANGED << serveVars, acked, locked, home, ack >>
        BY <1>1 DEF OpenOutbox
    <2>7. PullInv' /\ PlacedInv'
        BY <2>4, <2>5 DEF PullInv, PlacedInv
    <2>8. ListInv'
        BY <2>4, <2>5, <2>6 DEF DownInv, ListInv, Started, serveVars
    <2> QED BY <2>6, <2>7, <2>8, PullOnly
<1>2. CASE Listed
    <2>1. /\ down' = [down EXCEPT !.at = "pulls"]
          /\ UNCHANGED << serveVars, acked, locked, home, ack >>
        BY <1>2 DEF Listed
    <2>2. /\ down' \in DownRec /\ down'.at = "pulls" /\ down'.entries = down.entries
          /\ down'.placed = down.placed /\ down'.todo = down.todo
        BY <1>0, <2>1 DEF DownRec, DownSteps
    <2>3. PullInv' /\ PlacedInv' /\ ListInv'
        BY <2>1, <2>2 DEF DownInv, PullInv, PlacedInv, ListInv, Left, Started, serveVars
    <2> QED BY <2>1, <2>3, PullOnly
<1>3. CASE PullDone
    <2>1. down' = NoPull /\ UNCHANGED << serveVars, acked, locked, home, ack >>
        BY <1>3 DEF PullDone
    <2>2. /\ << >> \in Entries /\ DOMAIN << >> = {} /\ << >> \in Got
        BY DEF Entries, Got
    <2>3. /\ down' \in DownRec /\ down'.at = "rest" /\ down'.entries = << >>
          /\ down'.placed = {} /\ down'.todo = {}
        BY <2>1, <2>2 DEF NoPull, DownRec, DownSteps
    <2>4. Left' = {}
        BY <2>2, <2>3 DEF Left
    <2>5. PullInv' /\ PlacedInv' /\ ListInv'
        BY <2>1, <2>3, <2>4 DEF DownInv, PullInv, PlacedInv, ListInv, Started, serveVars
    <2> QED BY <2>1, <2>5, PullOnly
<1>4. CASE HashCli
    <2>1. PICK c : c = down.chat
        OBVIOUS
    <2>2. PICK e : e = [log |-> down.got.log, cli |-> CliOf(c)]
        OBVIOUS
    <2>3. PICK all : all = [x \in Left \cup {c} |-> IF x = c THEN e ELSE down.entries[x]]
        OBVIOUS
    <2>4. /\ down.at = "hashes"
          /\ down' = [[down EXCEPT !.at = "lists"] EXCEPT !.entries = all]
          /\ UNCHANGED << serveVars, acked, locked, home, ack >>
        BY <1>0, <1>4, <2>1, <2>2, <2>3 DEF HashCli
    <2>5. /\ c \in Chats /\ Started(c) /\ down.got \in [log : LogRec]
          /\ down.got.log.cli <= log[c].cli
        BY <2>1, <2>4 DEF DownInv, PullInv
    <2>6. log[c] \in LogRec /\ cli[c] \in Nat /\ log[c].cli <= cli[c] /\ down.got.log \in LogRec
        BY <2>5 DEF DownInv, ServeInv
    <2>7. e \in Pair /\ e.log.cli <= e.cli
        BY <2>2, <2>5, <2>6 DEF Pair, LogRec, CliOf
    <2>8. \A x \in Left : down.entries[x] \in Pair
        BY <1>0 DEF Entries
    <2>9. all \in [Left \cup {c} -> Pair] /\ all \in Entries /\ DOMAIN all = Left \cup {c}
        <3>1. all \in [Left \cup {c} -> Pair]
            BY <2>3, <2>7, <2>8
        <3>2. Left \cup {c} \in SUBSET Chats
            BY <1>0, <2>5
        <3> QED BY <3>1, <3>2 DEF Entries
    <2>10. /\ down' \in DownRec /\ down'.at = "lists" /\ down'.entries = all
           /\ down'.placed = down.placed /\ down'.todo = down.todo
        BY <1>0, <2>4, <2>9 DEF DownRec, DownSteps
    <2>11. Left' = Left \cup {c}
        BY <2>9, <2>10 DEF Left
    <2>12. \A x \in Left' : down'.entries[x].log.cli <= down'.entries[x].cli
        BY <2>3, <2>7, <2>10, <2>11 DEF DownInv, PullInv
    <2>13. PullInv' /\ PlacedInv'
        BY <2>10, <2>12 DEF PullInv, PlacedInv
    <2>14. ListInv'
        BY <2>4, <2>5, <2>10, <2>11 DEF DownInv, ListInv, Started, serveVars
    <2> QED BY <2>4, <2>13, <2>14, PullOnly
<1>5. ASSUME NEW c \in Chats, HashLog(c) PROVE DownInv' /\ HomeStays
    <2>1. down.at = "lists" /\ c \in down.todo /\ UNCHANGED << serveVars, acked, locked, home, ack >>
        BY <1>5 DEF HashLog
    <2>2. PICK rest : rest = down.todo \ {c}
        OBVIOUS
    <2>3. rest \subseteq down.todo /\ rest \in SUBSET Chats /\ Started(c)
        BY <1>0, <2>1, <2>2 DEF DownRec, DownInv, ListInv
    <2>4. CASE LeftOut(c)
        <3>1. down' = [down EXCEPT !.todo = rest]
            BY <1>5, <2>2, <2>4 DEF HashLog
        <3>2. /\ down' \in DownRec /\ down'.at = "lists" /\ down'.entries = down.entries
              /\ down'.placed = down.placed /\ down'.todo = rest
            BY <1>0, <2>1, <2>3, <3>1 DEF DownRec
        <3>3. PullInv' /\ PlacedInv' /\ ListInv'
            BY <2>1, <2>3, <3>2 DEF DownInv, PullInv, PlacedInv, ListInv, Left, Started, serveVars
        <3> QED BY <2>1, <3>3, PullOnly
    <2>5. CASE ~LeftOut(c)
        <3>1. PICK g : g = [log |-> log[c]]
            OBVIOUS
        <3>2. down' = [[[[down EXCEPT !.at = "hashes"] EXCEPT !.todo = rest] EXCEPT !.chat = c]
                          EXCEPT !.got = g]
            BY <1>5, <2>2, <2>5, <3>1 DEF HashLog
        <3>3. log[c] \in LogRec /\ g \in [log : LogRec] /\ g.log = log[c] /\ g \in Got
            BY <3>1 DEF DownInv, ServeInv, Got
        <3>4. /\ down' \in DownRec /\ down'.at = "hashes" /\ down'.entries = down.entries
              /\ down'.placed = down.placed /\ down'.todo = rest
              /\ down'.chat = c /\ down'.got = g
            BY <1>0, <2>3, <3>2, <3>3 DEF DownRec, DownSteps
        <3>5. g.log.cli <= log[c].cli
            BY <3>3 DEF LogRec
        <3>6. log' = log /\ Started(c)'
            BY <2>1, <2>3 DEF Started, serveVars
        <3>7. PullInv' /\ PlacedInv' /\ ListInv'
            BY <2>1, <2>3, <3>3, <3>4, <3>5, <3>6
            DEF DownInv, PullInv, PlacedInv, ListInv, Left, Started
        <3> QED BY <2>1, <3>7, PullOnly
    <2> QED BY <2>4, <2>5
<1>6. ASSUME NEW c \in Chats, GetLog(c) PROVE DownInv' /\ HomeStays
    <2>1. PICK g : g = [log |-> log[c]]
        OBVIOUS
    <2>2. /\ c \in Left
          /\ down' = [[[down EXCEPT !.at = "cli"] EXCEPT !.chat = c] EXCEPT !.got = g]
          /\ UNCHANGED << serveVars, acked, locked, home, ack >>
        BY <1>6, <2>1 DEF GetLog
    <2>3. g \in [log : LogRec] /\ g \in Got
        BY <2>1 DEF DownInv, ServeInv, Got
    <2>4. /\ down' \in DownRec /\ down'.at = "cli" /\ down'.entries = down.entries
          /\ down'.placed = down.placed /\ down'.todo = down.todo
          /\ down'.chat = c /\ down'.got = g
        BY <1>0, <2>2, <2>3 DEF DownRec, DownSteps
    <2>5. PullInv' /\ PlacedInv' /\ ListInv'
        BY <2>2, <2>3, <2>4 DEF DownInv, PullInv, PlacedInv, ListInv, Left, Started, serveVars
    <2> QED BY <2>2, <2>5, PullOnly
<1> QED BY <1>1, <1>2, <1>3, <1>4, <1>5, <1>6

LEMMA GetCliStep ==
    ASSUME DownInv, GetCli
    PROVE  DownInv' /\ HomeStays
<1>1. PICK c : c = down.chat
    OBVIOUS
<1>2. PICK g : g = [log |-> down.got.log,
                    cli |-> IF down.entries[c].cli = 0 THEN 0 ELSE CliOf(c)]
    OBVIOUS
<1>3. /\ down.at = "cli"
      /\ down' = [[down EXCEPT !.at = "places"] EXCEPT !.got = g]
      /\ UNCHANGED << serveVars, acked, locked, home, ack >>
    BY <1>1, <1>2 DEF GetCli
<1>4. down \in DownRec /\ c \in Left /\ c \in Chats /\ down.got.log \in LogRec
    BY <1>1, <1>3 DEF DownInv, PullInv, ListInv
<1>5. g \in Pair /\ g \in Got
    BY <1>2, <1>4 DEF Pair, Got, CliOf, DownInv, ServeInv
<1>6. /\ down' \in DownRec /\ down'.at = "places" /\ down'.entries = down.entries
      /\ down'.placed = down.placed /\ down'.todo = down.todo
      /\ down'.chat = c /\ down'.got = g
    BY <1>1, <1>3, <1>4, <1>5 DEF DownRec, DownSteps
<1>7. PullInv' /\ PlacedInv' /\ ListInv'
    BY <1>3, <1>4, <1>5, <1>6 DEF DownInv, PullInv, PlacedInv, ListInv, Left, Started, serveVars
<1> QED BY <1>3, <1>7, PullOnly

\* Dealing with a chat takes it off the list.
LEMMA PastStep ==
    ASSUME DownInv, NEW c \in Left, NEW placed \in BOOLEAN, down' = Past(c, placed),
           UNCHANGED << serveVars, acked, locked, ack >>
    PROVE  PullInv' /\ PlacedInv' /\ ListInv'
<1>1. PICK all : all = [x \in Left \ {c} |-> down.entries[x]]
    OBVIOUS
<1>2. PICK named : named = IF placed THEN down.placed \cup {c} ELSE down.placed
    OBVIOUS
<1>3. down' = [[[down EXCEPT !.at = "pulls"] EXCEPT !.entries = all] EXCEPT !.placed = named]
    BY <1>1, <1>2 DEF Past
<1>4. down \in DownRec /\ down.entries \in Entries /\ Left \subseteq Chats
    BY DEF DownInv, PullInv, DownRec, Left, Entries
<1>5. \A x \in Left : down.entries[x] \in Pair
    BY <1>4 DEF Entries, Left
<1>6. all \in Entries /\ DOMAIN all = Left \ {c}
    <2>1. all \in [Left \ {c} -> Pair]
        BY <1>1, <1>5
    <2>2. Left \ {c} \in SUBSET Chats
        BY <1>4
    <2> QED BY <1>1, <2>1, <2>2 DEF Entries
<1>7. named \in SUBSET Chats
    BY <1>2, <1>4 DEF DownRec
<1>8. /\ down' \in DownRec /\ down'.at = "pulls" /\ down'.entries = all
      /\ down'.placed = named /\ down'.todo = down.todo
    BY <1>3, <1>4, <1>6, <1>7 DEF DownRec, DownSteps
<1>9. Left' = Left \ {c}
    BY <1>6, <1>8 DEF Left
<1>10. \A x \in Left' : down'.entries[x].log.cli <= down'.entries[x].cli
    BY <1>1, <1>8, <1>9 DEF DownInv, PullInv
<1>11. PullInv' /\ PlacedInv'
    BY <1>8, <1>10 DEF PullInv, PlacedInv
<1>12. ListInv'
    BY <1>2, <1>8, <1>9 DEF DownInv, ListInv, Started, serveVars
<1> QED BY <1>11, <1>12

LEMMA PlaceCliStep ==
    ASSUME DownInv, PlaceCli
    PROVE  DownInv' /\ HomeStays
<1>1. PICK c : c = down.chat
    OBVIOUS
<1>2. PICK g : g = down.got
    OBVIOUS
<1>3. PICK fits : fits = (/\ AsListed(c)
                          /\ g.cli = 0 \/ MayPlace(home[c].cli, 0, home[c].his, g.cli))
    OBVIOUS
<1>4. /\ down.at = "places"
      /\ home' = IF fits /\ g.cli # 0
                 THEN [home EXCEPT ![c].cli = g.cli,
                                   ![c].his = home[c].his /\ home[c].cli = 0]
                 ELSE home
      /\ down' = IF fits THEN [down EXCEPT !.at = "log"] ELSE Past(c, FALSE)
      /\ UNCHANGED << serveVars, acked, locked, ack >>
    BY <1>1, <1>2, <1>3 DEF PlaceCli
<1>5. down \in DownRec /\ c \in Left /\ c \in Chats /\ g \in Pair /\ home[c] \in HomeRec
    BY <1>1, <1>2, <1>4 DEF DownInv, PullInv, ListInv, HomeInv
<1>6. CASE ~fits
    <2>1. home' = home /\ down' = Past(c, FALSE)
        BY <1>4, <1>6
    <2>2. PullInv' /\ PlacedInv' /\ ListInv'
        BY <1>4, <1>5, <2>1, PastStep
    <2> QED BY <1>4, <2>1, <2>2, PullOnly
<1>7. CASE fits
    <2>1. down' = [down EXCEPT !.at = "log"]
        BY <1>4, <1>7
    <2>2. /\ down' \in DownRec /\ down'.at = "log" /\ down'.entries = down.entries
          /\ down'.placed = down.placed /\ down'.todo = down.todo
          /\ down'.chat = c /\ down'.got = g
        BY <1>1, <1>2, <1>5, <2>1 DEF DownRec, DownSteps
    <2>3. g = down.entries[c] /\ g.log.cli <= g.cli
        BY <1>2, <1>3, <1>5, <1>7 DEF AsListed, DownInv, PullInv
    <2>4. PullInv' /\ ListInv'
        BY <1>4, <1>5, <2>2 DEF DownInv, PullInv, ListInv, Left, Started, serveVars
    <2>5. CASE g.cli = 0
        <3>1. home' = home
            BY <1>4, <2>5
        <3>2. PlacedInv'
            BY <2>2, <2>3, <2>5 DEF PlacedInv
        <3> QED BY <1>4, <2>4, <3>1, <3>2, PullOnly
    <2>6. CASE g.cli # 0
        <3>1. home[c].cli = 0 \/ (home[c].cli = g.cli /\ ~home[c].his)
            BY <1>3, <1>7, <2>6 DEF MayPlace
        <3>2. PICK h : h = [[home[c] EXCEPT !.cli = g.cli]
                                EXCEPT !.his = home[c].his /\ home[c].cli = 0]
            OBVIOUS
        <3>3. /\ h \in HomeRec /\ h.log = home[c].log /\ h.cli = g.cli
              /\ h.his = (home[c].his /\ home[c].cli = 0)
            BY <1>5, <3>2 DEF HomeRec, Pair
        <3>4. home' = [home EXCEPT ![c] = h]
            BY <1>4, <1>7, <2>6, <3>2 DEF DownInv, HomeInv
        <3>5. /\ home' \in [Chats -> HomeRec]
              /\ \A d \in Chats : home'[d] = IF d = c THEN h ELSE home[d]
            BY <3>3, <3>4 DEF DownInv, HomeInv
        <3>6. home[c].log.cli <= home[c].cli /\ home[c].log.cli \in Nat /\ g.cli \in Nat
            BY <1>5 DEF DownInv, HomeInv, HomeWithItsSession, HomeRec, LogRec, Pair, NoLog
        <3>7. h.log.cli <= h.cli
            BY <3>1, <3>3, <3>6
        <3>8. HomeInv'
            BY <3>3, <3>5, <3>7 DEF DownInv, HomeInv, HomeWithItsSession
        <3>9. HomeStays
            BY <3>1, <3>3, <3>5 DEF HomeStays, DownInv, HomeInv, HomeRec
        <3>10. PlacedInv'
            BY <1>5, <2>2, <2>3, <3>3, <3>5 DEF PlacedInv
        <3>11. ServeInv'
            BY <1>4 DEF DownInv, ServeInv, serveVars
        <3> QED BY <2>4, <3>8, <3>9, <3>10, <3>11 DEF DownInv
    <2> QED BY <2>5, <2>6
<1> QED BY <1>6, <1>7

LEMMA PlaceLogStep ==
    ASSUME DownInv, PlaceLog
    PROVE  DownInv' /\ HomeStays
<1>1. PICK c : c = down.chat
    OBVIOUS
<1>2. PICK g : g = down.got
    OBVIOUS
<1>3. PICK fits \in BOOLEAN : fits = MayPlace(home[c].log, NoLog, home[c].his, g.log)
    BY DEF MayPlace
<1>4. /\ down.at = "log"
      /\ home' = IF fits THEN [home EXCEPT ![c].log = g.log, ![c].his = FALSE] ELSE home
      /\ down' = Past(c, fits)
      /\ UNCHANGED << serveVars, acked, locked, ack >>
    BY <1>1, <1>2, <1>3 DEF PlaceLog
<1>5. c \in Left /\ c \in Chats /\ g \in Pair /\ home[c] \in HomeRec
    BY <1>1, <1>2, <1>4 DEF DownInv, PullInv, ListInv, HomeInv
<1>6. PullInv' /\ PlacedInv' /\ ListInv'
    BY <1>4, <1>5, PastStep
<1>7. CASE ~fits
    BY <1>4, <1>6, <1>7, PullOnly
<1>8. CASE fits
    <2>1. home[c].log = NoLog \/ (home[c].log = g.log /\ ~home[c].his)
        BY <1>3, <1>8 DEF MayPlace
    <2>2. PICK h : h = [[home[c] EXCEPT !.log = g.log] EXCEPT !.his = FALSE]
        OBVIOUS
    <2>3. h \in HomeRec /\ h.log = g.log /\ h.cli = home[c].cli /\ ~h.his
        BY <1>5, <2>2 DEF HomeRec, Pair
    <2>4. home' = [home EXCEPT ![c] = h]
        BY <1>4, <1>8, <2>2 DEF DownInv, HomeInv
    <2>5. /\ home' \in [Chats -> HomeRec]
          /\ \A d \in Chats : home'[d] = IF d = c THEN h ELSE home[d]
        BY <2>3, <2>4 DEF DownInv, HomeInv
    <2>6. /\ g.log.cli <= g.cli /\ g.log.cli \in Nat /\ g.cli \in Nat /\ home[c].cli \in Nat
          /\ g.cli # 0 => home[c].cli = g.cli
        BY <1>1, <1>2, <1>4, <1>5 DEF DownInv, PlacedInv, Pair, LogRec, HomeRec
    <2>7. h.log.cli <= h.cli
        BY <2>3, <2>6
    <2>8. ~home[c].his
        BY <1>5, <2>1 DEF DownInv, HomeInv
    <2>9. HomeInv'
        BY <2>3, <2>5, <2>7 DEF DownInv, HomeInv, HomeWithItsSession
    <2>10. HomeStays
        BY <2>1, <2>3, <2>5, <2>8 DEF HomeStays
    <2>11. ServeInv'
        BY <1>4 DEF DownInv, ServeInv, serveVars
    <2> QED BY <1>6, <2>9, <2>10, <2>11 DEF DownInv
<1> QED BY <1>7, <1>8

LEMMA Forgotten ==
    NoPull \in DownRec /\ NoPull.at = "rest" /\ DOMAIN NoPull.entries = {}
    /\ NoPull.placed = {} /\ NoPull.todo = {}
<1>1. << >> \in Entries /\ DOMAIN << >> = {} /\ << >> \in Got
    BY DEF Entries, Got
<1> QED BY <1>1 DEF NoPull, DownRec, DownSteps

LEMMA AckSteps ==
    ASSUME DownInv, Ack \/ AckListed
    PROVE  DownInv' /\ HomeStays
<1>1. down \in DownRec /\ UNCHANGED << serveVars, home >>
    BY DEF DownInv, PullInv, Ack, AckListed
<1>2. PICK p : p = [down EXCEPT !.at = "acks"]
    OBVIOUS
<1>3. /\ p \in DownRec /\ p.at = "acks" /\ p.entries = down.entries
      /\ p.placed = down.placed /\ p.todo = down.todo
    BY <1>1, <1>2 DEF DownRec, DownSteps
<1>4. down' \in {down, NoPull, p}
    BY <1>2 DEF Ack, AckListed
<1>5. PullInv' /\ PlacedInv'
    BY <1>1, <1>3, <1>4, Forgotten
    DEF DownInv, PullInv, PlacedInv, Left, Started, serveVars
<1>6. /\ Left' \subseteq Left /\ down'.placed \subseteq down.placed
      /\ down'.todo \subseteq down.todo
    BY <1>3, <1>4, Forgotten DEF Left
<1>7. /\ acked' \subseteq locked' /\ ack' \subseteq locked'
      /\ locked' \subseteq locked \cup down.placed
    BY DEF Ack, AckListed, DownInv, ListInv
<1>8. ListInv'
    BY <1>1, <1>6, <1>7 DEF DownInv, ListInv, Started, serveVars
<1> QED BY <1>1, <1>5, <1>8, PullOnly

LEMMA PullStep == DownInv /\ Pull => DownInv' /\ LogsGrow /\ HomeStays
<1> SUFFICES ASSUME DownInv, Pull PROVE DownInv' /\ LogsGrow /\ HomeStays
    OBVIOUS
<1>1. PullNext /\ UNCHANGED serveVars
    BY DEF Pull, PullNext, OpenOutbox, HashLog, HashCli, Listed, GetLog, GetCli,
           PlaceCli, PlaceLog, PullDone, Ack, AckListed
<1>2. DownInv' /\ HomeStays
    BY <1>1, ListSteps, GetCliStep, PlaceCliStep, PlaceLogStep, AckSteps DEF PullNext
<1>3. LogsGrow
    BY <1>1 DEF serveVars, LogsGrow, Started, DownInv, ServeInv, LogRec, Open
<1> QED BY <1>2, <1>3

LEMMA DownStep == DownInv /\ [Next]_vars => DownInv' /\ LogsGrow /\ HomeStays
<1> SUFFICES ASSUME DownInv, [Next]_vars PROVE DownInv' /\ LogsGrow /\ HomeStays
    OBVIOUS
<1>1. CASE UNCHANGED downVars
    BY <1>1 DEF downVars, DownInv, ServeInv, PullInv, PlacedInv, HomeInv, ListInv, Left, Started,
                HomeWithItsSession, LogsGrow, HomeStays, LogRec, Open
<1>2. CASE Pull
    BY <1>2, PullStep
<1>3. CASE Serve
    <2>1. HomeStays
        BY <1>3 DEF Serve, ServeNext, LoadLog, Claim, Refused, CliWrites, TurnEnds, NewChat, SendMore,
                    Fork, GoesOn, HomeStays, DownInv, HomeInv, HomeRec
    <2> QED BY <1>3, <2>1, ServeStep
<1>4. CASE MacStops \/ ServerDies
    <2>1. /\ down' = NoPull /\ UNCHANGED << log, cli, acked, locked, home >>
          /\ ack' = ack \/ ack' = {}
          /\ turn' = turn \/ turn' = NoChat
          /\ asked' \in {asked, NoChat} /\ sending' \in {sending, NoChat}
        BY <1>4 DEF MacStops, ServerDies, serveVars
    <2>2. Left' = {}
        BY <2>1, Forgotten DEF Left
    <2>3. ServeInv' /\ HomeInv'
        BY <2>1 DEF DownInv, ServeInv, HomeInv, HomeWithItsSession
    <2>4. PullInv' /\ PlacedInv'
        BY <2>1, <2>2, Forgotten DEF PullInv, PlacedInv
    <2>5. ListInv'
        BY <2>1, <2>2, Forgotten DEF DownInv, ListInv, Started
    <2>6. \A c \in Chats : Open(c)' => Open(c)
        BY <2>1, SyncAssumption DEF Open
    <2>7. LogsGrow /\ HomeStays
        BY <2>1, <2>6 DEF LogsGrow, HomeStays, Started, DownInv, ServeInv, LogRec
    <2> QED BY <2>3, <2>4, <2>5, <2>7 DEF DownInv
<1>5. CASE Push
    BY <1>1, <1>5 DEF Push
<1>6. CASE His
    BY <1>1, <1>6 DEF His
<1>7. CASE UNCHANGED vars
    BY <1>1, <1>7 DEF vars
<1> QED BY <1>2, <1>3, <1>4, <1>5, <1>6, <1>7 DEF Next

\* A log never lies at home without the Claude Code file it names: the listing
\* hashes the log first, and the pull places it last (pull.rs, place).
THEOREM LogsComeWithTheirSessions == Spec => []HomeWithItsSession
<1>1. DownInv => HomeWithItsSession
    BY DEF DownInv, HomeInv
<1> QED BY <1>1, DownStart, DownStep, PTL DEF Spec

\* What came home is never replaced (place_new), and a chat on the acked list
\* that no send and no turn has open is never opened or written on the server
\* again (needs_fork, and the load of a log that set_read_only locked).
THEOREM BothEndsStand == Spec => StandsAtBothEnds
<1>1. DownInv /\ [Next]_vars
      => [\A c \in Chats :
             /\ home[c].log # NoLog => home'[c].log = home[c].log
             /\ home[c].cli # 0 => home'[c].cli = home[c].cli
             /\ home[c].his => home'[c].his]_downVars
    BY DownStep DEF HomeStays
<1>2. DownInv /\ [Next]_vars
      => [\A c \in acked : ~Open(c) => log'[c] = log[c] /\ ~Open(c)']_downVars
    <2> SUFFICES ASSUME DownInv, [Next]_vars, NEW c \in acked, ~Open(c)
                 PROVE  log'[c] = log[c] /\ ~Open(c)'
        OBVIOUS
    <2>1. c \in locked /\ c \in Chats
        BY DEF DownInv, ListInv
    <2> QED BY <2>1, DownStep DEF LogsGrow
<1> QED BY <1>1, <1>2, DownStart, DownStep, PTL
        DEF Spec, StandsAtBothEnds, NeverOverwritten, AckedStandsStill

=============================================================================
