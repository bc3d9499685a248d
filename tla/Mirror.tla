------------------------------- MODULE Mirror -------------------------------
(***************************************************************************)
(* Sync, up: the Mac's snapshot sent to the away server (sync/push.rs,     *)
(* manifest.rs, and SyncServer::apply_manifest and put in mirror.rs).  The *)
(* Mac sends the hashes of its files; the server drops what is no longer   *)
(* named and answers with what it lacks; those files follow one by one.    *)
(*                                                                         *)
(* A file's content is a version that only grows; 0 is no file.  The       *)
(* server writes a file and its index one after the other and may die in   *)
(* between.                                                                *)
(***************************************************************************)
EXTENDS Naturals, FiniteSets

CONSTANTS Files,       \* paths of the snapshot
          MaxVersion   \* bound on a file's versions

VARIABLES
    mine,     \* the Mac's files
    marked,   \* those it means to send: of a project available away
    disk,     \* the files under the server's mirror folder
    index,    \* what the server's index says of them
    up,       \* the Mac's pass: where it is, what it named, what it sends
    job       \* the request the server is half through

upVars == << mine, marked, disk, index, up, job >>

NoJob == [kind |-> "none"]

Nothing == [f \in Files |-> 0]

UpAt(where) == [up EXCEPT !.at = where]

Snapshot == [f \in Files |-> IF f \in marked THEN mine[f] ELSE 0]

MirrorInit(files) ==
    /\ mine = [f \in Files |-> IF f \in files THEN 1 ELSE 0]
    /\ marked = files
    /\ disk = Nothing /\ index = Nothing
    /\ up = [at |-> "rest", named |-> Nothing, need |-> {}, skipped |-> FALSE]
    /\ job = NoJob

-----------------------------------------------------------------------------
(* The Mac's files.                                                        *)

Edit(f) ==
    /\ mine[f] \in 1..(MaxVersion - 1)
    /\ mine' = [mine EXCEPT ![f] = @ + 1]
    /\ UNCHANGED << marked, disk, index, up, job >>

Mark(f) ==
    /\ mine[f] # 0
    /\ marked' = IF f \in marked THEN marked \ {f} ELSE marked \cup {f}
    /\ UNCHANGED << mine, disk, index, up, job >>

-----------------------------------------------------------------------------
(* The push.                                                               *)

\* Every file of the snapshot is hashed, then the manifest goes.
Collect ==
    /\ up.at = "rest"
    /\ up' = [at |-> "asks", named |-> Snapshot, need |-> {}, skipped |-> FALSE]
    /\ UNCHANGED << mine, marked, disk, index, job >>

\* Mutant: the index is believed of a file the disk lost.
IndexAsWritten == index

\* A copy the index names but the disk lost is not had.
Had == [f \in Files |-> IF disk[f] = 0 THEN 0 ELSE index[f]]

Gone(named, had) == {f \in Files : had[f] # 0 /\ named[f] = 0}

Changed(named, had) == {f \in Files : named[f] # 0 /\ had[f] # named[f]}

\* The copies no longer named are removed from the disk first.
ApplyManifest ==
    LET gone == Gone(up.named, Had) IN
    /\ up.at = "asks" /\ job = NoJob
    /\ disk' = [f \in Files |-> IF f \in gone THEN 0 ELSE disk[f]]
    /\ job' = [kind |-> "manifest",
               to |-> [f \in Files |-> IF f \in gone THEN 0 ELSE Had[f]],
               need |-> Changed(up.named, Had)]
    /\ up' = UpAt("waits")
    /\ UNCHANGED << mine, marked, index >>

\* The index is written and the Mac, if it still waits, gets its answer.
AnswerManifest ==
    /\ job.kind = "manifest"
    /\ index' = job.to
    /\ job' = NoJob
    /\ up' = IF up.at = "waits" THEN [UpAt("sends") EXCEPT !.need = job.need] ELSE up
    /\ UNCHANGED << mine, marked, disk >>

\* The file is whole under its name before the index says so.
PutFile(f, v) ==
    /\ disk' = [disk EXCEPT ![f] = v]
    /\ job' = [kind |-> "put", file |-> f, disk |-> v, index |-> v]
    /\ UNCHANGED index

\* A file asked for is read now, whatever it was when it was hashed.
Send(f) ==
    /\ up.at = "sends" /\ f \in up.need /\ job = NoJob
    /\ PutFile(f, mine[f])
    /\ up' = [UpAt("puts") EXCEPT !.need = @ \ {f}]
    /\ UNCHANGED << mine, marked >>

\* One that is gone from the Mac is left out, and the report says so.
SkipUnread(f) ==
    /\ up.at = "sends" /\ f \in up.need /\ f \notin marked
    /\ up' = [up EXCEPT !.need = @ \ {f}, !.skipped = TRUE]
    /\ UNCHANGED << mine, marked, disk, index, job >>

PutDone ==
    /\ job.kind = "put"
    /\ index' = [index EXCEPT ![job.file] = job.index]
    /\ disk' = [disk EXCEPT ![job.file] = job.disk]
    /\ job' = NoJob
    /\ up' = IF up.at = "puts" THEN UpAt("sends") ELSE up
    /\ UNCHANGED << mine, marked >>

PushDone ==
    /\ up.at = "sends" /\ up.need = {}
    /\ up' = UpAt("sent")
    /\ UNCHANGED << mine, marked, disk, index, job >>

PushNext ==
    \/ Collect \/ ApplyManifest \/ AnswerManifest \/ PutDone \/ PushDone
    \/ \E f \in Files : Send(f) \/ SkipUnread(f)

-----------------------------------------------------------------------------

UpTypeOK ==
    /\ mine \in [Files -> 0..MaxVersion] /\ marked \subseteq Files
    /\ disk \in [Files -> 0..MaxVersion] /\ index \in [Files -> 0..MaxVersion]
    /\ up.at \in {"rest", "asks", "waits", "sends", "puts", "sent"}
    /\ up.named \in [Files -> 0..MaxVersion] /\ up.need \subseteq Files
    /\ up.skipped \in BOOLEAN
    /\ job.kind \in {"none", "manifest", "put"}

\* The push went through, and nothing has changed on the Mac since it was
\* collected.
UpToDate == up.at = "sent" /\ ~up.skipped /\ up.named = Snapshot

\* A push that went through, with nothing changed on the Mac since it was
\* collected, leaves in the mirror just what the Mac has: whatever pushes
\* were cut short before it, and wherever the server died in one
\* (apply_manifest's "a copy the index names but the disk lost is not had",
\* put's file before its index).
MirrorHasTheMacs ==
    UpToDate => \A f \in marked : disk[f] = mine[f]

\* ... and nothing the Mac no longer names (mirror.rs: "he unmarks it and
\* the server's copy goes").
MirrorHasNoMore ==
    UpToDate => \A f \in Files \ marked : disk[f] = 0

=============================================================================
