---------------------------- MODULE Instructions ----------------------------
(***************************************************************************)
(* Memory: the always-loaded file (AGENTS.md), which he edits and a dream  *)
(* replaces by its own proposal, with the copy from before kept for a      *)
(* Revert (proposal.rs, apply_turns_proposal in dream.rs, centre.rs).      *)
(*                                                                         *)
(* A text is who wrote it and a number.                                    *)
(***************************************************************************)
EXTENDS Naturals, FiniteSets

CONSTANTS MaxEdits,     \* bound on his edits
          MaxProposals  \* bound on proposals

VARIABLES
    file,      \* the text of the file
    his,       \* the text he last left there
    edits,     \* his edits so far
    made,      \* proposals made so far
    pending,   \* those waiting, by number
    copies,    \* the copies from before: number and text
    applied,   \* records of what dreams wrote
    draft      \* the dream's turn: what it was shown, and how far it applied

insVars == << file, his, edits, made, pending, copies, applied, draft >>

HisText(n)   == << "his", n >>
DreamText(n) == << "dream", n >>

NoDraft == [at |-> "none"]

InsInit ==
    /\ file = HisText(0) /\ his = HisText(0) /\ edits = 0
    /\ made = 0 /\ pending = {} /\ copies = {} /\ applied = {}
    /\ draft = NoDraft

-----------------------------------------------------------------------------
(* He.                                                                     *)

EditFile ==
    /\ edits < MaxEdits
    /\ edits' = edits + 1
    /\ file' = HisText(edits + 1) /\ his' = HisText(edits + 1)
    /\ UNCHANGED << made, pending, copies, applied, draft >>

Dismiss(x) ==
    /\ x \in pending
    /\ pending' = pending \ {x}
    /\ UNCHANGED << file, his, edits, made, copies, applied, draft >>

\* Mutant: what he wrote since is not looked at.
UntouchedAnyway(x) == TRUE

\* The file is still the text the dream wrote.
Untouched(x) == file = DreamText(x.id)

Revert(x) ==
    /\ x \in applied /\ ~x.reverted /\ Untouched(x)
    /\ file' = x.before
    /\ applied' = (applied \ {x}) \cup {[x EXCEPT !.reverted = TRUE]}
    /\ UNCHANGED << his, edits, made, pending, copies, draft >>

-----------------------------------------------------------------------------
(* The dream's turn.                                                       *)

\* The file is quoted, and what was pending before the turn is noted.
Quote == draft' = [at |-> "turn", quoted |-> file, before |-> pending]

Fresh == pending \ draft.before

\* A second call in one turn replaces the first; the second look has a slot
\* of its own.
Propose ==
    LET x == [id |-> made + 1, quoted |-> draft.quoted] IN
    /\ draft.at = "turn" /\ made < MaxProposals
    /\ made' = made + 1
    /\ pending' \in {pending \cup {x}, (pending \ Fresh) \cup {x}}
    /\ UNCHANGED << file, his, edits, copies, applied, draft >>

UnchangedSinceQuoted == file = draft.quoted

\* The turn completed.  Of what it proposed the newest counts and the rest
\* is dismissed; a screened one stays pending for him.
Consider ==
    /\ draft.at = "turn"
    /\ \/ /\ Fresh = {} \/ ~UnchangedSinceQuoted
          /\ draft' = [at |-> "done"]
          /\ UNCHANGED pending
       \/ /\ Fresh # {} /\ UnchangedSinceQuoted
          /\ \E x \in Fresh :
                /\ \A y \in Fresh : y.id <= x.id
                /\ pending' = (pending \ Fresh) \cup {x}
                /\ draft' \in {[at |-> "done"], [at |-> "copies", x |-> x]}
    /\ UNCHANGED << file, his, edits, made, copies, applied >>

KeepCopy == copies' = copies \cup {[id |-> draft.x.id, text |-> file]}

CopyBefore ==
    /\ draft.at = "copies" /\ draft.x \in pending
    /\ KeepCopy
    /\ draft' = [at |-> "replaces", x |-> draft.x, before |-> file]
    /\ UNCHANGED << file, his, edits, made, pending, applied >>

\* He dismissed it in between.
NotThere ==
    /\ draft.at = "copies" /\ draft.x \notin pending
    /\ draft' = [at |-> "done"]
    /\ UNCHANGED << file, his, edits, made, pending, copies, applied >>

Replace ==
    /\ draft.at = "replaces"
    /\ file' = DreamText(draft.x.id)
    /\ draft' = [draft EXCEPT !.at = "records"]
    /\ UNCHANGED << his, edits, made, pending, copies, applied >>

\* The record is written where it goes, then the pending one is removed.
RecordApplied ==
    /\ draft.at = "records"
    /\ applied' = applied \cup {[id |-> draft.x.id, quoted |-> draft.x.quoted,
                                 before |-> draft.before, reverted |-> FALSE]}
    /\ draft' = [draft EXCEPT !.at = "removes"]
    /\ UNCHANGED << file, his, edits, made, pending, copies >>

RemovePending ==
    /\ draft.at = "removes"
    /\ pending' = pending \ {draft.x}
    /\ draft' = [at |-> "done"]
    /\ UNCHANGED << file, his, edits, made, copies, applied >>

ApplyStep == Consider \/ CopyBefore \/ NotThere \/ Replace \/ RecordApplied \/ RemovePending

-----------------------------------------------------------------------------

InsTypeOK ==
    /\ his \in {HisText(n) : n \in 0..MaxEdits}
    /\ file \in {his} \cup {DreamText(n) : n \in 1..MaxProposals} \cup {c.text : c \in copies}
    /\ \A x, y \in applied : x.id = y.id => x = y

\* What he last wrote is in the file or in a copy from before a dream.
WordsKept == his = file \/ his \in {c.text : c \in copies}

\* Every text a dream wrote was written against the text it replaced.
WrittenAgainst == \A x \in applied : x.before = x.quoted

=============================================================================
