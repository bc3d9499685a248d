------------------------------ MODULE SavedLog ------------------------------
(***************************************************************************)
(* What a session log on disk promises: the events a process recorded, a   *)
(* correctly numbered prefix of which a later process finds.  Saving may   *)
(* stop, a process may die, a saved event may become unreadable; none of   *)
(* these moves an event to another position.                               *)
(***************************************************************************)
EXTENDS Integers, Sequences

CONSTANTS
    Events,    \* what can be recorded
    Unread     \* an event whose line no longer reads

VARIABLES
    saved,     \* what a load would find
    memory,    \* what the running process holds
    process    \* "down", "saving" or "sealed"

savedVars == << saved, memory, process >>

\* The same event, or one that no longer reads.
Reads(a, b) == a = b \/ a = Unread

\* s reads as the first events of t.
NumberedPrefix(s, t) ==
    Len(s) <= Len(t) /\ \A i \in DOMAIN s : Reads(s[i], t[i])

SavedInit == saved = << >> /\ memory = << >> /\ process = "saving"

\* An event reaches the disk before the process holds it.
Save(e) ==
    /\ process = "saving" /\ Len(saved) = Len(memory)
    /\ saved' = Append(saved, e)
    /\ UNCHANGED << memory, process >>

Hold(e) ==
    /\ process = "saving" /\ Len(saved) = Len(memory) + 1
    /\ Reads(saved[Len(saved)], e)
    /\ memory' = Append(memory, e)
    /\ UNCHANGED << saved, process >>

\* The first event that cannot be saved is held, and nothing is saved after.
SealWith(e) ==
    /\ process = "saving"
    /\ \/ Len(saved) = Len(memory)
       \/ Len(saved) = Len(memory) + 1 /\ Reads(saved[Len(saved)], e)
    /\ memory' = Append(memory, e)
    /\ process' = "sealed"
    /\ UNCHANGED saved

HoldUnsaved(e) ==
    /\ process = "sealed"
    /\ memory' = Append(memory, e)
    /\ UNCHANGED << saved, process >>

Die ==
    /\ process # "down"
    /\ process' = "down" /\ memory' = << >>
    /\ UNCHANGED saved

Restart ==
    /\ process = "down"
    /\ process' = "saving" /\ memory' = saved
    /\ UNCHANGED saved

Spoil(i) ==
    /\ saved' = [saved EXCEPT ![i] = Unread]
    /\ UNCHANGED << memory, process >>

SavedNext ==
    \/ \E e \in Events : Save(e) \/ Hold(e) \/ SealWith(e) \/ HoldUnsaved(e)
    \/ Die \/ Restart
    \/ \E i \in DOMAIN saved : Spoil(i)

SavedSpec == SavedInit /\ [][SavedNext]_savedVars

-----------------------------------------------------------------------------

\* What is on disk is a correctly numbered prefix of what the process holds,
\* one event ahead of it at most (WriteFailure, session.rs).
SavedIsPrefix ==
    process # "down" =>
        \/ NumberedPrefix(saved, memory)
        \/ /\ Len(saved) = Len(memory) + 1
           /\ \A i \in DOMAIN memory : Reads(saved[i], memory[i])

=============================================================================
