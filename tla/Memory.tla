------------------------------- MODULE Memory -------------------------------
(***************************************************************************)
(* Memory as a whole: chats, captures, the inbox, dreams and the file they *)
(* may rewrite, with passes of several processes stopped or dying          *)
(* anywhere.                                                               *)
(***************************************************************************)
EXTENDS Observations, Instructions

CONSTANTS Settings,   \* what may happen, one set of these per setting
          MaxFaults   \* bound on passes that end early

AllMay == {"two",      \* two processes start passes, else one
           "logs",     \* two chats, else one
           "tool",     \* remember is called while passes run
           "defer",    \* a capture leaves short logs for later
           "fault",    \* a pass is stopped, fails or dies
           "tear",     \* ... between a payload and its newline
           "propose",  \* dreams propose, he edits, dismisses and reverts
           "window"}   \* he saves while the dream replaces the file

ASSUME MemoryAssumption ==
    /\ \A s \in Settings : s \subseteq AllMay
    /\ Processes # {} /\ Logs # {}
    /\ NoProcess \notin Processes

VARIABLES may,      \* the setting of this behaviour
          faults    \* passes that ended early

vars == << obsVars, insVars, may, faults >>

Init == /\ may \in Settings /\ faults = 0 /\ ObsInit /\ InsInit

One(S) == CHOOSE x \in S : TRUE

He ==
    \/ (\E l \in IF "logs" \in may THEN Logs ELSE {One(Logs)} : Says(l)) /\ UNCHANGED << insVars, may, faults >>
    \/ /\ "propose" \in may
       /\ \/ \E x \in pending : Dismiss(x)
          \/ /\ "window" \in may \/ draft.at \notin {"copies", "replaces"}
             /\ EditFile \/ \E x \in applied : Revert(x)
       /\ UNCHANGED << obsVars, may, faults >>

Tool ==
    /\ "tool" \in may
    /\ \E r \in Tools : Remember(r) \/ RememberEnds(r)
    /\ UNCHANGED << insVars, may, faults >>

TakeFor(kind) ==
    /\ \E p \in IF "two" \in may THEN Processes ELSE {One(Processes)} : Take(p, kind)
    /\ UNCHANGED << insVars, may, faults >>

Capture ==
    /\ \E p \in Processes :
          \/ CaptureStep(p)
          \/ "defer" \in may /\ \E l \in Logs : Defer(p, l)
    /\ UNCHANGED << insVars, may, faults >>

\* A group's turn: it is shown the file, files, then writes the file.
Dream ==
    /\ \E p \in Processes :
          \/ (ReadBacklog(p) \/ TurnFiles(p) \/ Advance(p)) /\ UNCHANGED insVars
          \/ /\ StartGroup(p) /\ Quote
             /\ UNCHANGED << file, his, edits, made, pending, copies, applied >>
          \/ /\ "propose" \in may /\ at[p] = "turn" /\ Propose /\ UNCHANGED obsVars
          \/ at[p] = "filed" /\ ApplyStep /\ UNCHANGED obsVars
          \/ /\ draft.at = "done" /\ GroupDone(p) /\ draft' = NoDraft
             /\ UNCHANGED << file, his, edits, made, pending, copies, applied >>
    /\ UNCHANGED << may, faults >>

\* What its turn had is gone; files stay as they are.
Fault ==
    /\ "fault" \in may /\ faults < MaxFaults
    /\ \E p \in Processes : Ends(p) /\ (at[p] = "newline" => "tear" \in may)
    /\ draft' = NoDraft
    /\ faults' = faults + 1
    /\ UNCHANGED << file, his, edits, made, pending, copies, applied, may >>

Next == He \/ Tool \/ TakeFor("capture") \/ TakeFor("dream") \/ Capture \/ Dream \/ Fault

\* A pass that began goes on, and passes of each kind are begun again and
\* again: the desktop runs them by itself.
Spec ==
    /\ Init /\ [][Next]_vars
    /\ WF_vars(Capture) /\ WF_vars(Dream)
    /\ SF_vars(TakeFor("capture")) /\ SF_vars(TakeFor("dream"))

-----------------------------------------------------------------------------

\* The type invariant of both halves.
TypeOK == ObsTypeOK /\ InsTypeOK /\ may \in Settings /\ faults \in 0..MaxFaults

\* Nothing that was said is passed over, neither on its way to the inbox nor
\* on its way from there.
NothingPassedOver == NothingUnseen /\ ConsumedIsFiled

\* The always-loaded file is his: his words are in it or in a copy, and a dream
\* replaces only what it quoted.
InstructionsStayHis == WordsKept /\ WrittenAgainst

\* While no pass ends early, nothing is observed or filed twice, whichever
\* processes start passes at once (pass_lock.rs: "every observation
\* consolidated twice").
OnceEach ==
    faults = 0 =>
        /\ \A i \in DOMAIN filed : filed[i] <= 1
        /\ \A l \in Logs : \A n \in 1..chat[l] : Cardinality(SeenOf(l, n)) <= 1

\* Everything said is filed in the end, however many passes ended early, as
\* long as no two writes of the inbox meet on one line.
EverythingFiled ==
    may \cap {"tool", "defer", "tear"} = {} =>
        \A l \in Logs : \A n \in 1..MaxLines :
            chat[l] >= n ~> \E i \in SeenOf(l, n) \cap 1..(Len(inbox) - 1) : filed[i + 1] > 0

=============================================================================
