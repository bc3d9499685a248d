------------------------------- MODULE MCTurn -------------------------------
(* Small instances of Turn for TLC.                                        *)
EXTENDS Turn

Tools == [read  |-> "read_only", write |-> "mutating",
          compact_context |-> "session", todo_write |-> "session"]

\* Reads beside each other, around a write and around a name nobody
\* registered; text before and after a call.
RoundReplies ==
    { << >>, << "text" >>, << "thinking" >>,
      << "read", "read", "write" >>,
      << "write", "read", "read" >>,
      << "read", "write", "read" >>,
      << "compact_context" >>,
      << "thinking", "text", "no_such_tool", "read" >> }

\* What the end of a turn looks at: the flag, the list and the reply.
EndReplies ==
    { << "text" >>, << "compact_context" >>, << "text", "compact_context", "todo_write" >> }

\* One turn of full rounds, and two turns of short ones.
Both == << [replies |-> RoundReplies, turns |-> 1], [replies |-> EndReplies, turns |-> 2] >>

Short == << [replies |-> EndReplies, turns |-> 1] >>

=============================================================================
