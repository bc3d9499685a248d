---------------------------- MODULE MCSessionLog ----------------------------
(* Small instances of SessionLog for TLC.                                  *)
EXTENDS SessionLog

RoundReplies == { << "text" >>, << "tool_use", "tool_use" >> }

HandleReplies == { << "reasoning_ref", "tool_use", "text" >>,
                   << "narrative", "tool_use" >> }

PlainReplies == { << "text" >> }

=============================================================================
