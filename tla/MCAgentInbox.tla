---------------------------- MODULE MCAgentInbox ----------------------------
(* Small instances of AgentInbox for TLC.                                  *)
EXTENDS AgentInbox

\* One message with everything that may happen to it, two messages with every
\* cancel answered late or in time.
All == { {"slow", "stops", "dies", "resumes"}, {"slow", "more"}, {} }

Slow == { {"slow"} }
Stopped == { {"stops"} }
Silent == { {"resumes"} }
Dead == { {"dies"} }

=============================================================================
