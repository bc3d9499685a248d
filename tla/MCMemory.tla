------------------------------ MODULE MCMemory ------------------------------
(* Small instances of Memory for TLC.                                      *)
EXTENDS Memory

Several == { {"logs", "fault"}, {"two", "fault"}, {"propose", "fault"},
             {"two", "tool", "defer", "fault", "tear"} }

Gluing == { {"tool"} }

Saving == { {"propose", "window"} }

=============================================================================
