----------------------------- MODULE MCRecorder -----------------------------
(* Small instances of Recorder for TLC.                                    *)
EXTENDS Recorder

HandleReplies == { << "reasoning_ref", "tool_use", "text" >>,
                   << "narrative", "tool_use" >> }

Engines == { {"provider", "his"},
             {"agent", "children", "thinks"},
             {"agent", "his_words", "die"},
             {"agent", "his"} }

Steps == { {"agent", "children", "steps"} }

Early == { {"agent", "his_words", "early"} }

Again == { {"agent", "thinks", "again"} }

=============================================================================
