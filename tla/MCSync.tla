------------------------------- MODULE MCSync -------------------------------
(* Small instances of Sync for TLC.                                        *)
EXTENDS Sync

Several == { {"push", "edit", "stop", "die"}, {"push", "edit", "stop"},
             {"push", "serve", "stop"}, {"serve", "two", "stop"},
             {"serve", "again", "home", "stop", "die"}, {"serve", "stop", "die", "fork"} }

Window == { {"serve", "again"} }

Dying == { {"push", "edit", "die"} }

=============================================================================
