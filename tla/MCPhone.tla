------------------------------ MODULE MCPhone ------------------------------
(* The same words twice, once with a file, for the runs of Phone. *)
EXTENDS Phone

CONSTANTS plain, photo

MCWords == [t \in {plain, photo} |-> "words"]

MCWorlds == {{}, {"refuses", "half", "forgets"}, {"refuses", "impatient"},
             {"late", "again", "swap"}, {"ahead"}, {"back"}, {"reload"}}
=============================================================================
