------------------------------ MODULE MCChats ------------------------------
(***************************************************************************)
(* Chats for TLC: commands are interchangeable, and so are the chats that  *)
(* were not made yet.                                                      *)
(***************************************************************************)
EXTENDS Chats, TLC

\* Commands that overlap at the files, chats deleted, and chats renamed; and no
\* deletes, with one command at the files at a time.
Ways == { {"send", "open", "delete", "overlap"},
          {"send", "open", "title", "overlap"},
          {"send", "open", "title", "more"} }

\* A rename while its chat is opened.
Renames == { {"open", "title", "overlap"} }

\* A delete while its chat is opened, and while a message is on its way to it.
Deletes == { {"open", "send", "delete", "overlap"} }

Symmetry == Permutations(Commands \ Extra) \cup Permutations(Ids \ OnDisk)
=============================================================================
