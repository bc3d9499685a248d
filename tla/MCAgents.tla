------------------------------ MODULE MCAgents ------------------------------
(* Small instances of Agents for TLC: commands are interchangeable, and so *)
(* are chats when none is on disk.                                         *)
EXTENDS Agents, TLC

Held == { {"careful", "calm", "list", "rail", "behind"},
          {"careful", "calm", "rail", "warm"},
          {"careful", "delete", "rail", "behind"},
          {"careful", "list", "rail"} }

Careful == { {"careful", "rail"} }

Free == { {"list", "rail"} }

Symmetry == Permutations(Commands) \cup Permutations(Ids)

CommandSymmetry == Permutations(Commands)
=============================================================================
