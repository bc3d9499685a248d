------------------------------ MODULE MCServe ------------------------------
(* Uses of the phone for the runs of Serve. *)
EXTENDS Serve

CONSTANTS a, b

MCUses == {{}}
MCElsewhere == {{"elsewhere"}}
MCListed == {{"listed"}}
MCLate == {{"late"}}
MCSlow == {{"slow"}}
MCAll == {{"delete", "rename"}}
=============================================================================
