---------------------------- MODULE MCDeskSwitches ---------------------------
(* Instances of DeskSwitches for TLC.                                      *)
EXTENDS DeskSwitches

CONSTANTS a, b

MCRegistry == <<a, b>>
MCOf == [d \in Desk |-> a]
=============================================================================
