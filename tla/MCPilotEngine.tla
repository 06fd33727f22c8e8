---------------------------- MODULE MCPilotEngine ----------------------------
(* Instances of PilotEngine for TLC.                                       *)
EXTENDS PilotEngine

CONSTANTS nifty, banknifty, s1

MCUnderlyings == <<nifty, banknifty>>
MCStrategies  == <<s1>>
MCResult      == {-3, 2}
=============================================================================
