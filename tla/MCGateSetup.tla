------------------------------ MODULE MCGateSetup ------------------------------
(* Instances of GateSetup for TLC.                                          *)
EXTENDS GateSetup
===============================================================================
