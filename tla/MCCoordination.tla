---------------------------- MODULE MCCoordination ----------------------------
(* Instances of Coordination for TLC.                                       *)
EXTENDS Coordination
===============================================================================
