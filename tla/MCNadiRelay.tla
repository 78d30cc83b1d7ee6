------------------------------ MODULE MCNadiRelay ------------------------------
(* Instances of NadiRelay for TLC.                                          *)
EXTENDS NadiRelay
===============================================================================
