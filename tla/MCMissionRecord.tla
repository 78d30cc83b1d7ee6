--------------------------- MODULE MCMissionRecord ---------------------------
(* Instances of MissionRecord for TLC.                                      *)
EXTENDS MissionRecord, TLC

\* A first mission, and a second one that also has its signal; its contract may
\* forget that one.
MCProposals ==
  {[mission |-> "m1", signals |-> <<"s1">>, contract |-> {"s1"}],
   [mission |-> "m2", signals |-> <<"s2", "s1">>, contract |-> {"s1", "s2"}],
   [mission |-> "m2", signals |-> <<"s2", "s1">>, contract |-> {"s2"}]}

Either == Permutations(Branches) \cup Permutations(Runs)
=============================================================================
