---------------------------- MODULE MCHeavyLease ----------------------------
(* Instances of HeavyLease for TLC.                                         *)
EXTENDS HeavyLease, TLC

CONSTANTS w1, w2, w3, l1, l2

\* Run ids 1 and 2 are reduced to the same lock name, 3 has its own, and 4 is
\* rejected.
MCRuns == {"a1", "a 1", "b1", "../b"}
MCLockOf == [r \in MCRuns |-> CASE r \in {"a1", "a 1"} -> l1
                                [] r = "b1" -> l2
                                [] OTHER -> None]

\* Success, the codes that pytest shares with the wrapper, and a command killed
\* by SIGKILL: its return code is -9, and sys.exit leaves the wrapper with 247.
MCChildCodes == {0, BUSY, PRESSURED, 247}

WrapperSymmetry == Permutations(Wrappers)
=============================================================================
