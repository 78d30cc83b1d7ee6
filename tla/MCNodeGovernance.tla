-------------------------- MODULE MCNodeGovernance --------------------------
(* Instances of NodeGovernance for TLC.                                     *)
EXTENDS NodeGovernance, TLC

Setup(interactive, apply, remote) ==
  [kind |-> "setup", interactive |-> interactive, apply |-> apply, remote |-> remote]
Standalone ==
  [kind |-> "standalone", interactive |-> FALSE, apply |-> TRUE, remote |-> TRUE]
Status == [kind |-> "status", interactive |-> FALSE, apply |-> FALSE, remote |-> TRUE]

MCArgs == {Setup(TRUE, FALSE, TRUE), Setup(FALSE, TRUE, FALSE), Standalone, Status}

Either == Permutations(Commands)

MCTypes == {"deletion", "non_fast_forward", "pull_request"}

Protection(exists, ruleTypes) == [exists |-> exists, rules |-> ruleTypes]

\* No classic protection, one of every rule, one without reviews.
MCClassics == {Protection(FALSE, {}), Protection(TRUE, MCTypes),
               Protection(TRUE, {"deletion", "non_fast_forward"})}

Owned(reserved, inForce, plain, ruleTypes) ==
  [reserved |-> reserved, inForce |-> inForce, plain |-> plain, rules |-> ruleTypes]

\* The owner's: one of another name, one that is disabled though it has the
\* reserved name, and one that is the baseline.
MCOwnRulesets == {Owned(FALSE, TRUE, TRUE, {"deletion"}),
                  Owned(TRUE, FALSE, TRUE, MCTypes),
                  Owned(TRUE, TRUE, TRUE, MCTypes)}
=============================================================================
