---------------------------- MODULE MCGatePolicy ----------------------------
(* Instances of GatePolicy for TLC.                                         *)
EXTENDS GatePolicy, TLC

CONSTANTS r1, r2, r3, a1

Plain == [gate |-> "absent", approvals |-> "some", people |-> None]
NamedPeople == [gate |-> "absent", approvals |-> "none", people |-> {a1}]
ForeignCheck == [gate |-> "foreign", approvals |-> "zero", people |-> {}]

\* The gate ruleset a profile starts with.
Old(body) == [id |-> 1, body |-> body]

Shape(c, o, g) == [classic |-> c, other |-> o, gate |-> g]

\* Classic only; classic with a ruleset (its approvals fail the verification);
\* rulesets only, with and without a gate ruleset; nothing (skipped); a
\* classic check of another app next to a bound gate ruleset.
MCProfiles ==
  {Shape(Plain, FALSE, None), Shape(NamedPeople, FALSE, None), Shape(Plain, TRUE, None),
   Shape(None, TRUE, None), Shape(None, FALSE, Old("unbound")), Shape(None, FALSE, None),
   Shape(ForeignCheck, FALSE, Old("bound"))}

\* Fewer shapes, for the run with several repositories.
MCFleetProfiles ==
  {Shape(NamedPeople, FALSE, None), Shape(Plain, TRUE, None), Shape(None, FALSE, Old("unbound")),
   Shape(ForeignCheck, FALSE, Old("bound"))}

\* The repositories of the plan are interchangeable, the one outside is not.
ScopeSymmetry == Permutations(Scope)
=============================================================================
