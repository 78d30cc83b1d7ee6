---------------------------- MODULE MCReviewGate ----------------------------
(* Instances of ReviewGate for TLC.                                         *)
EXTENDS ReviewGate, TLC

CONSTANTS p1, p2, base, other

\* The two pull requests are alike.
PRSymmetry == Permutations(PRs)

\* The text of run id r1 begins that of r10.
TextPrefix == {<<r, r>> : r \in Runs} \cup {<<"r1", "r10">>}

\* The artifacts of a run of which a repair on head h was made and approved.
Approved(run, h) ==
  [manifest |-> base,
   candidate |-> [run |-> run, id |-> "a", baseline |-> base],
   repair |-> [run |-> run, candidate |-> "a", result |-> "a", repo |-> "hq", head |-> h,
               baseline |-> base],
   review |-> [run |-> run, candidate |-> "a", result |-> "a", repo |-> "hq", head |-> h,
               verdict |-> "approved", blockers |-> FALSE],
   later |-> FALSE]

\* The same sent back for changes, and reworked on another baseline under
\* another result id.
Rejected(run, h) ==
  [Approved(run, h) EXCEPT !.review.verdict = "other", !.review.blockers = TRUE]
Reworked(run, h) ==
  [Approved(run, h) EXCEPT !.candidate.baseline = other, !.repair.baseline = other,
                           !.repair.result = "b", !.review.result = "b", !.later = TRUE]
Unfinished(run) == [Approved(run, "h1") EXCEPT !.repair = None, !.review = None]
\* Two files as a writer leaves them that is cut short.
Torn(run) == [Approved(run, "h1") EXCEPT !.repair = Malformed, !.review = Malformed]

MCBundles ==
  {Approved("r1", "h1"), Rejected("r1", "h1"), Reworked("r1", "h1"), Unfinished("r1"),
   Torn("r1")}

\* Two runs that reviewed the same head.
TwoRuns == {Approved("r1", "h1"), Approved("r10", "h1")}
=============================================================================
