---------------------------- MODULE RepairPipeline ----------------------------
(***************************************************************************)
(* What docs/REPAIR_PIPELINE.md promises of one run, as a relay: one role  *)
(* at a time works, on the product of the one before it; only a review can *)
(* end the relay with a verdict, a request for changes sends it back to    *)
(* the repair, and a run that ended stays as it ended.                     *)
(***************************************************************************)

CONSTANT None

VARIABLES
  worker,   \* the role that works now, or None
  product   \* what the run has come to

Verdicts == {"approved", "blocked", "invalid_candidate"}
Products == {"request", "candidate", "result", "changes"} \cup Verdicts

Needs == [scout |-> {"request"}, repair |-> {"candidate", "changes"}, review |-> {"result"}]
Gives == [scout |-> {"candidate"}, repair |-> {"result"}, review |-> {"changes"} \cup Verdicts]
Roles == DOMAIN Needs

Init == worker = None /\ product = "request"

Start(role) ==
  /\ worker = None
  /\ product \in Needs[role]
  /\ worker' = role
  /\ UNCHANGED product

Deliver(role) ==
  /\ worker = role
  /\ worker' = None
  /\ product' \in Gives[role]

\* The run is given up.
Stop ==
  /\ product \notin Verdicts
  /\ worker' = None
  /\ product' = "blocked"

Next == Stop \/ \E role \in Roles : Start(role) \/ Deliver(role)

Spec == Init /\ [][Next]_<<worker, product>>
===============================================================================
