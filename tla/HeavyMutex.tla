----------------------------- MODULE HeavyMutex -----------------------------
(***************************************************************************)
(* What scripts/run_heavy_command.py promises: at most one heavy command   *)
(* per HQ run id at any time on this host.  Nothing is said of leases,     *)
(* wrappers or their deaths.                                               *)
(***************************************************************************)
CONSTANTS Runs, Jobs

VARIABLE heavy   \* heavy[r]: the heavy commands running for the run id r

Init == heavy = [r \in Runs |-> {}]

Start(r, j) ==
  /\ heavy[r] = {}
  /\ heavy' = [heavy EXCEPT ![r] = {j}]

End(r) ==
  /\ heavy[r] # {}
  /\ heavy' = [heavy EXCEPT ![r] = {}]

Next == \E r \in Runs : End(r) \/ \E j \in Jobs : Start(r, j)

Spec == Init /\ [][Next]_heavy
=============================================================================
