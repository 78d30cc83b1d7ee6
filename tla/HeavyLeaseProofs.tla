-------------------------- MODULE HeavyLeaseProofs --------------------------
(* At most one heavy command per run id, for any number of wrappers.        *)
EXTENDS HeavyLease, TLAPS

\* The numbers the program answers are naturals, and no natural is None.
LEMMA Codes ==
  /\ {USAGE, BUSY, PRESSURED, INTERRUPTED} \subseteq Nat
  /\ \A code \in ChildCodes : code \in Nat
BY CodesAssumption DEF USAGE, BUSY, PRESSURED, INTERRUPTED

\* Closing one descriptor keeps the flock of everybody else, and of w itself
\* while another process has its description open; it gives the flock to nobody.
LEMMA CloseKeeps ==
  ASSUME TypeOK, NEW w \in Wrappers, NEW p \in Processes, Close(w, p)
  PROVE  /\ open' \in [Wrappers -> SUBSET Processes]
         /\ owner' \in [Locks -> Wrappers \cup {None}]
         /\ open'[w] = open[w] \ {p}
         /\ \A v \in Wrappers : v # w => open'[v] = open[v]
         /\ \A l \in Locks : owner[l] # w => owner'[l] = owner[l]
         /\ \A l \in Locks : owner'[l] # owner[l] => open'[w] = {} /\ owner'[l] = None
         /\ \A l \in Locks : owner'[l] = w => open'[w] # {}
<1> USE DEF TypeOK, Close
<1>1. open' \in [Wrappers -> SUBSET Processes] /\ owner' \in [Locks -> Wrappers \cup {None}]
  OBVIOUS
<1>2. open'[w] = open[w] \ {p} /\ \A v \in Wrappers : v # w => open'[v] = open[v]
  OBVIOUS
<1>3. \A l \in Locks :
        owner'[l] = IF owner[l] = w /\ open[w] \subseteq {p} THEN None ELSE owner[l]
  OBVIOUS
<1>4. \A l \in Locks : owner[l] # w => owner'[l] = owner[l]
  BY <1>3
<1>5. \A l \in Locks : owner'[l] # owner[l] => open'[w] = {} /\ owner'[l] = None
  BY <1>2, <1>3
<1>6. \A l \in Locks : owner'[l] = w => open'[w] # {}
  BY <1>2, <1>3, NoneAssumption
<1> QED
  BY <1>1, <1>2, <1>4, <1>5, <1>6

\* A live lease survives the end of a process that is not the last.
LEMMA CloseKeepsHeld ==
  ASSUME TypeOK, HeldByTheLiving, NEW w \in Wrappers, NEW p \in Processes, Close(w, p)
  PROVE  HeldByTheLiving'
<1> SUFFICES ASSUME NEW l \in Locks, owner'[l] # None
             PROVE  open'[owner'[l]] # {}
  BY DEF HeldByTheLiving
<1>1. owner'[l] = owner[l] /\ owner[l] \in Wrappers
  BY CloseKeeps DEF TypeOK
<1>2. CASE owner[l] = w
  BY <1>1, <1>2, CloseKeeps
<1>3. CASE owner[l] # w
  BY <1>1, <1>3, CloseKeeps DEF HeldByTheLiving
<1> QED
  BY <1>2, <1>3

\* What every way out of the wrapper preserves.
LEMMA ReturnKeeps ==
  ASSUME LeaseInv, NEW w \in Wrappers, NEW code \in Nat \cup {None}, pc[w] # "gone",
         Return(w, code), UNCHANGED <<run, child, status>>
  PROVE  LeaseInv'
<1> USE DEF LeaseInv
<1>0. Close(w, "wrapper") /\ "wrapper" \in Processes
  BY DEF Return, Processes
<1>1. TypeOK'
  BY <1>0, CloseKeeps DEF TypeOK, Return
<1>2. Descriptor'
  BY <1>0, CloseKeeps DEF Descriptor, TypeOK, Return
<1>3. Leased'
  <2> SUFFICES ASSUME NEW v \in Wrappers
               PROVE  /\ pc'[v] # "gone" \/ child'[v] => run'[v] \in Runs /\ LockOf[run'[v]] # None
                      /\ pc'[v] \in {"preflight", "launch", "wait"} \/ child'[v]
                           => owner'[LockOf[run'[v]]] = v
                      /\ child'[v] <=> "child" \in open'[v]
                      /\ pc'[v] \in {"open", "flock", "preflight", "launch"} => ~child'[v]
    BY DEF Leased
  <2>1. pc'[v] # "gone" => v # w /\ pc'[v] = pc[v]
    BY DEF Return, TypeOK
  <2>2. "child" \in open'[v] <=> "child" \in open[v]
    BY <1>0, CloseKeeps
  <2>3. ASSUME pc'[v] \in {"preflight", "launch", "wait"} \/ child'[v]
        PROVE  owner'[LockOf[run'[v]]] = v
    <3>1. owner[LockOf[run[v]]] = v /\ LockOf[run[v]] \in Locks
      BY <2>1, <2>3, LockOfAssumption DEF Leased
    <3>2. v # w \/ open'[w] # {}
      BY <2>1, <2>2, <2>3 DEF Leased
    <3> QED
      BY <1>0, <3>1, <3>2, CloseKeeps
  <2> QED
    BY <2>1, <2>2, <2>3 DEF Leased
<1>4. HeldByTheLiving'
  BY <1>0, CloseKeepsHeld
<1> QED
  BY <1>1, <1>2, <1>3, <1>4

\* The invariant: it says who has which descriptor open and that the flock
\* follows the descriptor (acquire_lock, main and the inherited descriptor).
THEOREM LeaseInvariant == Spec => []LeaseInv
<1>1. Init => LeaseInv
  BY NoneAssumption DEF Init, LeaseInv, TypeOK, Descriptor, Leased, HeldByTheLiving, Processes
<1>2. LeaseInv /\ [Next]_vars => LeaseInv'
  <2> SUFFICES ASSUME LeaseInv, [Next]_vars PROVE LeaseInv'
    OBVIOUS
  <2> USE DEF LeaseInv
  <2>0. CASE UNCHANGED vars
    BY <2>0 DEF vars, TypeOK, Descriptor, Leased, HeldByTheLiving
  <2>1. ASSUME NEW w \in Wrappers, Open(w) PROVE LeaseInv'
    <3>1. CASE Return(w, BUSY)
      BY <2>1, <3>1, ReturnKeeps, Codes DEF Open
    <3>2. CASE ~Return(w, BUSY)
      BY <2>1, <3>2 DEF Open, Goto, TypeOK, Descriptor, Leased, HeldByTheLiving, Processes
    <3> QED
      BY <3>1, <3>2
  <2>2. ASSUME NEW w \in Wrappers, Flock(w) PROVE LeaseInv'
    <3>1. CASE Return(w, BUSY)
      BY <2>2, <3>1, ReturnKeeps, Codes DEF Flock
    <3>2. CASE ~Return(w, BUSY)
      <4> DEFINE l == LockOf[run[w]]
      <4>1. /\ l \in Locks /\ owner[l] = None /\ owner' = [owner EXCEPT ![l] = w]
            /\ pc[w] = "flock" /\ pc' = [pc EXCEPT ![w] = "preflight"]
            /\ UNCHANGED <<open, run, child, status, exit>>
        BY <2>2, <3>2, LockOfAssumption DEF Flock, Goto, Leased
      <4>2. TypeOK' /\ Descriptor' /\ HeldByTheLiving'
        BY <4>1 DEF TypeOK, Descriptor, HeldByTheLiving
      <4>3. Leased'
        <5>1. \A v \in Wrappers : v # w /\ run[v] \in Runs /\ owner[LockOf[run[v]]] = v
                => owner'[LockOf[run[v]]] = v
          BY <4>1, NoneAssumption, LockOfAssumption DEF TypeOK
        <5> QED
          BY <4>1, <5>1 DEF Leased, TypeOK
      <4> QED
        BY <4>2, <4>3
    <3> QED
      BY <3>1, <3>2
  <2>3. ASSUME NEW w \in Wrappers, Preflight(w) PROVE LeaseInv'
    <3>1. CASE Return(w, PRESSURED)
      BY <2>3, <3>1, ReturnKeeps, Codes DEF Preflight
    <3>2. CASE ~Return(w, PRESSURED)
      BY <2>3, <3>2 DEF Preflight, Goto, TypeOK, Descriptor, Leased, HeldByTheLiving
    <3> QED
      BY <3>1, <3>2
  <2>4. ASSUME NEW w \in Wrappers, Launch(w) PROVE LeaseInv'
    <3>1. CASE UNCHANGED child /\ Return(w, USAGE)
      BY <2>4, <3>1, ReturnKeeps, Codes DEF Launch
    <3>2. CASE ~(UNCHANGED child /\ Return(w, USAGE))
      <4>1. /\ pc[w] = "launch" /\ pc' = [pc EXCEPT ![w] = "wait"]
            /\ child' = [child EXCEPT ![w] = TRUE]
            /\ open' = [open EXCEPT ![w] = @ \cup {"child"}]
            /\ UNCHANGED <<run, owner, status, exit>>
        BY <2>4, <3>2 DEF Launch, Goto
      <4>2. TypeOK' /\ Descriptor'
        BY <4>1 DEF TypeOK, Descriptor, Processes
      <4>3. Leased'
        BY <4>1 DEF TypeOK, Leased
      <4>4. HeldByTheLiving'
        BY <4>1 DEF TypeOK, HeldByTheLiving
      <4> QED
        BY <4>2, <4>3, <4>4
    <3> QED
      BY <3>1, <3>2
  <2>5. ASSUME NEW w \in Wrappers, Wait(w) \/ Interrupt(w) \/ Die(w) PROVE LeaseInv'
    BY <2>5, ReturnKeeps, Codes DEF Wait, Interrupt, Die, TypeOK
  <2>6. ASSUME NEW w \in Wrappers, Invoke(w) PROVE LeaseInv'
    BY <2>6, Codes DEF Invoke, TypeOK, Descriptor, Leased, HeldByTheLiving
  <2>7. ASSUME NEW w \in Wrappers, ChildExits(w) PROVE LeaseInv'
    <3>0. Close(w, "child") /\ "child" \in Processes
      BY <2>7 DEF ChildExits, Processes
    <3>1. TypeOK'
      BY <2>7, <3>0, CloseKeeps, Codes DEF ChildExits, TypeOK
    <3>2. Descriptor'
      BY <2>7, <3>0, CloseKeeps DEF ChildExits, Descriptor
    <3>3. Leased'
      <4>1. \A v \in Wrappers : child'[v] <=> "child" \in open'[v]
        BY <2>7, <3>0, CloseKeeps DEF ChildExits, Leased, TypeOK
      <4>2. ASSUME NEW v \in Wrappers, pc[v] \in {"preflight", "launch", "wait"} \/ child'[v]
            PROVE  owner'[LockOf[run[v]]] = v
        <5>1. owner[LockOf[run[v]]] = v /\ LockOf[run[v]] \in Locks
          BY <2>7, <4>2, LockOfAssumption DEF ChildExits, Leased, TypeOK
        <5>2. v # w \/ "wrapper" \in open'[w]
          BY <2>7, <3>0, <4>2, CloseKeeps DEF ChildExits, Descriptor, TypeOK
        <5> QED
          BY <3>0, <5>1, <5>2, CloseKeeps
      <4> QED
        BY <2>7, <4>1, <4>2 DEF ChildExits, Leased, TypeOK
    <3>4. HeldByTheLiving'
      BY <3>0, CloseKeepsHeld
    <3> QED
      BY <3>1, <3>2, <3>3, <3>4
  <2>8. ASSUME NEW w \in Wrappers, Spawn(w) PROVE LeaseInv'
    BY <2>8 DEF Spawn, TypeOK, Descriptor, Leased, HeldByTheLiving, Processes
  <2>9. ASSUME NEW w \in Wrappers, DescendantsEnd(w) PROVE LeaseInv'
    <3>0. Close(w, "descendants") /\ "descendants" \in Processes
      BY <2>9 DEF DescendantsEnd, Processes
    <3>1. TypeOK' /\ Descriptor' /\ HeldByTheLiving'
      BY <2>9, <3>0, CloseKeeps, CloseKeepsHeld DEF DescendantsEnd, TypeOK, Descriptor
    <3>2. Leased'
      <4>1. \A v \in Wrappers : "child" \in open'[v] <=> "child" \in open[v]
        BY <3>0, CloseKeeps
      <4>2. ASSUME NEW v \in Wrappers, pc[v] \in {"preflight", "launch", "wait"} \/ child[v]
            PROVE  owner'[LockOf[run[v]]] = v
        <5>1. owner[LockOf[run[v]]] = v /\ LockOf[run[v]] \in Locks
          BY <4>2, LockOfAssumption DEF Leased
        <5>2. v # w \/ open'[w] # {}
          BY <3>0, <4>2, CloseKeeps DEF Descriptor, Leased
        <5> QED
          BY <3>0, <5>1, <5>2, CloseKeeps
      <4> QED
        BY <2>9, <4>1, <4>2 DEF DescendantsEnd, Leased
    <3> QED
      BY <3>1, <3>2
  <2> QED
    BY <2>0, <2>1, <2>2, <2>3, <2>4, <2>5, <2>6, <2>7, <2>8, <2>9
    DEF Next, WrapperStep, Environment
<1> QED
  BY <1>1, <1>2, PTL DEF Spec

\* The state is well-typed: in particular every exit code the wrapper answers,
\* its own or its command's, is one of the program's (main).
THEOREM TypeCorrect == Spec => []TypeOK
<1>1. LeaseInv => TypeOK
  BY DEF LeaseInv
<1> QED
  BY <1>1, LeaseInvariant, PTL

\* While a heavy command runs its invocation has the flock, also after the
\* wrapper is gone (pass_fds).
THEOREM LeaseHeld == Spec => []LeaseOutlivesCommand
<1>1. LeaseInv => LeaseOutlivesCommand
  BY DEF LeaseInv, Leased, LeaseOutlivesCommand
<1> QED
  BY <1>1, LeaseInvariant, PTL

\* A flock is always in the hands of a live process: a lock file left behind
\* by the dead refuses nobody (acquire_lock).
THEOREM StaleLockHarmless == Spec => []HeldByTheLiving
<1>1. LeaseInv => HeldByTheLiving
  BY DEF LeaseInv
<1> QED
  BY <1>1, LeaseInvariant, PTL

\* The lease implements the abstract mutex: at most one heavy command runs per
\* run id, for any number of wrappers, deaths, interrupts and leftovers.
THEOREM LeaseImplementsMutex == Spec => OneHeavyCommand
<1> DEFINE heavy == [r \in Runs |-> {w \in Wrappers : run[w] = r /\ child[w]}]
<1>1. Init => Mutex!Init
  BY DEF Init, Mutex!Init
<1>2. LeaseInv /\ [Next]_vars => [Mutex!Next]_heavy
  <2> SUFFICES ASSUME LeaseInv, [Next]_vars PROVE Mutex!Next \/ UNCHANGED heavy
    OBVIOUS
  <2> USE DEF LeaseInv
  <2>1. ASSUME UNCHANGED <<run, child>> PROVE UNCHANGED heavy
    BY <2>1
  <2>2. ASSUME NEW w \in Wrappers, Invoke(w) PROVE UNCHANGED heavy
    <3>1. \A v \in Wrappers, r \in Runs :
            run'[v] = r /\ child'[v] <=> run[v] = r /\ child[v]
      BY <2>2 DEF Invoke, TypeOK
    <3> QED
      BY <3>1
  <2>3. ASSUME NEW w \in Wrappers, Launch(w), child' # child PROVE Mutex!Next
    <3> DEFINE r == run[w]
    <3>1. /\ pc[w] = "launch" /\ ~child[w] /\ r \in Runs /\ owner[LockOf[r]] = w
          /\ child' = [child EXCEPT ![w] = TRUE] /\ run' = run
      BY <2>3 DEF Launch, Leased
    <3>2. heavy[r] = {}
      BY <3>1 DEF Leased
    <3>3. heavy' = [heavy EXCEPT ![r] = {w}]
      <4>1. \A s \in Runs \ {r} : heavy'[s] = heavy[s]
        BY <3>1 DEF TypeOK
      <4>2. heavy'[r] = {w}
        BY <3>1, <3>2 DEF TypeOK
      <4> QED
        BY <3>1, <4>1, <4>2
    <3> QED
      BY <3>1, <3>2, <3>3 DEF Mutex!Next, Mutex!Start
  <2>4. ASSUME NEW w \in Wrappers, ChildExits(w) PROVE Mutex!Next
    <3> DEFINE r == run[w]
    <3>1. /\ child[w] /\ r \in Runs /\ owner[LockOf[r]] = w
          /\ child' = [child EXCEPT ![w] = FALSE] /\ run' = run
      BY <2>4 DEF ChildExits, Leased
    <3>2. heavy[r] = {w}
      BY <3>1 DEF Leased
    <3>3. heavy' = [heavy EXCEPT ![r] = {}]
      <4>1. \A s \in Runs \ {r} : heavy'[s] = heavy[s]
        BY <3>1 DEF TypeOK
      <4>2. heavy'[r] = {}
        BY <3>1, <3>2 DEF TypeOK
      <4>3. heavy' = [s \in Runs |-> heavy'[s]] /\ heavy = [s \in Runs |-> heavy[s]]
        OBVIOUS
      <4> HIDE DEF heavy
      <4> QED
        BY <3>1, <4>1, <4>2, <4>3
    <3> QED
      BY <3>1, <3>2, <3>3 DEF Mutex!Next, Mutex!End
  <2> QED
    BY <2>1, <2>2, <2>3, <2>4
    DEF Next, WrapperStep, Environment, vars, Open, Flock, Preflight, Launch, Wait, Interrupt,
        Die, Spawn, DescendantsEnd
<1> QED
  BY <1>1, <1>2, LeaseInvariant, PTL DEF Spec, OneHeavyCommand, Mutex!Spec
=============================================================================
