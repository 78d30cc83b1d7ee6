----------------------------- MODULE HeavyLease -----------------------------
(***************************************************************************)
(* The heavy-command guard (scripts/run_heavy_command.py): invocations of  *)
(* the wrapper on one host, each opening the lock file of its run id,      *)
(* taking the flock, looking at the load and running the heavy command as  *)
(* a child that inherits the descriptor.  The flock belongs to the open    *)
(* file description, one per invocation, which lives as long as a process  *)
(* has it open.  Nobody is assumed to unlink the lock file or to unlock    *)
(* the inherited descriptor.                                               *)
(***************************************************************************)
EXTENDS Integers

CONSTANTS
  Wrappers,    \* slots for invocations of the wrapper (bounds how many live at once)
  Runs,        \* the run ids given on the command line
  Locks,       \* names of lock files
  LockOf,      \* sanitize_run_id: the lock of a run id, None when it is rejected
  ChildCodes,  \* exit codes of heavy commands, a negative one modulo 256
  None

ASSUME LockOfAssumption == LockOf \in [Runs -> Locks \cup {None}]
ASSUME CodesAssumption  == ChildCodes \subseteq Nat
ASSUME NoneAssumption   == None \notin Wrappers \cup Runs \cup Locks \cup Nat

\* Faulty variant: the return code of a process that ended by a signal.
SIGNALLED == 0 - 2

USAGE == 1
BUSY == 3
PRESSURED == 4
INTERRUPTED == 130

VARIABLES
  pc,      \* where the wrapper is, "gone" when its process has ended
  run,     \* the run id it was invoked with
  open,    \* open[w]: the processes that have w's file description open
  owner,   \* owner[l]: the invocation whose file description has the flock of l
  child,   \* child[w]: whether w's heavy command is running
  status,  \* the exit code its heavy command ended with
  exit     \* the exit code of the wrapper, None when it was killed

vars == <<pc, run, open, owner, child, status, exit>>

Processes == {"wrapper", "child", "descendants"}

TypeOK ==
  /\ pc \in [Wrappers -> {"gone", "open", "flock", "preflight", "launch", "wait"}]
  /\ run \in [Wrappers -> Runs \cup {None}]
  /\ open \in [Wrappers -> SUBSET Processes]
  /\ owner \in [Locks -> Wrappers \cup {None}]
  /\ child \in [Wrappers -> BOOLEAN]
  /\ status \in [Wrappers -> Nat \cup {None}]
  /\ exit \in [Wrappers -> Nat \cup {None}]

Init ==
  /\ pc = [w \in Wrappers |-> "gone"]
  /\ run = [w \in Wrappers |-> None]
  /\ open = [w \in Wrappers |-> {}]
  /\ owner = [l \in Locks |-> None]
  /\ child = [w \in Wrappers |-> FALSE]
  /\ status = [w \in Wrappers |-> None]
  /\ exit = [w \in Wrappers |-> None]

-----------------------------------------------------------------------------
(* The kernel.                                                              *)

\* Faulty variant: a LOCK_UN, which unlocks for every process that has it open.
Unlock(w, p) ==
  /\ open' = [open EXCEPT ![w] = @ \ {p}]
  /\ owner' = [l \in Locks |-> IF owner[l] = w THEN None ELSE owner[l]]

\* Faulty variant: ownership that outlives the processes, as of a PID file.
Leave(w, p) ==
  /\ open' = [open EXCEPT ![w] = @ \ {p}]
  /\ UNCHANGED owner

\* Process p closes w's file description, or ends; the last one to do so
\* releases the flock.
Close(w, p) ==
  /\ open' = [open EXCEPT ![w] = @ \ {p}]
  /\ owner' = [l \in Locks |-> IF owner[l] = w /\ open[w] \subseteq {p} THEN None ELSE owner[l]]

-----------------------------------------------------------------------------
(* The wrapper.                                                             *)

\* main returns or raises: the finally clause, or the end of the process,
\* closes the wrapper's descriptor.
Return(w, code) ==
  /\ pc' = [pc EXCEPT ![w] = "gone"]
  /\ exit' = [exit EXCEPT ![w] = code]
  /\ Close(w, "wrapper")

Goto(w, label) == pc' = [pc EXCEPT ![w] = label] /\ UNCHANGED exit

\* A new invocation; its run id or its command line may be refused.
Invoke(w) ==
  /\ pc[w] = "gone" /\ ~child[w] /\ open[w] = {}
  /\ \E r \in Runs :
       /\ run' = [run EXCEPT ![w] = r]
       /\ \/ LockOf[r] # None /\ pc' = [pc EXCEPT ![w] = "open"] /\ exit' = [exit EXCEPT ![w] = None]
          \/ UNCHANGED pc /\ exit' = [exit EXCEPT ![w] = USAGE]
  /\ status' = [status EXCEPT ![w] = None]
  /\ UNCHANGED <<open, owner, child>>

\* makedirs and open; an OSError of either is answered BUSY.
Open(w) ==
  /\ pc[w] = "open"
  /\ \/ /\ open' = [open EXCEPT ![w] = {"wrapper"}]
        /\ Goto(w, "flock")
        /\ UNCHANGED owner
     \/ Return(w, BUSY)
  /\ UNCHANGED <<run, child, status>>

\* Faulty variant: LOCK_SH.
FlockShared(w) ==
  /\ pc[w] = "flock"
  /\ owner' = [owner EXCEPT ![LockOf[run[w]]] = w]
  /\ Goto(w, "preflight")
  /\ UNCHANGED <<run, open, child, status>>

\* LOCK_EX without waiting.
Flock(w) ==
  /\ pc[w] = "flock"
  /\ LET l == LockOf[run[w]]
     IN  \/ /\ owner[l] = None
            /\ owner' = [owner EXCEPT ![l] = w]
            /\ Goto(w, "preflight")
            /\ UNCHANGED open
         \/ owner[l] # None /\ Return(w, BUSY)
  /\ UNCHANGED <<run, child, status>>

\* Faulty variant: under pressure, start over from the flock.
PreflightAgain(w) ==
  /\ pc[w] = "preflight"
  /\ \/ Goto(w, "launch") /\ UNCHANGED <<open, owner>>
     \/ /\ owner' = [owner EXCEPT ![LockOf[run[w]]] = None]
        /\ Goto(w, "flock")
        /\ UNCHANGED open
  /\ UNCHANGED <<run, child, status>>

\* The load may be below the threshold or unknown, or at the threshold.
Preflight(w) ==
  /\ pc[w] = "preflight"
  /\ \/ Goto(w, "launch") /\ UNCHANGED <<open, owner>>
     \/ Return(w, PRESSURED)
  /\ UNCHANGED <<run, child, status>>

\* Faulty variant: no pass_fds, the descriptor is closed in the child.
LaunchWithoutFd(w) ==
  /\ pc[w] = "launch"
  /\ child' = [child EXCEPT ![w] = TRUE]
  /\ Goto(w, "wait")
  /\ UNCHANGED <<run, open, owner, status>>

\* subprocess.run starts the command with the descriptor, or raises.
Launch(w) ==
  /\ pc[w] = "launch"
  /\ \/ /\ child' = [child EXCEPT ![w] = TRUE]
        /\ open' = [open EXCEPT ![w] = @ \cup {"child"}]
        /\ Goto(w, "wait")
        /\ UNCHANGED owner
     \/ UNCHANGED child /\ Return(w, USAGE)
  /\ UNCHANGED <<run, status>>

\* Faulty variant: reading the command's output to its end, which waits for
\* everything that has the pipe.
WaitForPipe(w) ==
  /\ pc[w] = "wait" /\ ~child[w] /\ "descendants" \notin open[w]
  /\ Return(w, status[w])
  /\ UNCHANGED <<run, child, status>>

\* subprocess.run returns once the command has ended.
Wait(w) ==
  /\ pc[w] = "wait" /\ ~child[w]
  /\ Return(w, status[w])
  /\ UNCHANGED <<run, child, status>>

\* SIGINT while the child runs.  subprocess.run sends the child a SIGKILL it
\* does not wait for: the child ends later, by ChildExits.
Interrupt(w) ==
  /\ pc[w] = "wait"
  /\ Return(w, INTERRUPTED)
  /\ UNCHANGED <<run, child, status>>

\* The wrapper is killed, wherever it is; the child is not.
Die(w) ==
  /\ pc[w] # "gone"
  /\ Return(w, None)
  /\ UNCHANGED <<run, child, status>>

-----------------------------------------------------------------------------
(* The heavy command.                                                       *)

ChildExits(w) ==
  /\ child[w]
  /\ child' = [child EXCEPT ![w] = FALSE]
  /\ \E code \in ChildCodes : status' = [status EXCEPT ![w] = code]
  /\ Close(w, "child")
  /\ UNCHANGED <<pc, run, exit>>

\* The command may leave processes behind that have the descriptor too.
Spawn(w) ==
  /\ child[w]
  /\ open' = [open EXCEPT ![w] = @ \cup {"descendants"}]
  /\ UNCHANGED <<pc, run, owner, child, status, exit>>

DescendantsEnd(w) ==
  /\ "descendants" \in open[w]
  /\ Close(w, "descendants")
  /\ UNCHANGED <<pc, run, child, status, exit>>

-----------------------------------------------------------------------------
\* What the interpreter executes on its own.
WrapperStep(w) == Open(w) \/ Flock(w) \/ Preflight(w) \/ Launch(w) \/ Wait(w)

Environment(w) ==
  Invoke(w) \/ Interrupt(w) \/ Die(w) \/ ChildExits(w) \/ Spawn(w) \/ DescendantsEnd(w)

Next == \E w \in Wrappers : WrapperStep(w) \/ Environment(w)

Spec == Init /\ [][Next]_vars

\* A wrapper that is not killed runs on; nothing makes a heavy command end.
FairSpec == Spec /\ \A w \in Wrappers : WF_vars(WrapperStep(w))

-----------------------------------------------------------------------------
(* Properties.                                                              *)

\* At most one heavy command per run id, whatever wrappers died or were
\* interrupted on the way: the lease implements the abstract mutex.
Mutex == INSTANCE HeavyMutex WITH
  Jobs <- Wrappers,
  heavy <- [r \in Runs |-> {w \in Wrappers : run[w] = r /\ child[w]}]

OneHeavyCommand == Mutex!Spec

\* The lease outlives the heavy command: while the command runs, its own
\* invocation has the flock, even after the wrapper is gone.
LeaseOutlivesCommand == \A w \in Wrappers : child[w] => owner[LockOf[run[w]]] = w

\* A stale lock file is harmless: a lease is in the hands of a process that
\* lives, so a new wrapper is never refused because of the dead.
HeldByTheLiving == \A l \in Locks : owner[l] # None => open[owner[l]] # {}

\* A wrapper hangs on nothing but its own heavy command: not on processes the
\* command left behind, and not on the lease or the load.
WrapperReturns ==
  \A w \in Wrappers : (pc[w] # "gone" /\ ~child[w]) ~> (pc[w] = "gone" \/ child[w])

-----------------------------------------------------------------------------
(* The inductive invariant.                                                 *)

\* The wrapper has its descriptor from Open to Return.
Descriptor ==
  \A w \in Wrappers : "wrapper" \in open[w] <=> pc[w] \notin {"gone", "open"}

\* From Flock on, and as long as anything of the command lives, the lease is held.
Leased ==
  \A w \in Wrappers :
    /\ pc[w] # "gone" \/ child[w] => run[w] \in Runs /\ LockOf[run[w]] # None
    /\ pc[w] \in {"preflight", "launch", "wait"} \/ child[w] => owner[LockOf[run[w]]] = w
    /\ child[w] <=> "child" \in open[w]
    /\ pc[w] \in {"open", "flock", "preflight", "launch"} => ~child[w]

LeaseInv == TypeOK /\ Descriptor /\ Leased /\ HeldByTheLiving
=============================================================================
