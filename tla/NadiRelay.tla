------------------------------- MODULE NadiRelay -------------------------------
(***************************************************************************)
(* A node's heartbeat in two places.  On a machine, senders                *)
(* (scripts/nadi_send.py), the clear command and the daemon                *)
(* (scripts/nadi_daemon.py, with or without a head agent) share one outbox *)
(* file.  On GitHub's runners the heartbeat job                            *)
(* (.github/workflows/heartbeat.yml) works on the checked-out outbox and   *)
(* proves with scripts/heartbeat_postcondition.py that its heartbeat has   *)
(* reached the hub.  Both write the same mailboxes.                        *)
(*                                                                         *)
(* nadi-kit is external.  As docs/FEDERATION_BOOTSTRAP_PROGRAM.md (2.2)    *)
(* describes it, outbox and mailboxes are ring buffers, and sync() pushes  *)
(* to each target, swallows what fails, and clears the outbox if anything  *)
(* was pushed.                                                             *)
(***************************************************************************)
EXTENDS Integers, Sequences, FiniteSetsExt, SequencesExt

CONSTANTS
  Peers,       \* the nodes a heartbeat is for
  Users,       \* who queues a message with nadi_send, one each
  Cap,         \* nadi-kit's NADI_BUFFER_SIZE
  MaxFaults,   \* bound: failed calls and cancelled jobs
  Stale        \* whether the outbox in the repository may hold a committed message

\* A heartbeat fits into the ring.
ASSUME CapAssumption ==
  /\ IsFiniteSet(Peers)
  /\ Cap \in Nat /\ Cardinality(Peers) <= Cap
ASSUME UsersAssumption == Users \cap {"job", "committed", "daemon"} = {}
ASSUME FaultsAssumption == MaxFaults \in Nat
ASSUME StaleAssumption == Stale \in BOOLEAN

\* A message, by who emitted it; a heartbeat is one message to each peer.
\* What is committed to the repository was signed with the machine's key, the
\* job signs with NODE_PRIVATE_KEY.
Senders == {"job", "committed", "daemon"} \cup Users
Message == [from : Senders, to : Peers]
IsQueue(q) == q \in Seq(Message) /\ Len(q) <= Cap

VARIABLES
  outbox,     \* the machine's outbox file
  user,       \* per user: "idle", "emitted" or "queued"
  daemon,     \* where the daemon is
  looping,    \* it runs without --once
  files,      \* the peers for which the hub has a file <city_id>_to_<peer>
  newer,      \* per peer: messages in it after the job's heartbeat, Cap if that is not there
  job,        \* where the job is
  box,        \* the runner's outbox file
  proof,      \* the captured heartbeats, by their targets
  unread,     \* mailboxes that verify has yet to fetch
  found,      \* captured heartbeats it has confirmed
  faults,     \* faults so far
  disabled,   \* history: the job's guard found a secret missing
  heard,      \* history: the mailboxes the job's heartbeat has reached
  evicted,    \* history: a heartbeat of the job was pushed out of a mailbox
  crashed     \* history: an emission has failed in the daemon

machine == <<outbox, user>>
process == <<daemon, looping, crashed>>
hub == <<files, newer, heard, evicted>>
runner == <<job, box, proof, unread, found, disabled>>
vars == <<machine, process, hub, runner, faults>>

TypeOK ==
  /\ IsQueue(outbox) /\ IsQueue(box)
  /\ user \in [Users -> {"idle", "emitted", "queued"}]
  /\ daemon \in {"off", "beat", "status", "fallback", "push", "clear", "sleep", "dead"}
  /\ files \subseteq Peers /\ newer \in [Peers -> 0..Cap]
  /\ job \in {"guard", "access", "first_sync", "emit", "capture", "final_sync", "list",
              "fetch", "green", "red"}
  /\ proof \subseteq Peers /\ unread \subseteq Peers /\ heard \subseteq Peers
  /\ found \subseteq proof
  /\ faults \in 0..MaxFaults
  /\ {looping, disabled, evicted, crashed} \subseteq BOOLEAN

Init ==
  /\ outbox = <<>> /\ user = [u \in Users |-> "idle"]
  /\ daemon = "off" /\ looping = FALSE /\ crashed = FALSE
  /\ files = {} /\ newer = [p \in Peers |-> Cap] /\ heard = {} /\ evicted = FALSE
  /\ job = "red" /\ box = <<>> /\ proof = {} /\ unread = {} /\ found = {} /\ disabled = FALSE
  /\ faults = 0

Fault == faults < MaxFaults /\ faults' = faults + 1
NoFault == UNCHANGED faults

-----------------------------------------------------------------------------
(* nadi-kit. *)

\* A ring buffer keeps the latest.
Ring(q) == IF Len(q) > Cap THEN SubSeq(q, Len(q) - Cap + 1, Len(q)) ELSE q

Emit(q, messages) == Ring(q \o messages)

Heartbeat(sender) ==
  LET peer == SetToSeq(Peers)
  IN  [i \in DOMAIN peer |-> [from |-> sender, to |-> peer[i]]]

\* The positions in the outbox of what a target is sent, if it does not fail.
Sent(q, failing, p) == {i \in DOMAIN q : q[i].to = p /\ p \notin failing}

Reached(q, failing) == {p \in Peers : Sent(q, failing, p) # {}}

Mine(q, failing, p) == {i \in Sent(q, failing, p) : q[i].from = "job"}

\* The messages in a mailbox after the job's heartbeat, once more have been sent.
Newer(q, failing, p) ==
  LET sent == Sent(q, failing, p)
      mine == Mine(q, failing, p)
  IN IF mine # {} THEN Cardinality({i \in sent : \A j \in mine : j < i})
                  ELSE Min({Cap, newer[p] + Cardinality(sent)})

Push(q, failing) ==
  /\ failing \subseteq {q[i].to : i \in DOMAIN q}
  /\ IF failing = {} THEN NoFault ELSE Fault
  /\ files' = files \cup Reached(q, failing)
  /\ newer' = [p \in Peers |-> Newer(q, failing, p)]
  /\ heard' = heard \cup {p \in Peers : Mine(q, failing, p) # {}}
  /\ evicted' = (evicted \/ \E p \in Peers : newer[p] < Cap /\ newer'[p] = Cap)

-----------------------------------------------------------------------------
(* scripts/nadi_send.py *)

\* The emission succeeds, or it fails and has left nothing behind.
Send(u) ==
  /\ user[u] = "idle"
  /\ \/ /\ \E p \in Peers : outbox' = Emit(outbox, <<[from |-> u, to |-> p]>>)
        /\ user' = [user EXCEPT ![u] = "emitted"]
        /\ NoFault
     \/ Fault /\ UNCHANGED <<outbox, user>>
  /\ UNCHANGED <<process, hub, runner>>

\* Faulty variant: only the last message of the outbox is looked at.
InOutboxLast(u) == outbox # <<>> /\ Last(outbox).from = u

InOutbox(u) == \E i \in DOMAIN outbox : outbox[i].from = u

\* The outbox is read again; a sender whose message is not there gets exit
\* code 1, and sends again.
Reread(u) ==
  /\ user[u] = "emitted"
  /\ user' = [user EXCEPT ![u] = IF InOutbox(u) THEN "queued" ELSE "idle"]
  /\ UNCHANGED <<outbox, process, hub, runner, faults>>

\* The clear command removes what is queued, whoever queued it; its answer, from
\* a second reading, changes nothing.
ClearCommand ==
  /\ outbox' = <<>>
  /\ UNCHANGED <<user, process, hub, runner, faults>>

-----------------------------------------------------------------------------
(* scripts/nadi_daemon.py and head_agent.py *)

StartDaemon ==
  /\ daemon = "off"
  /\ daemon' = "beat" /\ looping' \in BOOLEAN
  /\ UNCHANGED <<machine, hub, runner, faults, crashed>>

EmitHeartbeat ==
  /\ outbox' = Emit(outbox, Heartbeat("daemon"))
  /\ NoFault
  /\ UNCHANGED user

\* node.heartbeat: outside any try, its exception ends the daemon.
PlainBeat ==
  /\ daemon = "beat"
  /\ \/ EmitHeartbeat /\ daemon' = "push" /\ UNCHANGED crashed
     \/ Fault /\ daemon' = "dead" /\ crashed' = TRUE /\ UNCHANGED machine
  /\ UNCHANGED <<looping, hub, runner>>

\* A head agent's cycle, up to its heartbeat; whatever it raises is caught.
AgentBeat ==
  /\ daemon = "beat"
  /\ \/ EmitHeartbeat /\ daemon' = "status"
     \/ Fault /\ daemon' = "fallback" /\ UNCHANGED machine
  /\ UNCHANGED <<looping, crashed, hub, runner>>

\* The head agent's second message.
AgentStatus ==
  /\ daemon = "status"
  /\ \/ /\ \E p \in Peers : outbox' = Emit(outbox, <<[from |-> "daemon", to |-> p]>>)
        /\ NoFault /\ daemon' = "push"
     \/ Fault /\ daemon' = "fallback" /\ UNCHANGED outbox
  /\ UNCHANGED <<user, looping, crashed, hub, runner>>

\* The daemon's own heartbeat after a head agent's exception.
Fallback ==
  /\ daemon = "fallback"
  /\ \/ EmitHeartbeat /\ daemon' = "push" /\ UNCHANGED crashed
     \/ Fault /\ daemon' = "dead" /\ crashed' = TRUE /\ UNCHANGED machine
  /\ UNCHANGED <<looping, hub, runner>>

\* Faulty variant: a cycle that failed is the last one.
AfterErrorStop == IF looping THEN "dead" ELSE "off"

AfterError == IF looping THEN "sleep" ELSE "off"

\* node.sync(): the push, then the clearing; an exception is logged.
Sync ==
  /\ daemon = "push"
  /\ \/ \E failing \in SUBSET Peers :
          /\ Push(outbox, failing)
          /\ daemon' = IF Reached(outbox, failing) # {} THEN "clear"
                       ELSE IF looping THEN "sleep" ELSE "off"
     \/ Fault /\ daemon' = AfterError /\ UNCHANGED hub
  /\ UNCHANGED <<machine, looping, crashed, runner>>

SyncClear ==
  /\ daemon = "clear"
  /\ outbox' = <<>>
  /\ daemon' = IF looping THEN "sleep" ELSE "off"
  /\ UNCHANGED <<user, looping, crashed, hub, runner, faults>>

Sleep ==
  /\ daemon = "sleep"
  /\ daemon' = "beat"
  /\ UNCHANGED <<machine, looping, crashed, hub, runner, faults>>

DaemonStep == PlainBeat \/ AgentBeat \/ AgentStatus \/ Fallback \/ Sync \/ SyncClear \/ Sleep

-----------------------------------------------------------------------------
(* .github/workflows/heartbeat.yml and scripts/heartbeat_postcondition.py *)

\* A step of the job that does not change the machine.
JobStays == UNCHANGED <<machine, process>>
Goto(step) == job' = step
Fails == Fault /\ job' = "red"

\* The next run of the schedule, on a new runner: the concurrency group lets
\* one job run at a time.
StartJob ==
  /\ job \in {"green", "red"}
  /\ Goto("guard")
  /\ \/ box' = <<>>
     \/ Stale /\ \E p \in Peers : box' = <<[from |-> "committed", to |-> p]>>
  /\ newer' = [p \in Peers |-> Cap] /\ heard' = {} /\ evicted' = FALSE /\ UNCHANGED files
  /\ proof' = {} /\ unread' = {} /\ found' = {} /\ disabled' = FALSE
  /\ JobStays /\ NoFault

\* heartbeat_workflow_guard.py: without both secrets the job skips the rest.
Guard ==
  /\ job = "guard"
  /\ \/ Goto("green") /\ disabled' = TRUE
     \/ Goto("access") /\ UNCHANGED disabled
  /\ UNCHANGED <<box, proof, unread, found, hub>>
  /\ JobStays /\ NoFault

HubAccess ==
  /\ job = "access"
  /\ \/ Goto("first_sync") /\ NoFault
     \/ Fails
  /\ UNCHANGED <<box, proof, unread, found, disabled, hub>> /\ JobStays

\* "nadi_kit sync": nobody else uses this outbox.
RunnerSync(step, next) ==
  /\ job = step
  /\ \/ \E failing \in SUBSET Peers :
          /\ Push(box, failing)
          /\ box' = IF Reached(box, failing) # {} THEN <<>> ELSE box
          /\ Goto(next)
     \/ Fails /\ UNCHANGED <<hub, box>>
  /\ UNCHANGED <<proof, unread, found, disabled>> /\ JobStays

EmitSigned ==
  /\ job = "emit"
  /\ \/ box' = Emit(box, Heartbeat("job")) /\ Goto("capture") /\ NoFault
     \/ Fails /\ UNCHANGED box
  /\ UNCHANGED <<proof, unread, found, disabled, hub>> /\ JobStays

\* cmd_capture: one source, and the heartbeats among the messages.
Capture ==
  /\ job = "capture"
  /\ LET beats == {box[i].to : i \in DOMAIN box}
         oneSource == \A i \in DOMAIN box : box[i].from = "job"
         passes == oneSource /\ beats # {}
     IN /\ Goto(IF passes THEN "final_sync" ELSE "red")
        /\ proof' = IF passes THEN beats ELSE {}
  /\ UNCHANGED <<box, unread, found, disabled, hub>> /\ JobStays /\ NoFault

\* Faulty variant: the files are looked up by the messages' source, which is
\* not the name they carry.
HubFilesBySource == files \ Peers

\* The node's files in the hub.
HubFiles == files

VerifyList ==
  /\ job = "list"
  /\ \/ /\ Goto(IF HubFiles # {} THEN "fetch" ELSE "red")
        /\ unread' = HubFiles /\ NoFault
     \/ Fails /\ UNCHANGED unread
  /\ UNCHANGED <<box, proof, found, disabled, hub>> /\ JobStays

\* One file; a file that cannot be read confirms nothing.
VerifyFetch ==
  /\ job = "fetch"
  /\ \E p \in unread :
       /\ unread' = unread \ {p}
       /\ \/ found' = found \cup {q \in proof \cap {p} : newer[q] < Cap} /\ NoFault
          \/ Fault /\ UNCHANGED found
  /\ UNCHANGED <<job, box, proof, disabled, hub>> /\ JobStays

\* Faulty variant: one confirmed heartbeat is enough.
ConfirmedAny == found # {}

Confirmed == proof \ found = {}

VerifyEnd ==
  /\ job = "fetch" /\ unread = {}
  /\ Goto(IF Confirmed THEN "green" ELSE "red")
  /\ UNCHANGED <<box, proof, unread, found, disabled, hub>> /\ JobStays /\ NoFault

\* A step fails for a reason of its own, the job runs into its timeout, or is
\* cancelled.
Cancel ==
  /\ job \notin {"green", "red"}
  /\ Fails
  /\ UNCHANGED <<box, proof, unread, found, disabled, hub>> /\ JobStays

JobStep ==
  \/ Guard \/ HubAccess
  \/ RunnerSync("first_sync", "emit") \/ EmitSigned \/ Capture \/ RunnerSync("final_sync", "list")
  \/ VerifyList \/ VerifyFetch \/ VerifyEnd

-----------------------------------------------------------------------------
Next ==
  \/ \E u \in Users : Send(u) \/ Reread(u)
  \/ ClearCommand
  \/ StartDaemon \/ DaemonStep
  \/ StartJob \/ JobStep \/ Cancel

Spec == Init /\ [][Next]_vars

\* The schedule starts the next job, and processes that have begun go on.
FairSpec ==
  /\ Spec
  /\ WF_vars(StartJob) /\ WF_vars(JobStep)
  /\ WF_vars(DaemonStep)

-----------------------------------------------------------------------------
(* Properties. *)

\* A green heartbeat job that was not skipped for a missing secret has had its
\* own heartbeat in every peer's mailbox, whatever the syncs swallowed, however
\* the files changed while they were read one by one.
GreenMeansHeard == job = "green" /\ ~disabled => heard = Peers

\* A sender that repeats its message after every exit code 1 never has two
\* copies of it in the outbox: an answer "re-read verification failed" is only
\* given when the relay, a clear or the ring has taken the message.
OneCopyPending ==
  \A i, j \in DOMAIN outbox :
     outbox[i].from \in Users /\ outbox[i].from = outbox[j].from => i = j

\* A daemon without --once syncs again and again, whatever sync() raises; only
\* a heartbeat that cannot be emitted ends it.
RelayGoesOn == looping ~> (daemon = "push" \/ crashed)

\* The job's proof does not ask for more than the relay gives: when faults end,
\* jobs become green, unless full mailboxes push their heartbeats out.
JobsTurnGreen == []<>((job = "green" /\ ~disabled) \/ evicted \/ disabled)
===============================================================================
