----------------------------- MODULE Coordination -----------------------------
(***************************************************************************)
(* One repair run on its coordination Issue: the Operator's and the        *)
(* workers' messages, each checked on its own by check_coordination_message *)
(* (scripts/validate_artifacts.py), the artifacts that are recorded on the *)
(* run-record branch, and the check of the whole bundle there.             *)
(*                                                                         *)
(* The Operator reads the thread, so state_before is the run's state; what *)
(* it may post beyond that is what the check lets through.  A worker may   *)
(* answer late, more than once or never: every assignment that was ever    *)
(* posted may still be answered, and what was accepted or sent back may    *)
(* be submitted and accepted again.                                        *)
(***************************************************************************)
EXTENDS Naturals, FiniteSets

CONSTANTS
  MaxTasks,    \* bound: assignments
  MaxHead,     \* bound: pushes to the target's pull request
  MaxMail,     \* bound: messages the Operator has not answered
  Late,        \* whether the answer to an earlier assignment may still come
  None

Workers == {"scout", "repair", "review"}
TerminalStates == {"approved", "blocked", "invalid_candidate"}
NonTerminalStates == {"requested", "scouting", "candidate_selected", "repair_in_progress",
                      "repair_submitted", "independent_review", "changes_requested"}
States == TerminalStates \cup NonTerminalStates
Verdicts == TerminalStates \cup {"changes_requested"}
Kinds == {"run_manifest", "repair_candidate", "repair_result", "review_result"}

Tasks == 1..MaxTasks
Heads == 0..MaxHead

\* An artifact: the assignment it answers, the head it is about, and for a
\* review the result that it names and its verdict.
Candidate == [task : Tasks]
Result == [task : Tasks, head : Heads]
Review == [task : Tasks, head : Heads, of : Result, verdict : Verdicts]

\* What waits for the Operator: submissions and reports.
Submission == [type : {"artifact_submission"}, sender : {"scout"}, artifact : Candidate]
                \cup [type : {"artifact_submission"}, sender : {"repair"}, artifact : Result]
                \cup [type : {"artifact_submission"}, sender : {"review"}, artifact : Review]
Report == [type : {"blocked"}, sender : Workers]

ASSUME BoundsAssumption == MaxTasks \in Nat /\ MaxHead \in Nat /\ MaxMail \in Nat
ASSUME LateAssumption == Late \in BOOLEAN
ASSUME NoneAssumption ==
  /\ None \notin Workers /\ None \notin Candidate /\ None \notin Result /\ None \notin Review
  /\ None \notin States

VARIABLES
  state,      \* the run's pipeline_state
  opened,     \* run_opened was posted
  closed,     \* the Issue is closed
  role,       \* the roles of the assignments so far
  head,       \* the head of the target's pull request: pushes so far
  mail,       \* worker messages that the Operator has not answered
  results,    \* the results it has ever accepted, which a review may speak of
  candidate, result, review,  \* the artifacts on the run-record branch
  sentBack    \* history: the results sent back for changes and not accepted since

record == <<candidate, result, review>>
vars == <<state, opened, closed, role, head, mail, results, candidate, result, review,
          sentBack>>

TypeOK ==
  /\ state \in States
  /\ opened \in BOOLEAN /\ closed \in BOOLEAN
  /\ role \in [Tasks -> Workers \cup {None}]
  /\ head \in Heads
  /\ mail \subseteq Submission \cup Report
  /\ results \subseteq Result /\ sentBack \subseteq Result
  /\ candidate \in Candidate \cup {None}
  /\ result \in Result \cup {None}
  /\ review \in Review \cup {None}

Init ==
  /\ state = "requested" /\ opened = FALSE /\ closed = FALSE
  /\ role = [t \in Tasks |-> None]
  /\ head = 0
  /\ mail = {} /\ results = {} /\ sentBack = {}
  /\ candidate = None /\ result = None /\ review = None

-----------------------------------------------------------------------------
(* The check of one message. *)

\* Faulty variant: an assignment to the repair after any verdict.
AssignmentAlsoAfterBlocked(recipient) ==
  CASE recipient = "scout"  -> {<<"requested", "scouting">>}
    [] recipient = "repair" -> {<<"candidate_selected", "repair_in_progress">>,
                                <<"changes_requested", "repair_in_progress">>,
                                <<"blocked", "repair_in_progress">>}
    [] recipient = "review" -> {<<"repair_submitted", "independent_review">>}

AssignmentTransitions(recipient) ==
  CASE recipient = "scout"  -> {<<"requested", "scouting">>}
    [] recipient = "repair" -> {<<"candidate_selected", "repair_in_progress">>,
                                <<"changes_requested", "repair_in_progress">>}
    [] recipient = "review" -> {<<"repair_submitted", "independent_review">>}

\* Faulty variant: the recipient is not looked at.
AcceptanceOfAnybody(recipient) ==
  {<<"scouting", "candidate_selected">>, <<"repair_in_progress", "repair_submitted">>}
    \cup {<<"independent_review", v>> : v \in Verdicts}

AcceptanceTransitions(recipient) ==
  CASE recipient = "scout"  -> {<<"scouting", "candidate_selected">>}
    [] recipient = "repair" -> {<<"repair_in_progress", "repair_submitted">>}
    [] recipient = "review" -> {<<"independent_review", v>> : v \in Verdicts}

AssignmentKinds(recipient, before) ==
  CASE recipient = "scout"  -> {"run_manifest"}
    [] recipient = "repair" -> IF before = "changes_requested" THEN {"review_result"}
                               ELSE {"repair_candidate"}
    [] recipient = "review" -> {"repair_result"}

\* ref: a reference to recorded bytes of this kind, or None for bytes that are
\* only delivered.
MayOpen(before, after, ref) ==
  /\ before = "requested" /\ after = "requested"
  /\ ref = "run_manifest"

MayAssign(recipient, before, after, ref) ==
  /\ <<before, after>> \in AssignmentTransitions(recipient)
  /\ ref \in AssignmentKinds(recipient, before)

\* A worker's message leaves the state alone and refers to nothing recorded.
MaySubmit(before, after, ref) == before = after /\ ref = None

\* Any recorded kind will do.
MayAccept(recipient, before, after, ref) ==
  /\ <<before, after>> \in AcceptanceTransitions(recipient)
  /\ ref \in Kinds

MayRework(before, after) == before = after

\* Given up in answer to a report, or closed on a recorded verdict.
MayClose(before, after, reply, ref) ==
  \/ after = "blocked" /\ before \in NonTerminalStates /\ reply
  \/ before = after /\ before \in TerminalStates /\ ref \in Kinds

\* Faulty variant: the review is tied to the head alone.
BundleByHead ==
  review # None => /\ result # None
                   /\ review.head = result.head

\* The check of the bundle: the review names the result on record and its head.
BundleOK ==
  review # None => /\ result # None
                   /\ review.of = result
                   /\ review.head = result.head

-----------------------------------------------------------------------------
(* The workers. *)

Posted == {t \in Tasks : role[t] # None}

\* The assignments that a worker may still answer.
Answerable == IF Late THEN Posted ELSE {t \in Posted : \A u \in Posted : u <= t}

\* Whatever was answered may be posted again; two copies that wait together
\* are one here, since the second may come when the first is answered.
Post(message) ==
  /\ Cardinality(mail) < MaxMail
  /\ mail' = mail \cup {message}

SubmitCandidate(t) ==
  /\ role[t] = "scout"
  /\ Post([type |-> "artifact_submission", sender |-> "scout", artifact |-> [task |-> t]])

\* The repair pushes to the target before it submits, and maybe after it.
Push(t) ==
  /\ role[t] = "repair"
  /\ head < MaxHead
  /\ head' = head + 1

\* A result is about a head it has pushed, maybe not the last one.
SubmitResult(t) ==
  /\ role[t] = "repair"
  /\ \E h \in 0..head :
       Post([type |-> "artifact_submission", sender |-> "repair",
             artifact |-> [task |-> t, head |-> h]])

\* The reviewer has looked at some head and at a result that was on record;
\* both may have been replaced by the time it answers.
SubmitReview(t, verdict) ==
  /\ role[t] = "review"
  /\ \E h \in 0..head, seen \in results :
       Post([type |-> "artifact_submission", sender |-> "review",
             artifact |-> [task |-> t, head |-> h, of |-> seen, verdict |-> verdict]])

ReportBlocked(t) ==
  Post([type |-> "blocked", sender |-> role[t]])

Work(t) ==
  /\ ~closed
  /\ MaySubmit(state, state, None)
  /\ \/ UNCHANGED head /\ SubmitCandidate(t)
     \/ UNCHANGED mail /\ Push(t)
     \/ UNCHANGED head /\ SubmitResult(t)
     \/ UNCHANGED head /\ \E v \in Verdicts : SubmitReview(t, v)
     \/ UNCHANGED head /\ ReportBlocked(t)
  /\ UNCHANGED <<state, opened, closed, role, results, record, sentBack>>

-----------------------------------------------------------------------------
(* The Operator. *)

Recorded ==
  {"run_manifest"} \cup {k \in {"repair_candidate"} : candidate # None}
    \cup {k \in {"repair_result"} : result # None} \cup {k \in {"review_result"} : review # None}

OpenRun ==
  /\ ~opened
  /\ MayOpen(state, "requested", "run_manifest")
  /\ opened' = TRUE
  /\ UNCHANGED <<state, closed, role, head, mail, results, record, sentBack>>

\* A worker is assigned; an assignment is the next one of the thread.
Assign(recipient) ==
  /\ opened /\ ~closed
  /\ \E after \in States, ref \in Recorded :
       /\ MayAssign(recipient, state, after, ref)
       /\ state' = after
  /\ \E t \in Tasks :
       /\ role[t] = None
       /\ \A u \in Tasks : u < t => role[u] # None
       /\ role' = [role EXCEPT ![t] = recipient]
  /\ UNCHANGED <<opened, closed, head, mail, results, record, sentBack>>

\* A submission is recorded and accepted.  A review's acceptance carries its
\* verdict; that the verdicts agree is the Operator's duty, and so is the
\* number of rounds it grants.
Accept(m) ==
  /\ ~closed
  /\ m \in mail /\ m.type = "artifact_submission"
  /\ \E after \in States :
       /\ MayAccept(m.sender, state, after, "review_result")
       /\ m.sender = "review" => after = m.artifact.verdict
       /\ after = "changes_requested" => Cardinality(Posted) + 2 <= MaxTasks
       /\ state' = after
  /\ mail' = mail \ {m}
  /\ candidate' = IF m.sender = "scout" THEN m.artifact ELSE candidate
  /\ result' = IF m.sender = "repair" THEN m.artifact ELSE result
  /\ review' = IF m.sender = "review" THEN m.artifact ELSE review
  /\ results' = IF m.sender = "repair" THEN results \cup {m.artifact} ELSE results
  /\ sentBack' = CASE m.sender = "repair" -> sentBack \ {m.artifact}
                   [] m.sender = "review" /\ m.artifact.verdict = "changes_requested" ->
                        sentBack \cup {m.artifact.of}
                   [] OTHER -> sentBack
  /\ UNCHANGED <<opened, closed, role, head>>

\* A submission is sent back, or a report is answered otherwise.
Rework(m) ==
  /\ ~closed
  /\ m \in mail
  /\ MayRework(state, state)
  /\ mail' = mail \ {m}
  /\ UNCHANGED <<state, opened, closed, role, head, results, record, sentBack>>

\* The run is closed on its verdict, or given up on a worker's report.
Close ==
  /\ opened /\ ~closed
  /\ \E after \in States, ref \in Recorded \cup {None} :
       /\ MayClose(state, after, \E m \in mail : m.type = "blocked", ref)
       /\ state' = after
  /\ closed' = TRUE
  /\ UNCHANGED <<opened, role, head, mail, results, record, sentBack>>

Next ==
  \/ OpenRun
  \/ \E recipient \in Workers : Assign(recipient)
  \/ \E t \in Answerable : Work(t)
  \/ \E m \in mail : Accept(m)
  \/ \E m \in mail : Rework(m)
  \/ Close
  \/ closed /\ UNCHANGED vars

Spec == Init /\ [][Next]_vars

-----------------------------------------------------------------------------
(* Properties. *)

\* Who works, and what the run has come to.
Worker ==
  CASE state = "scouting" -> "scout"
    [] state = "repair_in_progress" -> "repair"
    [] state = "independent_review" -> "review"
    [] OTHER -> None

Product ==
  CASE state \in {"requested", "scouting"} -> "request"
    [] state = "candidate_selected" -> "candidate"
    [] state = "repair_in_progress" -> IF review = None THEN "candidate" ELSE "changes"
    [] state \in {"repair_submitted", "independent_review"} -> "result"
    [] state = "changes_requested" -> "changes"
    [] OTHER -> state

Pipeline == INSTANCE RepairPipeline WITH worker <- Worker, product <- Product

\* The messages that pass the check one by one take a run through the pipeline
\* and nowhere else, however late and however often its workers answer
\* (docs/REPAIR_PIPELINE.md, the state machine).
FollowsThePipeline == Pipeline!Spec

\* The pipeline_state never runs ahead of the record: whoever works has the
\* input it needs, and a verdict has the artifacts it is about.
RecordKeepsUp ==
  /\ state \in {"candidate_selected", "repair_in_progress", "repair_submitted",
                "independent_review", "changes_requested", "approved", "invalid_candidate"}
       => candidate # None
  /\ state \in {"repair_submitted", "independent_review", "changes_requested", "approved",
                "invalid_candidate"} => result # None
  /\ state \in {"changes_requested", "approved", "invalid_candidate"}
       => review # None /\ review.verdict = state

\* An approval that can be merged is about a result that nobody sent back since
\* it was last accepted: the late approval of an earlier round may be accepted
\* on the Issue, but its bundle only passes if the Operator has meanwhile put
\* the same result on record again.
SentBackIsNotApproved == state = "approved" /\ BundleOK => review.of \notin sentBack

\* "At a terminal state, the completed run-record PR is handed to an
\* independent Integrator for review and normal merge"
\* (docs/COORDINATION_PROTOCOL.md:133): it can be merged.
ClosedRunsCanBeMerged == closed => BundleOK
===============================================================================
