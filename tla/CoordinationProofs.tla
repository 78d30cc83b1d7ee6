-------------------------- MODULE CoordinationProofs --------------------------
(* Theorems about Coordination, for every number of assignments, pushes and  *)
(* waiting messages: types, the record, and that the thread of checked       *)
(* messages implements RepairPipeline.                                       *)
EXTENDS Coordination, TLAPS

\* The parts of the record before the first review.
NoReviewYet ==
  /\ state \in {"requested", "scouting", "candidate_selected"} => review = None
  /\ state = "changes_requested" => review # None

IInv == TypeOK /\ RecordKeepsUp /\ NoReviewYet

LEMMA SubmissionArtifact ==
  ASSUME NEW m \in Submission
  PROVE  /\ m.sender \in Workers
         /\ m.sender = "scout" => m.artifact \in Candidate
         /\ m.sender = "repair" => m.artifact \in Result
         /\ m.sender = "review" => m.artifact \in Review
BY DEF Submission, Workers

LEMMA AcceptedIsSubmission ==
  ASSUME TypeOK, NEW m \in mail, m.type = "artifact_submission"
  PROVE  m \in Submission
BY DEF TypeOK, Report

\* What an acceptance may do to the state.
LEMMA AcceptanceStep ==
  ASSUME NEW recipient \in Workers, NEW before, NEW after, NEW ref,
         MayAccept(recipient, before, after, ref)
  PROVE  \/ recipient = "scout" /\ before = "scouting" /\ after = "candidate_selected"
         \/ recipient = "repair" /\ before = "repair_in_progress" /\ after = "repair_submitted"
         \/ recipient = "review" /\ before = "independent_review" /\ after \in Verdicts
BY DEF MayAccept, AcceptanceTransitions, Workers

\* What an assignment may do to the state.
LEMMA AssignmentStep ==
  ASSUME NEW recipient \in Workers, NEW before, NEW after, NEW ref,
         MayAssign(recipient, before, after, ref)
  PROVE  \/ recipient = "scout" /\ before = "requested" /\ after = "scouting"
         \/ recipient = "repair" /\ before = "candidate_selected" /\ after = "repair_in_progress"
            /\ ref = "repair_candidate"
         \/ recipient = "repair" /\ before = "changes_requested" /\ after = "repair_in_progress"
         \/ recipient = "review" /\ before = "repair_submitted" /\ after = "independent_review"
            /\ ref = "repair_result"
BY DEF MayAssign, AssignmentTransitions, AssignmentKinds, Workers

LEMMA CloseStep ==
  ASSUME NEW before, NEW after, NEW reply, NEW ref, MayClose(before, after, reply, ref)
  PROVE  \/ before \in NonTerminalStates /\ after = "blocked"
         \/ before \in TerminalStates /\ after = before
BY DEF MayClose

LEMMA InitInv == ASSUME Init PROVE IInv
<1>1. state \in States /\ head \in Heads
  BY BoundsAssumption DEF Init, States, NonTerminalStates, Heads
<1>2. role \in [Tasks -> Workers \cup {None}]
  BY DEF Init
<1>3. TypeOK
  BY <1>1, <1>2 DEF Init, TypeOK
<1>4. RecordKeepsUp /\ NoReviewYet
  BY DEF Init, RecordKeepsUp, NoReviewYet
<1> QED
  BY <1>3, <1>4 DEF IInv

LEMMA WorkInv ==
  ASSUME IInv, NEW t \in Answerable, Work(t)
  PROVE  IInv'
<1>1. UNCHANGED <<state, opened, closed, role, results, record, sentBack>>
  BY DEF Work
<1>2. t \in Tasks /\ role[t] # None
  BY DEF Answerable, Posted
<1>3. role[t] \in Workers
  BY <1>2 DEF IInv, TypeOK
<1>4. head' \in Heads
  <2>1. UNCHANGED head \/ (head < MaxHead /\ head' = head + 1)
    BY DEF Work, Push
  <2> QED
    BY <2>1, BoundsAssumption DEF IInv, TypeOK, Heads
<1>5. mail' \subseteq Submission \cup Report
  <2> DEFINE c == [type |-> "artifact_submission", sender |-> "scout", artifact |-> [task |-> t]]
             r(h) == [type |-> "artifact_submission", sender |-> "repair",
                      artifact |-> [task |-> t, head |-> h]]
             b == [type |-> "blocked", sender |-> role[t]]
             v(h, seen, x) ==
               [type |-> "artifact_submission", sender |-> "review",
                artifact |-> [task |-> t, head |-> h, of |-> seen, verdict |-> x]]
  <2>0. 0..head \subseteq Heads
    BY BoundsAssumption DEF IInv, TypeOK, Heads
  <2>1. c \in Submission
    BY <1>2 DEF Submission, Candidate
  <2>2. ASSUME NEW h \in 0..head PROVE r(h) \in Submission
    BY <1>2, <2>0 DEF Submission, Result
  <2>3. ASSUME NEW h \in 0..head, NEW seen \in results, NEW x \in Verdicts
        PROVE  v(h, seen, x) \in Submission
    BY <1>2, <2>0 DEF Submission, Review, IInv, TypeOK
  <2>4. b \in Report
    BY <1>3 DEF Report
  <2>5. \/ mail' = mail
        \/ mail' = mail \cup {c}
        \/ \E h \in 0..head : mail' = mail \cup {r(h)}
        \/ mail' = mail \cup {b}
        \/ \E h \in 0..head, seen \in results, x \in Verdicts :
             mail' = mail \cup {v(h, seen, x)}
    BY DEF Work, SubmitCandidate, SubmitResult, SubmitReview, ReportBlocked, Post
  <2> HIDE DEF c, r, b, v
  <2> QED
    BY <2>1, <2>2, <2>3, <2>4, <2>5 DEF IInv, TypeOK
<1> QED
  BY <1>1, <1>4, <1>5 DEF IInv, TypeOK, RecordKeepsUp, NoReviewYet, record

LEMMA AssignInv ==
  ASSUME IInv, NEW recipient \in Workers, Assign(recipient)
  PROVE  IInv'
<1>1. PICK after \in States, ref \in Recorded :
        MayAssign(recipient, state, after, ref) /\ state' = after
  BY DEF Assign
<1>2. UNCHANGED <<opened, closed, head, mail, results, candidate, result, review,
                sentBack>>
  BY DEF Assign, record
<1>3. role' \in [Tasks -> Workers \cup {None}]
  BY DEF Assign, IInv, TypeOK
<1>4. TypeOK'
  BY <1>1, <1>2, <1>3 DEF IInv, TypeOK
<1>5. RecordKeepsUp' /\ NoReviewYet'
  <2>1. ref = "repair_candidate" => candidate # None
    BY DEF Recorded
  <2>2. ref = "repair_result" => result # None
    BY DEF Recorded
  <2> QED
    BY <1>1, <1>2, <2>1, <2>2, AssignmentStep DEF IInv, RecordKeepsUp, NoReviewYet
<1> QED
  BY <1>4, <1>5 DEF IInv

LEMMA AcceptInv ==
  ASSUME IInv, NEW m \in mail, Accept(m)
  PROVE  IInv'
<1>1. m \in Submission
  BY AcceptedIsSubmission DEF Accept, IInv
<1>2. PICK after \in States :
        /\ MayAccept(m.sender, state, after, "review_result")
        /\ m.sender = "review" => after = m.artifact.verdict
        /\ state' = after
  BY DEF Accept
<1>3. /\ candidate' = IF m.sender = "scout" THEN m.artifact ELSE candidate
      /\ result' = IF m.sender = "repair" THEN m.artifact ELSE result
      /\ review' = IF m.sender = "review" THEN m.artifact ELSE review
      /\ mail' = mail \ {m}
      /\ UNCHANGED <<opened, closed, role, head>>
  BY DEF Accept
<1>4. TypeOK'
  <2>1. results' \subseteq Result
    BY <1>1, SubmissionArtifact DEF Accept, IInv, TypeOK
  <2>2. sentBack' \subseteq Result
    <3>1. \/ sentBack' \subseteq sentBack
          \/ m.sender = "review" /\ sentBack' = sentBack \cup {m.artifact.of}
      BY DEF Accept
    <3>2. m.sender = "review" => m.artifact.of \in Result
      BY <1>1, SubmissionArtifact DEF Review
    <3> QED
      BY <3>1, <3>2 DEF IInv, TypeOK
  <2> QED
    BY <1>1, <1>2, <1>3, <2>1, <2>2, SubmissionArtifact DEF IInv, TypeOK
<1>5. CASE m.sender = "scout"
  <2>1. state = "scouting" /\ state' = "candidate_selected"
    BY <1>1, <1>2, <1>5, AcceptanceStep, SubmissionArtifact
  <2>2. candidate' # None /\ review' = review
    BY <1>1, <1>3, <1>5, SubmissionArtifact, NoneAssumption
  <2> QED
    BY <1>4, <2>1, <2>2 DEF IInv, RecordKeepsUp, NoReviewYet
<1>6. CASE m.sender = "repair"
  <2>1. state = "repair_in_progress" /\ state' = "repair_submitted"
    BY <1>1, <1>2, <1>6, AcceptanceStep, SubmissionArtifact
  <2>2. candidate' = candidate /\ result' # None
    BY <1>1, <1>3, <1>6, SubmissionArtifact, NoneAssumption
  <2> QED
    BY <1>4, <2>1, <2>2 DEF IInv, RecordKeepsUp, NoReviewYet
<1>7. CASE m.sender = "review"
  <2>1. state = "independent_review" /\ state' \in Verdicts /\ state' = m.artifact.verdict
    BY <1>1, <1>2, <1>7, AcceptanceStep, SubmissionArtifact
  <2>2. candidate' = candidate /\ result' = result /\ review' = m.artifact /\ review' # None
    BY <1>1, <1>3, <1>7, SubmissionArtifact, NoneAssumption
  <2> QED
    BY <1>4, <2>1, <2>2 DEF IInv, RecordKeepsUp, NoReviewYet, Verdicts, TerminalStates
<1> QED
  BY <1>1, <1>5, <1>6, <1>7, SubmissionArtifact DEF Workers

LEMMA CloseInv ==
  ASSUME IInv, Close
  PROVE  IInv'
<1>1. PICK after \in States, ref \in Recorded \cup {None} :
        MayClose(state, after, \E m \in mail : m.type = "blocked", ref) /\ state' = after
  BY DEF Close
<1>2. state' = "blocked" \/ state' = state
  BY <1>1, CloseStep
<1>3. closed' = TRUE /\ UNCHANGED <<opened, role, head, mail, results, candidate, result, review,
                sentBack>>
  BY DEF Close, record
<1> QED
  BY <1>1, <1>2, <1>3 DEF IInv, TypeOK, RecordKeepsUp, NoReviewYet

LEMMA NextInv == ASSUME IInv, [Next]_vars PROVE IInv'
<1>1. CASE OpenRun
  BY <1>1 DEF OpenRun, IInv, TypeOK, RecordKeepsUp, NoReviewYet, record
<1>2. ASSUME NEW recipient \in Workers, Assign(recipient) PROVE IInv'
  BY <1>2, AssignInv
<1>3. ASSUME NEW t \in Answerable, Work(t) PROVE IInv'
  BY <1>3, WorkInv
<1>4. ASSUME NEW m \in mail, Accept(m) PROVE IInv'
  BY <1>4, AcceptInv
<1>5. ASSUME NEW m \in mail, Rework(m) PROVE IInv'
  BY <1>5 DEF Rework, IInv, TypeOK, RecordKeepsUp, NoReviewYet, record
<1>6. CASE Close
  BY <1>6, CloseInv
<1>7. CASE UNCHANGED vars
  BY <1>7 DEF vars, IInv, TypeOK, RecordKeepsUp, NoReviewYet
<1> QED
  BY <1>1, <1>2, <1>3, <1>4, <1>5, <1>6, <1>7 DEF Next

LEMMA Inductive == Spec => []IInv
<1>1. Init => IInv
  BY InitInv
<1>2. IInv /\ [Next]_vars => IInv'
  BY NextInv
<1> QED
  BY <1>1, <1>2, PTL DEF Spec

\* The types of the thread and of the record.
THEOREM TypeCorrect == Spec => []TypeOK
<1>1. IInv => TypeOK
  BY DEF IInv
<1> QED
  BY <1>1, Inductive, PTL

\* The pipeline_state never runs ahead of the record: whoever works has the
\* input it needs, and a verdict has the artifacts it is about.
THEOREM RecordIsComplete == Spec => []RecordKeepsUp
<1>1. IInv => RecordKeepsUp
  BY DEF IInv
<1> QED
  BY <1>1, Inductive, PTL

-----------------------------------------------------------------------------
(* The refinement of RepairPipeline. *)

LEMMA RelayTable ==
  /\ state = "requested" => Worker = None /\ Product = "request"
  /\ state = "scouting" => Worker = "scout" /\ Product = "request"
  /\ state = "candidate_selected" => Worker = None /\ Product = "candidate"
  /\ state = "repair_in_progress" =>
       Worker = "repair" /\ Product = (IF review = None THEN "candidate" ELSE "changes")
  /\ state = "repair_submitted" => Worker = None /\ Product = "result"
  /\ state = "independent_review" => Worker = "review" /\ Product = "result"
  /\ state = "changes_requested" => Worker = None /\ Product = "changes"
  /\ state \in TerminalStates => Worker = None /\ Product = state
BY DEF Worker, Product, TerminalStates

LEMMA RelayTableNext ==
  /\ state' = "scouting" => Worker' = "scout" /\ Product' = "request"
  /\ state' = "candidate_selected" => Worker' = None /\ Product' = "candidate"
  /\ state' = "repair_in_progress" =>
       Worker' = "repair" /\ Product' = (IF review' = None THEN "candidate" ELSE "changes")
  /\ state' = "repair_submitted" => Worker' = None /\ Product' = "result"
  /\ state' = "independent_review" => Worker' = "review" /\ Product' = "result"
  /\ state' = "changes_requested" => Worker' = None /\ Product' = "changes"
  /\ state' \in TerminalStates => Worker' = None /\ Product' = state'
BY DEF Worker, Product, TerminalStates

\* The steps of the relay, with their tables written out.
LEMMA RelayStep ==
  /\ \A r \in Workers :
       /\ Worker = None /\ Worker' = r /\ Product' = Product
       /\ r = "scout" => Product = "request"
       /\ r = "repair" => Product \in {"candidate", "changes"}
       /\ r = "review" => Product = "result"
       => Pipeline!Next
  /\ \A r \in Workers :
       /\ Worker = r /\ Worker' = None
       /\ r = "scout" => Product' = "candidate"
       /\ r = "repair" => Product' = "result"
       /\ r = "review" => Product' \in {"changes"} \cup TerminalStates
       => Pipeline!Next
  /\ Product \notin TerminalStates /\ Worker' = None /\ Product' = "blocked" => Pipeline!Next
<1>1. Pipeline!Roles = Workers
  BY DEF Pipeline!Roles, Pipeline!Needs, Workers
<1>2. /\ Pipeline!Needs["scout"] = {"request"}
      /\ Pipeline!Needs["repair"] = {"candidate", "changes"}
      /\ Pipeline!Needs["review"] = {"result"}
      /\ Pipeline!Gives["scout"] = {"candidate"}
      /\ Pipeline!Gives["repair"] = {"result"}
      /\ Pipeline!Gives["review"] = {"changes"} \cup TerminalStates
  BY DEF Pipeline!Needs, Pipeline!Gives, Pipeline!Verdicts, TerminalStates
<1>3. ASSUME NEW r \in Workers,
             Worker = None, Worker' = r, Product' = Product,
             r = "scout" => Product = "request",
             r = "repair" => Product \in {"candidate", "changes"},
             r = "review" => Product = "result"
      PROVE  Pipeline!Next
  <2>1. Product \in Pipeline!Needs[r]
    BY <1>2, <1>3 DEF Workers
  <2>2. Pipeline!Start(r)
    BY <1>3, <2>1 DEF Pipeline!Start
  <2> QED
    BY <1>1, <2>2 DEF Pipeline!Next
<1>4. ASSUME NEW r \in Workers,
             Worker = r, Worker' = None,
             r = "scout" => Product' = "candidate",
             r = "repair" => Product' = "result",
             r = "review" => Product' \in {"changes"} \cup TerminalStates
      PROVE  Pipeline!Next
  <2>1. Product' \in Pipeline!Gives[r]
    BY <1>2, <1>4 DEF Workers
  <2>2. Pipeline!Deliver(r)
    BY <1>4, <2>1 DEF Pipeline!Deliver
  <2> QED
    BY <1>1, <2>2 DEF Pipeline!Next
<1>5. ASSUME Product \notin TerminalStates, Worker' = None, Product' = "blocked"
      PROVE  Pipeline!Next
  BY <1>5 DEF Pipeline!Next, Pipeline!Stop, Pipeline!Verdicts, TerminalStates
<1> QED
  BY <1>3, <1>4, <1>5

LEMMA Stutter ==
  ASSUME UNCHANGED <<state, review>>
  PROVE  UNCHANGED <<Worker, Product>>
BY DEF Worker, Product

LEMMA AssignRelays ==
  ASSUME IInv, NEW recipient \in Workers, Assign(recipient)
  PROVE  Pipeline!Next
<1>1. PICK after \in States, ref \in Recorded :
        MayAssign(recipient, state, after, ref) /\ state' = after
  BY DEF Assign
<1>2. review' = review
  BY DEF Assign, record
<1>3. CASE recipient = "scout"
  <2>1. state = "requested" /\ state' = "scouting"
    BY <1>1, <1>3, AssignmentStep
  <2> QED
    BY <1>3, <2>1, RelayTable, RelayTableNext, RelayStep
<1>4. CASE recipient = "repair"
  <2>1. state \in {"candidate_selected", "changes_requested"} /\ state' = "repair_in_progress"
    BY <1>1, <1>4, AssignmentStep
  <2>2. Worker = None /\ Worker' = "repair" /\ Product' = Product
        /\ Product \in {"candidate", "changes"}
    BY <1>2, <2>1, RelayTable, RelayTableNext DEF IInv, NoReviewYet
  <2> QED
    BY <1>4, <2>2, RelayStep
<1>5. CASE recipient = "review"
  <2>1. state = "repair_submitted" /\ state' = "independent_review"
    BY <1>1, <1>5, AssignmentStep
  <2> QED
    BY <1>5, <2>1, RelayTable, RelayTableNext, RelayStep
<1> QED
  BY <1>3, <1>4, <1>5 DEF Workers

LEMMA AcceptRelays ==
  ASSUME IInv, NEW m \in mail, Accept(m)
  PROVE  Pipeline!Next
<1>1. m.sender \in Workers
  BY AcceptedIsSubmission, SubmissionArtifact DEF Accept, IInv
<1>2. PICK after \in States : MayAccept(m.sender, state, after, "review_result") /\ state' = after
  BY DEF Accept
<1>3. CASE m.sender = "scout"
  <2>1. state = "scouting" /\ state' = "candidate_selected"
    BY <1>1, <1>2, <1>3, AcceptanceStep
  <2> QED
    BY <1>1, <1>3, <2>1, RelayTable, RelayTableNext, RelayStep
<1>4. CASE m.sender = "repair"
  <2>1. state = "repair_in_progress" /\ state' = "repair_submitted"
    BY <1>1, <1>2, <1>4, AcceptanceStep
  <2> QED
    BY <1>1, <1>4, <2>1, RelayTable, RelayTableNext, RelayStep
<1>5. CASE m.sender = "review"
  <2>1. state = "independent_review" /\ state' \in Verdicts
    BY <1>1, <1>2, <1>5, AcceptanceStep
  <2>2. Product' \in {"changes"} \cup TerminalStates /\ Worker' = None
    BY <2>1, RelayTableNext DEF Verdicts
  <2>3. Worker = "review"
    BY <2>1, RelayTable
  <2> QED
    BY <1>1, <1>5, <2>2, <2>3, RelayStep
<1> QED
  BY <1>1, <1>3, <1>4, <1>5 DEF Workers

LEMMA CloseRelays ==
  ASSUME IInv, Close
  PROVE  [Pipeline!Next]_<<Worker, Product>>
<1>1. PICK after \in States, ref \in Recorded \cup {None} :
        MayClose(state, after, \E m \in mail : m.type = "blocked", ref) /\ state' = after
  BY DEF Close
<1>2. review' = review
  BY DEF Close, record
<1>3. CASE state \in NonTerminalStates /\ state' = "blocked"
  <2>1. Product \notin TerminalStates
    BY <1>3, RelayTable DEF NonTerminalStates, TerminalStates
  <2>2. Worker' = None /\ Product' = "blocked"
    BY <1>3, RelayTableNext DEF TerminalStates
  <2> QED
    BY <2>1, <2>2, RelayStep
<1>4. CASE state' = state
  BY <1>2, <1>4, Stutter
<1> QED
  BY <1>1, <1>3, <1>4, CloseStep

\* The messages that pass the check one by one take a run through the pipeline
\* of docs/REPAIR_PIPELINE.md and nowhere else, whatever arrives late or twice.
THEOREM ImplementsThePipeline == Spec => FollowsThePipeline
<1>1. Init => Pipeline!Init
  BY RelayTable DEF Init, Pipeline!Init
<1>2. IInv /\ [Next]_vars => [Pipeline!Next]_<<Worker, Product>>
  <2> SUFFICES ASSUME IInv, [Next]_vars PROVE [Pipeline!Next]_<<Worker, Product>>
    OBVIOUS
  <2>1. CASE OpenRun
    BY <2>1, Stutter DEF OpenRun, record
  <2>2. ASSUME NEW recipient \in Workers, Assign(recipient) PROVE Pipeline!Next
    BY <2>2, AssignRelays
  <2>3. ASSUME NEW t \in Answerable, Work(t) PROVE UNCHANGED <<Worker, Product>>
    BY <2>3, Stutter DEF Work, record
  <2>4. ASSUME NEW m \in mail, Accept(m) PROVE Pipeline!Next
    BY <2>4, AcceptRelays
  <2>5. ASSUME NEW m \in mail, Rework(m) PROVE UNCHANGED <<Worker, Product>>
    BY <2>5, Stutter DEF Rework, record
  <2>6. CASE Close
    BY <2>6, CloseRelays
  <2>7. CASE UNCHANGED vars
    BY <2>7, Stutter DEF vars
  <2> QED
    BY <2>1, <2>2, <2>3, <2>4, <2>5, <2>6, <2>7 DEF Next
<1> QED
  BY <1>1, <1>2, Inductive, PTL DEF Spec, FollowsThePipeline, Pipeline!Spec

-----------------------------------------------------------------------------
(* What was sent back is not approved. *)

ReworkStates == {"changes_requested", "repair_in_progress", "blocked"}

\* While a result that was sent back is on record, the run is not past its
\* rework: the next acceptance of a repair replaces it, or clears it.
SentBackInv == result # None /\ result \in sentBack => state \in ReworkStates

\* A step that accepts nothing, and stays or moves on outside a rework.
LEMMA SentBackKept ==
  ASSUME SentBackInv, UNCHANGED <<result, sentBack>>,
         state' = state \/ state' \in ReworkStates \/ state \notin ReworkStates
  PROVE  SentBackInv'
BY DEF SentBackInv

\* An accepted result is not sent back, and an accepted review that sends the
\* result on record back starts its rework.
LEMMA AcceptSentBack ==
  ASSUME IInv, SentBackInv, NEW m \in mail, Accept(m)
  PROVE  SentBackInv'
<1>1. m \in Submission /\ m.sender \in Workers
  BY AcceptedIsSubmission, SubmissionArtifact DEF Accept, IInv
<1>2. PICK after \in States :
        /\ MayAccept(m.sender, state, after, "review_result")
        /\ m.sender = "review" => after = m.artifact.verdict
        /\ state' = after
  BY DEF Accept
<1>3. CASE m.sender = "repair"
  BY <1>3 DEF Accept, SentBackInv
<1>4. CASE m.sender = "scout"
  <2>1. state = "scouting"
    BY <1>1, <1>2, <1>4, AcceptanceStep
  <2>2. UNCHANGED <<result, sentBack>>
    BY <1>4 DEF Accept
  <2> QED
    BY <2>1, <2>2, SentBackKept DEF ReworkStates
<1>5. CASE m.sender = "review"
  <2>1. state = "independent_review" /\ state' = m.artifact.verdict /\ result' = result
    BY <1>1, <1>2, <1>5, AcceptanceStep DEF Accept
  <2>2. CASE m.artifact.verdict = "changes_requested"
    BY <2>1, <2>2 DEF SentBackInv, ReworkStates
  <2>3. CASE m.artifact.verdict # "changes_requested"
    <3>1. sentBack' = sentBack
      BY <1>5, <2>3 DEF Accept
    <3> QED
      BY <2>1, <3>1, SentBackKept DEF ReworkStates
  <2> QED
    BY <2>2, <2>3
<1> QED
  BY <1>1, <1>3, <1>4, <1>5 DEF Workers

\* An approval whose bundle passes is about a result that nobody sent back since
\* it was last accepted, for any number of rounds, late answers, and results
\* and reviews that are submitted and accepted again.
THEOREM SentBackStaysOut == Spec => []SentBackIsNotApproved
<1>1. Init => SentBackInv
  BY DEF Init, SentBackInv
<1>2. IInv /\ SentBackInv /\ [Next]_vars => SentBackInv'
  <2> SUFFICES ASSUME IInv, SentBackInv, [Next]_vars PROVE SentBackInv'
    OBVIOUS
  <2>1. CASE OpenRun \/ UNCHANGED vars
    BY <2>1, SentBackKept DEF OpenRun, vars, record
  <2>2. ASSUME NEW recipient \in Workers, Assign(recipient) PROVE SentBackInv'
    <3>1. PICK after \in States, ref \in Recorded :
            MayAssign(recipient, state, after, ref) /\ state' = after
      BY <2>2 DEF Assign
    <3>2. state' \in ReworkStates \/ state \notin ReworkStates
      BY <3>1, AssignmentStep DEF ReworkStates
    <3> QED
      BY <2>2, <3>2, SentBackKept DEF Assign, record
  <2>3. ASSUME NEW t \in Answerable, Work(t) PROVE SentBackInv'
    BY <2>3, SentBackKept DEF Work, record
  <2>4. ASSUME NEW m \in mail, Accept(m) PROVE SentBackInv'
    BY <2>4, AcceptSentBack
  <2>5. ASSUME NEW m \in mail, Rework(m) PROVE SentBackInv'
    BY <2>5, SentBackKept DEF Rework, record
  <2>6. CASE Close
    <3>1. state' = state \/ state' = "blocked"
      BY <2>6, CloseStep DEF Close
    <3> QED
      BY <2>6, <3>1, SentBackKept DEF Close, record, ReworkStates
  <2> QED
    BY <2>1, <2>2, <2>3, <2>4, <2>5, <2>6 DEF Next
<1>3. IInv /\ SentBackInv => SentBackIsNotApproved
  <2> SUFFICES ASSUME IInv, SentBackInv, state = "approved", BundleOK
               PROVE  review.of \notin sentBack
    BY DEF SentBackIsNotApproved
  <2>1. result # None /\ review.of = result
    BY DEF IInv, RecordKeepsUp, BundleOK
  <2> QED
    BY <2>1 DEF SentBackInv, ReworkStates
<1> QED
  BY <1>1, <1>2, <1>3, Inductive, PTL DEF Spec
===============================================================================
