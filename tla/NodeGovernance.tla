--------------------------- MODULE NodeGovernance ---------------------------
(***************************************************************************)
(* The remote half of node setup (scripts/setup_node.py with               *)
(* scripts/governance): a command registers the federation topic, reads    *)
(* the two sources of branch protection one after the other, and, if it    *)
(* was asked to, creates the baseline ruleset when a listing shows none.   *)
(* Several commands run at once, the owner edits the repository in         *)
(* between, any call may fail or lose its answer, and a command may die.   *)
(***************************************************************************)
EXTENDS Naturals

CONSTANTS
  Commands,     \* commands that may run at the same time
  Args,         \* what a command may be called with
  Types,        \* the rule types of the baseline
  PullRequest,  \* the one a classic protection is silent about when it is off
  OrgRules,     \* rules the organisation puts on the branch
  Classics,     \* classic protections the owner uses
  OwnRulesets,  \* rulesets the owner makes
  Topics, FederationTopic,
  MaxRulesets,  \* bound: rulesets ever created
  MaxFaults,    \* bound: failed calls of one command
  MaxEdits,     \* bound: edits by the owner
  None

\* Of a ruleset: whether it has the reserved name, whether it is active on the
\* default branch, whether every other field is as in the baseline.
Body == [reserved : BOOLEAN, inForce : BOOLEAN, plain : BOOLEAN, rules : SUBSET Types]

Ruleset == [id : Nat, body : Body]

\* Classic protection: whether there is any, and the rules it puts in force.
Classic == {p \in [exists : BOOLEAN, rules : SUBSET Types] : p.exists \/ p.rules = {}}

\* What a source can say of each rule.
Statuses == [Types -> {"confirmed", "missing", "unknown"}]

\* A command's kind, and for setup its flags and whether it may write at all.
Arguments == [kind : {"setup", "standalone", "status"},
              interactive : BOOLEAN, apply : BOOLEAN, remote : BOOLEAN]

ASSUME TypesAssumption ==
  /\ PullRequest \in Types /\ OrgRules \subseteq Types /\ FederationTopic \in Topics
  /\ Classics \subseteq Classic
ASSUME BodyAssumption == OwnRulesets \subseteq Body
ASSUME ArgsAssumption == Args \subseteq Arguments /\ None \notin Arguments
ASSUME BoundAssumption == MaxRulesets \in Nat /\ MaxFaults \in Nat /\ MaxEdits \in Nat

VARIABLES
  rulesets, created, classic, topics,  \* the repository on GitHub
  pc, args,  \* the running commands and what they were called with
  mem,       \* what they hold in memory
  result,    \* the compliance each reported last
  faults,
  hist,      \* history: what was so while a command ran
  edits

github == <<rulesets, created, classic, topics>>
vars   == <<github, pc, args, mem, result, faults, hist, edits>>

PCs == {"idle", "topics", "addTopic", "topicsAgain", "detect", "rules", "classic", "ask",
        "list", "detail", "post"}

\* before: the topics read first; topic: how the registration ended; rules:
\* what source A told; final: whether this is the re-read after an action;
\* found: the id of the one ruleset with the reserved name.
Memory == [before : SUBSET Topics, topic : {"skipped", "present", "added", "failed"},
           rules : Statuses, final : BOOLEAN, found : Nat]

\* since: the rules in force at some moment of the inspection; topic: whether
\* the topic was there at some moment; listed: how many rulesets had been
\* created by the time of the listing; alone: whether nobody else acted.
History == [since : SUBSET Types, topic : BOOLEAN, listed : Nat, alone : BOOLEAN]

TypeOK ==
  /\ rulesets \subseteq Ruleset /\ created \in Nat
  /\ classic \in Classics /\ topics \subseteq Topics
  /\ pc \in [Commands -> PCs]
  /\ args \in [Commands -> Args \cup {None}]
  /\ \A c \in Commands : pc[c] # "idle" => args[c] \in Args
  /\ mem \in [Commands -> Memory]
  /\ result \in [Commands -> {"none", "conformant", "non_conformant", "unknown"}]
  /\ faults \in [Commands -> Nat]
  /\ hist \in [Commands -> History]
  /\ edits \in Nat

-----------------------------------------------------------------------------
(* GitHub.                                                                  *)

\* GET /rules/branches/<branch>: rules of active rulesets of every level.
BranchRules == OrgRules \cup UNION {r.body.rules : r \in {x \in rulesets : x.body.inForce}}

InForce == BranchRules \cup classic.rules

\* RULESET_PAYLOAD_V1.
Baseline == [reserved |-> TRUE, inForce |-> TRUE, plain |-> TRUE, rules |-> Types]

Reserved == {r \in rulesets : r.body.reserved}

Unreadable == [t \in Types |-> "unknown"]

NoMemory == [before |-> {}, topic |-> "skipped", rules |-> Unreadable, final |-> FALSE,
             found |-> 0]

NoHistory == [since |-> {}, topic |-> FALSE, listed |-> 0, alone |-> FALSE]

Init ==
  /\ rulesets \in {{}} \cup {{[id |-> 1, body |-> b]} : b \in OwnRulesets}
  /\ created = 1
  /\ classic \in Classics /\ topics \in SUBSET Topics
  /\ pc = [c \in Commands |-> "idle"] /\ args = [c \in Commands |-> None]
  /\ mem = [c \in Commands |-> NoMemory] /\ result = [c \in Commands |-> "none"]
  /\ faults = [c \in Commands |-> 0] /\ hist = [c \in Commands |-> NoHistory]
  /\ edits = 0

-----------------------------------------------------------------------------
(* The evaluation of the two sources.                                       *)

\* Faulty variant: classic protection that says nothing of a rule confirms it.
ClassicSilent(protection) ==
  [t \in Types |-> IF t \in protection.rules \/ (protection.exists /\ t = PullRequest)
                   THEN "confirmed" ELSE "missing"]

\* What classic protection says of each rule; none at all (404) says no to
\* each.  required_pull_request_reviews is absent when it is off.
ClassicStatus(protection) ==
  [t \in Types |-> CASE t \in protection.rules -> "confirmed"
                     [] t \notin protection.rules /\ t = PullRequest /\ protection.exists -> "unknown"
                     [] OTHER -> "missing"]

\* What the rulesets' source says.
BranchStatus == [t \in Types |-> IF t \in BranchRules THEN "confirmed" ELSE "missing"]

\* One source that confirms is enough; one that cannot be read leaves it open.
RuleStatus(t, branch, protection) ==
  CASE "confirmed" \in {branch[t], protection[t]} -> "confirmed"
    [] {branch[t], protection[t]} = {"missing"} -> "missing"
    [] OTHER -> "unknown"

\* Faulty variant: the status of a rule for that of the branch.
RuleForBranch(branch, protection) ==
  CASE \A t \in Types : RuleStatus(t, branch, protection) = "confirmed" -> "conformant"
    [] \E t \in Types : RuleStatus(t, branch, protection) = "unknown" -> "unknown"
    [] OTHER -> "missing"

Compliance(branch, protection) ==
  CASE \A t \in Types : RuleStatus(t, branch, protection) = "confirmed" -> "conformant"
    [] \E t \in Types : RuleStatus(t, branch, protection) = "unknown" -> "unknown"
    [] OTHER -> "non_conformant"

\* _is_compatible.
Compatible(body) == body.inForce /\ body.plain /\ Types \subseteq body.rules

-----------------------------------------------------------------------------
(* The commands.                                                            *)

\* Whether a command may create the ruleset without asking.
MayWrite(a) == a.kind = "standalone" \/ (a.kind = "setup" /\ a.apply /\ a.remote)

At(c, label) == pc[c] = label

\* The command goes on, with what it has learnt in memory.
Go(c, label, memory) ==
  /\ pc' = [pc EXCEPT ![c] = label]
  /\ mem' = [mem EXCEPT ![c] = memory]
  /\ UNCHANGED <<args, result>>

GoTo(c, label) == Go(c, label, mem[c])

End(c, compliance) ==
  /\ pc' = [pc EXCEPT ![c] = "idle"]
  /\ result' = [result EXCEPT ![c] = compliance]
  /\ mem' = [mem EXCEPT ![c] = NoMemory] /\ args' = [args EXCEPT ![c] = None]

Answered == UNCHANGED faults

Fault(c) == faults[c] < MaxFaults /\ faults' = [faults EXCEPT ![c] = @ + 1]

Begin(c) ==
  /\ At(c, "idle")
  /\ \E a \in Args :
       /\ args' = [args EXCEPT ![c] = a]
       /\ pc' = [pc EXCEPT ![c] = IF a.kind = "setup" /\ a.remote THEN "topics" ELSE "detect"]
  /\ result' = [result EXCEPT ![c] = "none"] /\ faults' = [faults EXCEPT ![c] = 0]
  /\ UNCHANGED <<github, mem, edits>>

TopicEnds(c, outcome) == Go(c, "detect", [mem[c] EXCEPT !.topic = outcome])

\* Faulty variant: the first read is not followed by an addition.
ReadOnlyTopics(c) ==
  /\ At(c, "topics")
  /\ \/ TopicEnds(c, "present") /\ Answered
     \/ Fault(c) /\ TopicEnds(c, "failed")
  /\ UNCHANGED <<github, edits>>

ReadTopics(c) ==
  /\ At(c, "topics")
  /\ \/ FederationTopic \in topics /\ TopicEnds(c, "present") /\ Answered
     \/ /\ FederationTopic \notin topics
        /\ Go(c, "addTopic", [mem[c] EXCEPT !.before = topics]) /\ Answered
     \/ Fault(c) /\ TopicEnds(c, "failed")
  /\ UNCHANGED <<github, edits>>

\* gh repo edit --add-topic; a failed one may have taken effect.
AddTopic(c) ==
  /\ At(c, "addTopic")
  /\ \/ topics' = topics \cup {FederationTopic} /\ GoTo(c, "topicsAgain") /\ Answered
     \/ /\ topics' \in {topics, topics \cup {FederationTopic}}
        /\ Fault(c) /\ TopicEnds(c, "failed")
  /\ UNCHANGED <<rulesets, created, classic, edits>>

\* The re-read: every topic read before must still be there, and the new one.
RereadTopics(c) ==
  /\ At(c, "topicsAgain")
  /\ \/ /\ TopicEnds(c, IF mem[c].before \cup {FederationTopic} \subseteq topics
                        THEN "added" ELSE "failed")
        /\ Answered
     \/ Fault(c) /\ TopicEnds(c, "failed")
  /\ UNCHANGED <<github, edits>>

\* detect_repository; without a git remote there is no repository.
Detect(c) ==
  /\ At(c, "detect")
  /\ \/ args[c].remote /\ GoTo(c, "rules") /\ Answered
     \/ ~args[c].remote /\ End(c, "unknown") /\ Answered
     \/ Fault(c) /\ End(c, "unknown")
  /\ UNCHANGED <<github, edits>>

\* Source A, and with it the beginning of an inspection.
ReadRules(c) ==
  /\ At(c, "rules")
  /\ \/ Go(c, "classic", [mem[c] EXCEPT !.rules = BranchStatus]) /\ Answered
     \/ Go(c, "classic", [mem[c] EXCEPT !.rules = Unreadable]) /\ Fault(c)
  /\ UNCHANGED <<github, edits>>

\* Faulty variant: an inspection that leaves something open is never acted upon.
DecideMissingOnly(c, compliance) ==
  IF mem[c].final \/ compliance # "non_conformant" \/ args[c].kind = "status"
  THEN End(c, compliance)
  ELSE IF MayWrite(args[c]) THEN GoTo(c, "list")
  ELSE IF args[c].interactive THEN GoTo(c, "ask")
  ELSE End(c, compliance)

\* What follows an inspection.
Decide(c, compliance) ==
  IF mem[c].final \/ compliance = "conformant" \/ args[c].kind = "status"
  THEN End(c, compliance)
  ELSE IF MayWrite(args[c]) THEN GoTo(c, "list")
  ELSE IF args[c].interactive /\ compliance = "non_conformant" THEN GoTo(c, "ask")
  ELSE End(c, compliance)

\* Source B, and the evaluation.
ReadClassic(c) ==
  /\ At(c, "classic")
  /\ \/ Decide(c, Compliance(mem[c].rules, ClassicStatus(classic))) /\ Answered
     \/ Decide(c, Compliance(mem[c].rules, Unreadable)) /\ Fault(c)
  /\ UNCHANGED <<github, edits>>

\* The question of interactive setup.
Ask(c) ==
  /\ At(c, "ask")
  /\ GoTo(c, "list") \/ End(c, "non_conformant")
  /\ UNCHANGED <<github, faults, edits>>

\* Faulty variant: rulesets of the reserved name that will not do are passed over.
ListCompatible(c) ==
  /\ At(c, "list")
  /\ \/ (\A r \in Reserved : ~Compatible(r.body)) /\ GoTo(c, "post") /\ Answered
     \/ (\E r \in Reserved : Compatible(r.body)) /\ End(c, "unknown") /\ Answered
     \/ Fault(c) /\ End(c, "unknown")
  /\ UNCHANGED <<github, edits>>

\* The repository's own rulesets: no candidate, one, or a conflict.
List(c) ==
  /\ At(c, "list")
  /\ \/ Reserved = {} /\ GoTo(c, "post") /\ Answered
     \/ \E r \in Reserved : /\ Reserved = {r}
                            /\ Go(c, "detail", [mem[c] EXCEPT !.found = r.id]) /\ Answered
     \/ (\E r, s \in Reserved : r # s) /\ End(c, "unknown") /\ Answered
     \/ Fault(c) /\ End(c, "unknown")
  /\ UNCHANGED <<github, edits>>

\* After an action, whatever it was, both sources are read again.
Reinspect(c) == Go(c, "rules", [mem[c] EXCEPT !.final = TRUE])

\* The full ruleset decides whether it will do; it may be gone by now.
Detail(c) ==
  /\ At(c, "detail")
  /\ LET suits == \E r \in rulesets : r.id = mem[c].found /\ Compatible(r.body)
     IN  \/ suits /\ Reinspect(c) /\ Answered
         \/ ~suits /\ End(c, "unknown") /\ Answered
         \/ Fault(c) /\ End(c, "unknown")
  /\ UNCHANGED <<github, edits>>

Create(body) ==
  /\ created < MaxRulesets
  /\ created' = created + 1
  /\ rulesets' = rulesets \cup {[id |-> created + 1, body |-> body]}

\* Faulty variant: a ruleset of the reserved name is replaced.
PutInstead(c) ==
  /\ At(c, "post")
  /\ created < MaxRulesets /\ created' = created + 1
  /\ rulesets' = (rulesets \ Reserved) \cup {[id |-> created + 1, body |-> Baseline]}
  /\ Reinspect(c) /\ Answered
  /\ UNCHANGED <<classic, topics, edits>>

\* The POST succeeds, or reports an error before or after it took effect.  An
\* error ends the step without a re-read.
Post(c) ==
  /\ At(c, "post")
  /\ \/ Create(Baseline) /\ Reinspect(c) /\ Answered
     \/ Create(Baseline) /\ Fault(c) /\ End(c, "unknown")
     \/ UNCHANGED <<rulesets, created>> /\ Fault(c) /\ End(c, "unknown")
  /\ UNCHANGED <<classic, topics, edits>>

Crash(c) ==
  /\ ~At(c, "idle")
  /\ End(c, "none")
  /\ UNCHANGED <<github, faults, edits>>

\* The owner edits the protection or the topics.
OwnerEdits ==
  /\ edits < MaxEdits /\ edits' = edits + 1
  /\ \/ classic' \in Classics \ {classic} /\ UNCHANGED <<rulesets, created, topics>>
     \/ (\E b \in OwnRulesets : Create(b)) /\ UNCHANGED <<classic, topics>>
     \/ /\ \E r \in rulesets : rulesets' = rulesets \ {r}
        /\ UNCHANGED <<created, classic, topics>>
     \/ /\ \E t \in Topics : topics' \in {topics \cup {t}, topics \ {t}}
        /\ UNCHANGED <<rulesets, created, classic>>
  /\ UNCHANGED <<pc, args, mem, result, faults>>

\* History, the same for every step.
Observe ==
  hist' = [c \in Commands |->
    IF pc'[c] = "idle" THEN NoHistory
    ELSE [since |-> (IF pc[c] = "rules" THEN {} ELSE hist[c].since) \cup InForce',
          topic |-> hist[c].topic \/ FederationTopic \in topics',
          listed |-> IF pc[c] = "list" THEN created ELSE hist[c].listed,
          alone |-> /\ pc[c] = "idle" \/ hist[c].alone
                    /\ edits' = edits /\ \A d \in Commands \ {c} : pc'[d] = "idle"]]

-----------------------------------------------------------------------------
Step(c) == \/ ReadTopics(c) \/ AddTopic(c) \/ RereadTopics(c) \/ Detect(c) \/ ReadRules(c)
           \/ ReadClassic(c) \/ Ask(c) \/ List(c) \/ Detail(c) \/ Post(c)

Command(c) == Begin(c) \/ Step(c) \/ Crash(c)

Next == ((\E c \in Commands : Command(c)) \/ OwnerEdits) /\ Observe

Spec == Init /\ [][Next]_vars

-----------------------------------------------------------------------------
(* Properties.                                                              *)

Reports(c, compliance) == pc[c] # "idle" /\ pc'[c] = "idle" /\ result'[c] = compliance

\* CONFORMANT is never said without evidence: each rule of the baseline was in
\* force on the branch at some moment of the inspection that says so, although
\* the two sources are read at different times and either may fail.
ConformantWasTrue ==
  [][\A c \in Commands : Reports(c, "conformant") => hist[c].since = Types]_vars

\* FEDERATION REGISTRATION COMPLETE: setup says so only if the topic was on
\* the repository while it ran, on top of a conformant branch.
RegistrationWasTrue ==
  [][\A c \in Commands :
       /\ Reports(c, "conformant") /\ args[c].kind = "setup" /\ args[c].remote
       /\ mem[c].topic \in {"present", "added"}
       => hist[c].topic /\ hist[c].since = Types]_vars

\* A command adds to the repository and takes nothing away: no ruleset is
\* changed or removed, not even one of the reserved name, and no topic; and
\* only commands that were told to write, or that asked, create anything.
OnlyAdditions ==
  [][edits' = edits =>
       /\ rulesets \subseteq rulesets' /\ topics \subseteq topics' /\ classic' = classic
       /\ rulesets' # rulesets =>
            \E c \in Commands : At(c, "post") /\ (MayWrite(args[c]) \/ args[c].interactive)]_vars

\* A command makes a second ruleset of the reserved name only if the first was
\* made after its own listing: repeated commands, lost answers and crashes do
\* not multiply the baseline, only writers that overlap do.
DuplicateNeedsOverlap ==
  [][\A c \in Commands :
       At(c, "post") /\ pc'[c] # "post" /\ rulesets' # rulesets
       => \A r \in Reserved : r.id > hist[c].listed]_vars

\* A ruleset of the reserved name that setup must not touch stands in the way.
Conflict == \/ \E r \in Reserved : ~Compatible(r.body)
            \/ \E r, s \in Reserved : r # s

\* A command that may write, whose calls succeed and whom nobody disturbs,
\* ends with a protected branch, whatever earlier commands left behind, unless
\* there is a conflict it must leave to the owner.
QuietApplyProtects ==
  [][\A c \in Commands :
       Reports(c, "unknown") \/ Reports(c, "non_conformant") =>
         ~MayWrite(args[c]) \/ ~hist[c].alone \/ faults'[c] > 0 \/ Conflict]_vars
=============================================================================
