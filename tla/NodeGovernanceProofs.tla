----------------------- MODULE NodeGovernanceProofs -----------------------
(***************************************************************************)
(* Proofs about NodeGovernance, for any set of commands, owner's edits,    *)
(* failures and bounds.  Types is the type invariant; Seen is what makes   *)
(* ConformantWasTrue inductive, Fresh what makes DuplicateNeedsOverlap so. *)
(***************************************************************************)
EXTENDS NodeGovernance, TLAPS

\* TypeOK without the history.
GithubOK ==
  /\ rulesets \subseteq Ruleset /\ created \in Nat
  /\ classic \in Classics /\ topics \subseteq Topics

CommandsOK ==
  /\ pc \in [Commands -> PCs]
  /\ args \in [Commands -> Args \cup {None}]
  /\ \A c \in Commands : pc[c] # "idle" => args[c] \in Args
  /\ mem \in [Commands -> Memory]
  /\ result \in [Commands -> {"none", "conformant", "non_conformant", "unknown"}]

\* What source A told a command was in force at some moment of its inspection,
\* and so is what is in force now.
Seen ==
  \A c \in Commands : At(c, "classic") =>
    /\ \A t \in Types : mem[c].rules[t] = "confirmed" => t \in hist[c].since
    /\ InForce \subseteq hist[c].since

\* Ids are given out in order, and a command about to create the ruleset saw
\* none of the reserved name among those of its listing.
Fresh ==
  /\ \A r \in rulesets : r.id <= created
  /\ \A c \in Commands : At(c, "post") =>
       /\ hist[c].listed <= created
       /\ \A r \in Reserved : r.id > hist[c].listed

-----------------------------------------------------------------------------
(* Lemmas about the operators the actions are built from.                   *)

\* NoMemory is a memory and NoHistory a history.
LEMMA EmptyTypes == NoMemory \in Memory /\ NoHistory \in History
BY DEF NoMemory, NoHistory, Memory, History, Unreadable, Statuses

\* What either source says is a status of each rule.
LEMMA StatusTypes == BranchStatus \in Statuses /\ Unreadable \in Statuses
BY DEF BranchStatus, Unreadable, Statuses

\* Compliance returns one of its three values.
LEMMA ComplianceType ==
  ASSUME NEW b, NEW p
  PROVE  Compliance(b, p) \in {"conformant", "non_conformant", "unknown"}
BY DEF Compliance

\* Going on keeps the commands' types.
LEMMA GoType ==
  ASSUME CommandsOK, NEW c \in Commands, NEW label \in PCs, NEW memory \in Memory,
         pc[c] # "idle", Go(c, label, memory)
  PROVE  CommandsOK'
BY DEF CommandsOK, Go

\* So does ending.
LEMMA EndType ==
  ASSUME CommandsOK, NEW c \in Commands,
         NEW compliance \in {"none", "conformant", "non_conformant", "unknown"},
         End(c, compliance)
  PROVE  CommandsOK'
BY EmptyTypes DEF CommandsOK, End, PCs

\* A fault, or none, keeps the counters' types.
LEMMA FaultType ==
  ASSUME faults \in [Commands -> Nat], NEW c \in Commands, Answered \/ Fault(c)
  PROVE  faults' \in [Commands -> Nat]
BY DEF Answered, Fault

\* Creating a ruleset keeps GitHub's types.
LEMMA CreateType ==
  ASSUME GithubOK, NEW body \in Body, Create(body)
  PROVE  rulesets' \subseteq Ruleset /\ created' \in Nat
BY DEF GithubOK, Create, Ruleset

\* What follows an inspection keeps the commands' types.
LEMMA DecideType ==
  ASSUME CommandsOK, NEW c \in Commands, pc[c] # "idle",
         NEW compliance \in {"conformant", "non_conformant", "unknown"},
         Decide(c, compliance)
  PROVE  CommandsOK'
<1>1. mem[c] \in Memory
  BY DEF CommandsOK
<1>2. CASE End(c, compliance)
  BY <1>2, EndType
<1>3. CASE GoTo(c, "list")
  BY <1>1, <1>3, GoType DEF GoTo, PCs
<1>4. CASE GoTo(c, "ask")
  BY <1>1, <1>4, GoType DEF GoTo, PCs
<1> QED
  BY <1>2, <1>3, <1>4 DEF Decide

\* The memory of a command with one field replaced.
LEMMA MemoryUpdate ==
  ASSUME NEW m \in Memory
  PROVE  /\ \A o \in {"skipped", "present", "added", "failed"} :
              [m EXCEPT !.topic = o] \in Memory
         /\ \A s \in SUBSET Topics : [m EXCEPT !.before = s] \in Memory
         /\ \A s \in Statuses : [m EXCEPT !.rules = s] \in Memory
         /\ \A i \in Nat : [m EXCEPT !.found = i] \in Memory
         /\ [m EXCEPT !.final = TRUE] \in Memory
BY DEF Memory

-----------------------------------------------------------------------------
(* Type correctness.                                                        *)

\* The initial state has the types.
LEMMA InitType == Init => GithubOK /\ CommandsOK
<1> SUFFICES ASSUME Init PROVE GithubOK /\ CommandsOK
  OBVIOUS
<1>1. rulesets \subseteq Ruleset
  BY BodyAssumption DEF Init, Ruleset
<1>2. GithubOK
  BY <1>1 DEF Init, GithubOK
<1>3. CommandsOK
  BY EmptyTypes DEF Init, CommandsOK, PCs
<1> QED
  BY <1>2, <1>3

\* Each step of a command keeps the types of all but the history.
LEMMA CommandType ==
  ASSUME GithubOK, CommandsOK, faults \in [Commands -> Nat], NEW c \in Commands, Command(c)
  PROVE  GithubOK' /\ CommandsOK' /\ faults' \in [Commands -> Nat]
<1>0. mem[c] \in Memory
  BY DEF CommandsOK
<1>a. "idle" \in PCs /\ \A l \in {"topics", "addTopic", "topicsAgain", "detect", "rules", "classic",
                        "ask", "list", "detail", "post"} : l \in PCs
  BY DEF PCs
<1>1. CASE Begin(c)
  BY <1>1, <1>a DEF Begin, GithubOK, CommandsOK, github
<1>2. CASE ReadTopics(c)
  <2>1. GithubOK' /\ faults' \in [Commands -> Nat]
    BY <1>2, FaultType DEF ReadTopics, GithubOK, github
  <2>2. topics \in SUBSET Topics
    BY DEF GithubOK
  <2>3. CommandsOK'
    <3>1. CASE TopicEnds(c, "present") \/ TopicEnds(c, "failed")
      BY <1>0, <1>2, <1>a, <3>1, MemoryUpdate, GoType DEF ReadTopics, At, TopicEnds
    <3>2. CASE Go(c, "addTopic", [mem[c] EXCEPT !.before = topics])
      BY <1>0, <1>2, <1>a, <2>2, <3>2, MemoryUpdate, GoType DEF ReadTopics, At
    <3> QED
      BY <1>2, <3>1, <3>2 DEF ReadTopics
  <2> QED
    BY <2>1, <2>3
<1>3. CASE AddTopic(c)
  <2>1. GithubOK' /\ faults' \in [Commands -> Nat]
    BY <1>3, FaultType, TypesAssumption DEF AddTopic, GithubOK
  <2>2. CommandsOK'
    BY <1>0, <1>3, <1>a, MemoryUpdate, GoType DEF AddTopic, At, TopicEnds, GoTo
  <2> QED
    BY <2>1, <2>2
<1>4. CASE RereadTopics(c)
  <2>1. GithubOK' /\ faults' \in [Commands -> Nat]
    BY <1>4, FaultType DEF RereadTopics, GithubOK, github
  <2>2. CommandsOK'
    <3>1. PICK o \in {"added", "failed"} : TopicEnds(c, o)
      BY <1>4 DEF RereadTopics
    <3> QED
      BY <1>0, <1>4, <1>a, <3>1, MemoryUpdate, GoType DEF RereadTopics, At, TopicEnds
  <2> QED
    BY <2>1, <2>2
<1>5. CASE Detect(c)
  <2>1. GithubOK' /\ faults' \in [Commands -> Nat]
    BY <1>5, FaultType DEF Detect, GithubOK, github
  <2>2. CommandsOK'
    BY <1>0, <1>5, <1>a, GoType, EndType DEF Detect, At, GoTo
  <2> QED
    BY <2>1, <2>2
<1>6. CASE ReadRules(c)
  <2>1. GithubOK' /\ faults' \in [Commands -> Nat]
    BY <1>6, FaultType DEF ReadRules, GithubOK, github
  <2>2. CommandsOK'
    BY <1>0, <1>6, <1>a, MemoryUpdate, StatusTypes, GoType DEF ReadRules, At
  <2> QED
    BY <2>1, <2>2
<1>7. CASE ReadClassic(c)
  <2>1. GithubOK' /\ faults' \in [Commands -> Nat]
    BY <1>7, FaultType DEF ReadClassic, GithubOK, github
  <2>2. CommandsOK'
    BY <1>7, ComplianceType, DecideType DEF ReadClassic, At
  <2> QED
    BY <2>1, <2>2
<1>8. CASE Ask(c)
  <2>1. GithubOK' /\ faults' \in [Commands -> Nat]
    BY <1>8 DEF Ask, GithubOK, github
  <2>2. CommandsOK'
    BY <1>0, <1>8, <1>a, GoType, EndType DEF Ask, At, GoTo
  <2> QED
    BY <2>1, <2>2
<1>9. CASE List(c)
  <2>1. GithubOK' /\ faults' \in [Commands -> Nat]
    BY <1>9, FaultType DEF List, GithubOK, github
  <2>2. \A r \in Reserved : r.id \in Nat
    BY DEF Reserved, GithubOK, Ruleset
  <2>3. CommandsOK'
    BY <1>0, <1>9, <1>a, <2>2, MemoryUpdate, GoType, EndType DEF List, At, GoTo
  <2> QED
    BY <2>1, <2>3
<1>10. CASE Detail(c)
  <2>1. GithubOK' /\ faults' \in [Commands -> Nat]
    BY <1>10, FaultType DEF Detail, GithubOK, github
  <2>2. CommandsOK'
    BY <1>0, <1>10, <1>a, MemoryUpdate, GoType, EndType DEF Detail, At, Reinspect
  <2> QED
    BY <2>1, <2>2
<1>11. CASE Post(c)
  <2>1. Baseline \in Body
    BY DEF Baseline, Body
  <2>2. faults' \in [Commands -> Nat]
    BY <1>11, FaultType DEF Post
  <2>3. rulesets' \subseteq Ruleset /\ created' \in Nat
    BY <1>11, <2>1, CreateType DEF Post, GithubOK
  <2>4. GithubOK'
    BY <1>11, <2>3 DEF Post, GithubOK
  <2>5. CommandsOK'
    BY <1>0, <1>11, <1>a, MemoryUpdate, GoType, EndType DEF Post, At, Reinspect
  <2> QED
    BY <2>2, <2>4, <2>5
<1>12. CASE Crash(c)
  BY <1>12, EndType DEF Crash, GithubOK, github
<1> QED
  BY <1>1, <1>2, <1>3, <1>4, <1>5, <1>6, <1>7, <1>8, <1>9, <1>10, <1>11, <1>12
  DEF Command, Step

\* So does an edit of the owner.
LEMMA OwnerType ==
  ASSUME GithubOK, CommandsOK, OwnerEdits
  PROVE  GithubOK' /\ CommandsOK'
<1>1. CommandsOK'
  BY DEF OwnerEdits, CommandsOK
<1>2. CASE (\E b \in OwnRulesets : Create(b)) /\ UNCHANGED <<classic, topics>>
  <2>1. PICK b \in Body : Create(b)
    BY <1>2, BodyAssumption
  <2> QED
    BY <1>1, <1>2, <2>1, CreateType DEF GithubOK
<1>3. CASE (\E r \in rulesets : rulesets' = rulesets \ {r}) /\ UNCHANGED <<created, classic, topics>>
  <2>1. rulesets' \subseteq rulesets
    BY <1>3
  <2> QED
    BY <1>1, <1>3, <2>1 DEF GithubOK
<1>4. CASE /\ \E t \in Topics : topics' \in {topics \cup {t}, topics \ {t}}
           /\ UNCHANGED <<rulesets, created, classic>>
  <2>1. topics' \subseteq Topics
    BY <1>4 DEF GithubOK
  <2> QED
    BY <1>1, <1>4, <2>1 DEF GithubOK
<1>5. CASE classic' \in Classics \ {classic} /\ UNCHANGED <<rulesets, created, topics>>
  BY <1>1, <1>5 DEF GithubOK
<1> QED
  BY <1>2, <1>3, <1>4, <1>5 DEF OwnerEdits

\* The rules in force are rules of the baseline's types.
LEMMA InForceType == GithubOK' => InForce' \subseteq Types
BY TypesAssumption DEF GithubOK, InForce, BranchRules, Ruleset, Body, Classic

\* The history keeps its type.
LEMMA HistoryType ==
  ASSUME GithubOK, hist \in [Commands -> History], GithubOK', Observe
  PROVE  hist' \in [Commands -> History]
<1> SUFFICES ASSUME NEW c \in Commands PROVE hist'[c] \in History
  BY DEF Observe
<1>1. CASE pc'[c] = "idle"
  BY <1>1, EmptyTypes DEF Observe
<1>2. CASE pc'[c] # "idle"
  <2>1. hist[c] \in History /\ created \in Nat
    BY DEF GithubOK
  <2> DEFINE s == (IF pc[c] = "rules" THEN {} ELSE hist[c].since) \cup InForce'
             b == hist[c].topic \/ FederationTopic \in topics'
             n == IF pc[c] = "list" THEN created ELSE hist[c].listed
             a == /\ pc[c] = "idle" \/ hist[c].alone
                  /\ edits' = edits /\ \A d \in Commands \ {c} : pc'[d] = "idle"
  <2>2. s \in SUBSET Types
    BY <2>1, InForceType DEF History
  <2>3. n \in Nat
    BY <2>1 DEF History
  <2>4. b \in BOOLEAN /\ a \in BOOLEAN
    OBVIOUS
  <2>5. hist'[c] = [since |-> s, topic |-> b, listed |-> n, alone |-> a]
    BY <1>2 DEF Observe
  <2> HIDE DEF s, b, n, a
  <2> QED
    BY <2>2, <2>3, <2>4, <2>5 DEF History
<1> QED
  BY <1>1, <1>2

\* Every state has the types TypeOK gives its variables, whatever the number of
\* commands, of the owner's edits, of failed calls and of rulesets.
THEOREM TypeCorrect == Spec => []TypeOK
<1>1. Init => TypeOK
  BY InitType, EmptyTypes DEF Init, TypeOK, GithubOK, CommandsOK
<1>2. TypeOK /\ [Next]_vars => TypeOK'
  <2> SUFFICES ASSUME TypeOK, [Next]_vars PROVE TypeOK'
    OBVIOUS
  <2>1. GithubOK /\ CommandsOK /\ faults \in [Commands -> Nat]
    BY DEF TypeOK, GithubOK, CommandsOK
  <2>2. CASE UNCHANGED vars
    BY <2>2 DEF vars, github, TypeOK
  <2>3. CASE Next
    <3>1. GithubOK' /\ CommandsOK' /\ faults' \in [Commands -> Nat] /\ edits' \in Nat
      <4>1. ASSUME NEW c \in Commands, Command(c) PROVE edits' \in Nat
        BY <4>1 DEF Command, Step, Begin, ReadTopics, AddTopic, RereadTopics, Detect, ReadRules,
                    ReadClassic, Ask, List, Detail, Post, Crash, TypeOK
      <4>2. CASE \E c \in Commands : Command(c)
        BY <2>1, <4>1, <4>2, CommandType
      <4>3. CASE OwnerEdits
        BY <2>1, <4>3, OwnerType DEF OwnerEdits, TypeOK
      <4> QED
        BY <2>3, <4>2, <4>3 DEF Next
    <3>2. hist' \in [Commands -> History]
      BY <2>1, <2>3, <3>1, HistoryType DEF Next, TypeOK
    <3> QED
      BY <3>1, <3>2 DEF TypeOK, GithubOK, CommandsOK
  <2> QED
    BY <2>2, <2>3
<1> QED
  BY <1>1, <1>2, PTL DEF Spec

-----------------------------------------------------------------------------
(* What a command has seen.                                                 *)

\* A report of conformant comes from the evaluation of the two sources.
LEMMA ConformantFromClassic ==
  ASSUME NEW c \in Commands, CommandsOK, Next, Reports(c, "conformant")
  PROVE  /\ At(c, "classic")
         /\ \/ Compliance(mem[c].rules, ClassicStatus(classic)) = "conformant"
            \/ Compliance(mem[c].rules, Unreadable) = "conformant"
<1>1. PICK d \in Commands : Command(d)
  BY DEF Next, OwnerEdits, Reports
<1>2. c = d
  BY <1>1 DEF Command, Step, Begin, ReadTopics, AddTopic, RereadTopics, Detect, ReadRules, ReadClassic,
     Ask, List, Detail, Post, Crash, Decide, GoTo, Go, TopicEnds, Reinspect, End, Reports, CommandsOK
<1>3. ReadClassic(c)
  <2>1. ASSUME NEW compliance \in {"none", "unknown", "non_conformant"} PROVE ~End(c, compliance)
    BY <2>1 DEF End, Reports, CommandsOK
  <2>2. ASSUME NEW label \in PCs \ {"idle"}, NEW memory PROVE ~Go(c, label, memory)
    BY <2>2 DEF Go, Reports, CommandsOK
  <2> QED
    BY <1>1, <1>2, <2>1, <2>2 DEF Command, Step, Begin, ReadTopics, AddTopic, RereadTopics, Detect,
       ReadRules, Ask, List, Detail, Post, Crash, GoTo, TopicEnds, Reinspect, Reports, At, PCs
<1>4. ASSUME NEW compliance, Decide(c, compliance) PROVE compliance = "conformant"
  BY <1>4 DEF Decide, GoTo, Go, End, Reports, CommandsOK
<1> QED
  BY <1>3, <1>4 DEF ReadClassic

\* A step of one command leaves the others where they are.
LEMMA Others ==
  ASSUME NEW c \in Commands, NEW d \in Commands, c # d, CommandsOK, Command(d)
  PROVE  pc'[c] = pc[c] /\ mem'[c] = mem[c]
<1>1. ASSUME NEW label, NEW memory, Go(d, label, memory) PROVE pc'[c] = pc[c] /\ mem'[c] = mem[c]
  BY <1>1 DEF Go, CommandsOK
<1>2. ASSUME NEW compliance, End(d, compliance) PROVE pc'[c] = pc[c] /\ mem'[c] = mem[c]
  BY <1>2 DEF End, CommandsOK
<1>3. ASSUME NEW compliance, Decide(d, compliance) PROVE pc'[c] = pc[c] /\ mem'[c] = mem[c]
  BY <1>1, <1>2, <1>3 DEF Decide, GoTo
<1>4. CASE Begin(d)
  BY <1>4 DEF Begin, CommandsOK
<1>5. CASE ReadClassic(d)
  BY <1>3, <1>5 DEF ReadClassic
<1> QED
  BY <1>1, <1>2, <1>4, <1>5 DEF Command, Step, ReadTopics, AddTopic, RereadTopics, Detect, ReadRules,
     Ask, List, Detail, Post, Crash, GoTo, TopicEnds, Reinspect

\* A command comes to source B by reading source A.
LEMMA ToClassic ==
  ASSUME NEW c \in Commands, CommandsOK, Command(c), pc'[c] = "classic"
  PROVE  ReadRules(c)
<1>1. ASSUME NEW label, label # "classic", NEW memory PROVE ~Go(c, label, memory)
  BY <1>1 DEF Go, CommandsOK
<1>2. ASSUME NEW compliance PROVE ~End(c, compliance)
  BY DEF End, CommandsOK
<1>3. ASSUME NEW compliance PROVE ~Decide(c, compliance)
  BY <1>1, <1>2 DEF Decide, GoTo
<1>4. ~Begin(c)
  BY DEF Begin, CommandsOK
<1> QED
  BY <1>1, <1>2, <1>3, <1>4 DEF Command, Step, ReadTopics, AddTopic, RereadTopics, Detect,
     ReadClassic, Ask, List, Detail, Post, Crash, GoTo, TopicEnds, Reinspect

\* A command comes to create the ruleset by a listing without one.
LEMMA ToPost ==
  ASSUME NEW c \in Commands, CommandsOK, Command(c), pc'[c] = "post"
  PROVE  List(c) /\ Reserved = {}
<1>1. ASSUME NEW label, label # "post", NEW memory PROVE ~Go(c, label, memory)
  BY <1>1 DEF Go, CommandsOK
<1>2. ASSUME NEW compliance PROVE ~End(c, compliance)
  BY DEF End, CommandsOK
<1>3. ASSUME NEW compliance PROVE ~Decide(c, compliance)
  BY <1>1, <1>2 DEF Decide, GoTo
<1>4. ~Begin(c)
  BY DEF Begin, CommandsOK
<1> QED
  BY <1>1, <1>2, <1>3, <1>4 DEF Command, Step, ReadTopics, AddTopic, RereadTopics, Detect,
     ReadRules, ReadClassic, Ask, List, Detail, Post, Crash, GoTo, TopicEnds, Reinspect

\* What a command has seen stays seen.
LEMMA SeenStep ==
  ASSUME CommandsOK, Seen, Next
  PROVE  Seen'
<1> SUFFICES ASSUME NEW c \in Commands, pc'[c] = "classic"
             PROVE  /\ \A t \in Types : mem'[c].rules[t] = "confirmed" => t \in hist'[c].since
                    /\ InForce' \subseteq hist'[c].since
  BY DEF Seen, At
<1>1. hist'[c].since = (IF pc[c] = "rules" THEN {} ELSE hist[c].since) \cup InForce'
  BY DEF Next, Observe
<1>2. CASE pc[c] = "classic" /\ mem'[c] = mem[c]
  BY <1>1, <1>2 DEF Seen, At
<1>3. CASE ReadRules(c)
  <2>1. InForce' = InForce
    BY <1>3 DEF ReadRules, github, InForce, BranchRules
  <2>2. mem'[c].rules \in {BranchStatus, Unreadable}
    BY <1>3 DEF ReadRules, Go, CommandsOK, Memory
  <2>3. \A t \in Types : mem'[c].rules[t] = "confirmed" => t \in InForce
    BY <2>2 DEF BranchStatus, Unreadable, InForce
  <2> QED
    BY <1>1, <2>1, <2>3
<1>4. CASE OwnerEdits
  BY <1>2, <1>4 DEF OwnerEdits
<1>5. CASE \E d \in Commands : Command(d)
  BY <1>2, <1>3, <1>5, Others, ToClassic
<1> QED
  BY <1>4, <1>5 DEF Next

\* Ids stay in order, and what a command was not shown stays newer than its
\* listing.
LEMMA FreshStep ==
  ASSUME GithubOK, CommandsOK, hist \in [Commands -> History], Fresh, Next
  PROVE  Fresh'
<1>1. /\ created' >= created /\ created' \in Nat
      /\ \A r \in rulesets' : r \in rulesets \/ r.id = created'
      /\ \A r \in rulesets' \ rulesets : r.id > created
  <2>1. ASSUME NEW body, Create(body)
        PROVE  /\ created' = created + 1
               /\ \A r \in rulesets' : r \in rulesets \/ r.id = created'
    BY <2>1 DEF Create
  <2>2. CASE \E body : Create(body)
    BY <2>1, <2>2 DEF GithubOK
  <2>3. CASE rulesets' \subseteq rulesets /\ created' = created
    BY <2>3 DEF GithubOK
  <2>4. ASSUME NEW c \in Commands, Command(c)
        PROVE  (\E body : Create(body)) \/ (rulesets' = rulesets /\ created' = created)
    BY <2>4 DEF Command, Step, Begin, ReadTopics, AddTopic, RereadTopics, Detect, ReadRules,
                ReadClassic, Ask, List, Detail, Post, Crash, github
  <2>5. ASSUME OwnerEdits
        PROVE  (\E body : Create(body)) \/ (rulesets' \subseteq rulesets /\ created' = created)
    BY <2>5 DEF OwnerEdits
  <2> QED
    BY <2>2, <2>3, <2>4, <2>5 DEF Next
<1>2. \A r \in rulesets' : r.id <= created'
  BY <1>1 DEF Fresh, GithubOK, Ruleset
<1>3. ASSUME NEW c \in Commands, pc'[c] = "post"
      PROVE  /\ hist'[c].listed <= created'
             /\ \A r \in Reserved' : r.id > hist'[c].listed
  <2>1. hist'[c].listed = IF pc[c] = "list" THEN created ELSE hist[c].listed
    BY <1>3 DEF Next, Observe
  <2>2. CASE pc[c] = "post"
    <3>1. hist'[c].listed = hist[c].listed /\ hist[c].listed <= created
      BY <2>1, <2>2 DEF Fresh, At
    <3>2. hist[c].listed \in Nat /\ created \in Nat
      BY DEF GithubOK, History
    <3>3. ASSUME NEW r \in Reserved' PROVE r.id > hist[c].listed
      <4>1. CASE r \in Reserved
        BY <2>2, <4>1 DEF Fresh, At
      <4>2. CASE r \in rulesets' /\ r.id = created' /\ r.id > created
        BY <1>1, <3>1, <3>2, <4>2
      <4> QED
        BY <1>1, <4>1, <4>2 DEF Reserved
    <3> QED
      BY <1>1, <3>1, <3>2, <3>3
  <2>3. CASE List(c) /\ Reserved = {}
    BY <1>1, <2>1, <2>3 DEF List, At, Reserved, github
  <2>4. CASE OwnerEdits
    BY <1>3, <2>2, <2>4 DEF OwnerEdits
  <2>5. CASE \E d \in Commands : Command(d)
    BY <1>3, <2>2, <2>3, <2>5, Others, ToPost
  <2> QED
    BY <2>4, <2>5 DEF Next
<1> QED
  BY <1>2, <1>3 DEF Fresh, At

-----------------------------------------------------------------------------
(* The safety properties.                                                   *)

\* The inductive invariant.
IInv == TypeOK /\ Seen /\ Fresh

\* Every state satisfies it.
LEMMA Invariant == Spec => []IInv
<1>1. Init => Seen /\ Fresh
  BY DEF Init, Seen, Fresh, At
<1>2. TypeOK /\ Seen /\ Fresh /\ [Next]_vars => Seen' /\ Fresh'
  <2> SUFFICES ASSUME TypeOK, Seen, Fresh, [Next]_vars PROVE Seen' /\ Fresh'
    OBVIOUS
  <2>1. GithubOK /\ CommandsOK /\ hist \in [Commands -> History]
    BY DEF TypeOK, GithubOK, CommandsOK
  <2>2. CASE UNCHANGED vars
    BY <2>2 DEF vars, github, Seen, Fresh, At, InForce, BranchRules, Reserved
  <2>3. CASE Next
    BY <2>1, <2>3, SeenStep, FreshStep
  <2> QED
    BY <2>2, <2>3
<1> QED
  BY <1>1, <1>2, TypeCorrect, PTL DEF Spec, IInv

\* Nobody is told conformant, or that the registration is complete, without
\* evidence: each rule of the baseline was in force at some moment of the
\* inspection that says so, however the owner and other commands change the
\* protection between the reads of the two sources and whichever read fails.
THEOREM ConformantIsTrue == Spec => ConformantWasTrue
<1>1. IInv /\ [Next]_vars
      => \A c \in Commands : Reports(c, "conformant") => hist[c].since = Types
  <2> SUFFICES ASSUME IInv, [Next]_vars, NEW c \in Commands, Reports(c, "conformant")
               PROVE  hist[c].since = Types
    OBVIOUS
  <2>1. CommandsOK /\ hist[c] \in History
    BY DEF IInv, TypeOK, CommandsOK
  <2>2. Next
    BY DEF Reports, vars
  <2>3. /\ At(c, "classic")
        /\ \/ Compliance(mem[c].rules, ClassicStatus(classic)) = "conformant"
           \/ Compliance(mem[c].rules, Unreadable) = "conformant"
    BY <2>1, <2>2, ConformantFromClassic
  <2>4. ASSUME NEW b, NEW p, Compliance(b, p) = "conformant", NEW t \in Types
        PROVE  b[t] = "confirmed" \/ p[t] = "confirmed"
    <3>1. RuleStatus(t, b, p) = "confirmed"
      BY <2>4 DEF Compliance
    <3> QED
      BY <3>1 DEF RuleStatus
  <2>5. ASSUME NEW t \in Types PROVE t \in hist[c].since
    <3>1. mem[c].rules[t] = "confirmed" \/ ClassicStatus(classic)[t] = "confirmed"
      BY <2>3, <2>4 DEF Unreadable
    <3>2. ClassicStatus(classic)[t] = "confirmed" => t \in InForce
      BY DEF ClassicStatus, InForce
    <3> QED
      BY <2>3, <3>1, <3>2 DEF IInv, Seen
  <2> QED
    BY <2>1, <2>5 DEF History
<1> QED
  BY <1>1, Invariant, PTL DEF Spec, ConformantWasTrue

\* A command never makes a second ruleset of the reserved name next to one that
\* was there when it listed them: whatever commands were repeated, died or lost
\* an answer before, only a writer that overlaps with it can make it a second.
THEOREM DuplicatesOverlap == Spec => DuplicateNeedsOverlap
<1>1. IInv /\ [Next]_vars
      => \A c \in Commands : At(c, "post") /\ pc'[c] # "post" /\ rulesets' # rulesets
                              => \A r \in Reserved : r.id > hist[c].listed
  BY DEF IInv, Fresh
<1> QED
  BY <1>1, Invariant, PTL DEF Spec, DuplicateNeedsOverlap

-----------------------------------------------------------------------------
(* The way of one command.                                                  *)

\* The registration reports the topic only after it was there.
TopicSeen ==
  \A c \in Commands :
    /\ pc[c] = "idle" => mem[c].topic = "skipped"
    /\ mem[c].topic \in {"present", "added"} => hist[c].topic

\* Who gets to the listing was told to write, or asked; the last inspection is
\* the one after an action.
Told ==
  \A c \in Commands :
    /\ pc[c] = "ask" => ~MayWrite(args[c]) /\ args[c].interactive
    /\ pc[c] \in {"list", "detail", "post"} => MayWrite(args[c]) \/ args[c].interactive
    /\ mem[c].final => pc[c] \in {"rules", "classic"}

\* What the memory says after one field is replaced.
LEMMA MemoryFields ==
  ASSUME NEW m \in Memory
  PROVE  /\ \A o : [m EXCEPT !.topic = o].topic = o /\ [m EXCEPT !.topic = o].final = m.final
         /\ \A s : [m EXCEPT !.before = s].topic = m.topic /\ [m EXCEPT !.before = s].final = m.final
         /\ \A s : /\ [m EXCEPT !.rules = s].topic = m.topic /\ [m EXCEPT !.rules = s].final = m.final
                   /\ [m EXCEPT !.rules = s].rules = s
         /\ \A i : /\ [m EXCEPT !.found = i].topic = m.topic /\ [m EXCEPT !.found = i].final = m.final
                   /\ [m EXCEPT !.found = i].found = i
         /\ [m EXCEPT !.final = TRUE].topic = m.topic /\ [m EXCEPT !.final = TRUE].final = TRUE
BY DEF Memory

\* What going on and ending do to the command itself.
LEMMA GoMoves ==
  ASSUME CommandsOK, NEW c \in Commands, NEW label, NEW memory, Go(c, label, memory)
  PROVE  pc'[c] = label /\ mem'[c] = memory /\ args'[c] = args[c] /\ result'[c] = result[c]
BY DEF Go, CommandsOK

LEMMA EndMoves ==
  ASSUME CommandsOK, NEW c \in Commands, NEW compliance, End(c, compliance)
  PROVE  pc'[c] = "idle" /\ mem'[c] = NoMemory /\ result'[c] = compliance
BY DEF End, CommandsOK

LEMMA MovesOn ==
  ASSUME CommandsOK, NEW c \in Commands
  PROVE  /\ \A o : TopicEnds(c, o) =>
              /\ pc'[c] = "detect" /\ args'[c] = args[c]
              /\ mem'[c].topic = o /\ mem'[c].final = mem[c].final
         /\ \A label : GoTo(c, label) => pc'[c] = label /\ mem'[c] = mem[c] /\ args'[c] = args[c]
         /\ Reinspect(c) => /\ pc'[c] = "rules" /\ args'[c] = args[c]
                            /\ mem'[c].topic = mem[c].topic /\ mem'[c].final
<1>0. mem[c] \in Memory
  BY DEF CommandsOK
<1>1. ASSUME NEW o, TopicEnds(c, o)
      PROVE  /\ pc'[c] = "detect" /\ args'[c] = args[c]
             /\ mem'[c].topic = o /\ mem'[c].final = mem[c].final
  <2>1. pc'[c] = "detect" /\ args'[c] = args[c] /\ mem'[c] = [mem[c] EXCEPT !.topic = o]
    BY <1>1, GoMoves DEF TopicEnds
  <2> QED
    BY <1>0, <2>1, MemoryFields
<1>2. ASSUME NEW label, GoTo(c, label)
      PROVE  pc'[c] = label /\ mem'[c] = mem[c] /\ args'[c] = args[c]
  BY <1>2, GoMoves DEF GoTo
<1>3. ASSUME Reinspect(c)
      PROVE  /\ pc'[c] = "rules" /\ args'[c] = args[c]
             /\ mem'[c].topic = mem[c].topic /\ mem'[c].final
  <2>1. pc'[c] = "rules" /\ args'[c] = args[c] /\ mem'[c] = [mem[c] EXCEPT !.final = TRUE]
    BY <1>3, GoMoves DEF Reinspect
  <2> QED
    BY <1>0, <2>1, MemoryFields
<1> QED
  BY <1>1, <1>2, <1>3

\* Where a command goes from where it is, and what it remembers of the topic.
Moves(c) ==
  \/ pc[c] = "idle" /\ pc'[c] \in {"topics", "detect"} /\ mem'[c] = mem[c]
  \/ pc[c] # "idle" /\ pc'[c] = "idle" /\ mem'[c] = NoMemory
  \/ /\ args'[c] = args[c]
     /\ \/ /\ pc[c] \in {"topics", "addTopic", "topicsAgain"}
           /\ pc'[c] \in {"addTopic", "topicsAgain", "detect"}
           /\ mem'[c].final = mem[c].final
           /\ mem'[c].topic \in {mem[c].topic, "failed"} \/ FederationTopic \in topics'
        \/ pc[c] = "detect" /\ pc'[c] = "rules" /\ mem'[c] = mem[c]
        \/ /\ pc[c] = "rules" /\ pc'[c] = "classic"
           /\ mem'[c].topic = mem[c].topic /\ mem'[c].final = mem[c].final
        \/ /\ pc[c] = "classic" /\ mem'[c] = mem[c] /\ ~mem[c].final
           /\ \/ pc'[c] = "list" /\ MayWrite(args[c])
              \/ pc'[c] = "ask" /\ ~MayWrite(args[c]) /\ args[c].interactive
        \/ pc[c] = "ask" /\ pc'[c] = "list" /\ mem'[c] = mem[c]
        \/ /\ pc[c] = "list" /\ pc'[c] \in {"detail", "post"}
           /\ mem'[c].topic = mem[c].topic /\ mem'[c].final = mem[c].final
        \/ /\ pc[c] \in {"detail", "post"} /\ pc'[c] = "rules"
           /\ mem'[c].topic = mem[c].topic /\ mem'[c].final

LEMMA CommandMoves ==
  ASSUME CommandsOK, NEW c \in Commands, Command(c)
  PROVE  Moves(c)
<1>0. mem[c] \in Memory
  BY DEF CommandsOK
<1>1. CASE Begin(c)
  BY <1>1 DEF Begin, CommandsOK, At, Moves
<1>2. ASSUME pc[c] # "idle", NEW compliance, End(c, compliance) PROVE Moves(c)
  BY <1>2, EndMoves DEF Moves
<1>3. CASE ReadTopics(c)
  <2>0. pc[c] = "topics" /\ topics' = topics
    BY <1>3 DEF ReadTopics, At, github
  <2>1. CASE FederationTopic \in topics /\ TopicEnds(c, "present")
    BY <2>0, <2>1, MovesOn DEF Moves
  <2>2. CASE Go(c, "addTopic", [mem[c] EXCEPT !.before = topics])
    <3>1. /\ pc'[c] = "addTopic" /\ args'[c] = args[c]
          /\ mem'[c] = [mem[c] EXCEPT !.before = topics]
      BY <2>2, GoMoves
    <3>2. mem'[c].topic = mem[c].topic /\ mem'[c].final = mem[c].final
      BY <1>0, <3>1, MemoryFields
    <3> QED
      BY <2>0, <3>1, <3>2 DEF Moves
  <2>3. CASE TopicEnds(c, "failed")
    BY <2>0, <2>3, MovesOn DEF Moves
  <2> QED
    BY <1>3, <2>1, <2>2, <2>3 DEF ReadTopics
<1>4. CASE AddTopic(c)
  <2>0. pc[c] = "addTopic"
    BY <1>4 DEF AddTopic, At
  <2>1. CASE GoTo(c, "topicsAgain")
    BY <2>0, <2>1, MovesOn DEF Moves
  <2>2. CASE TopicEnds(c, "failed")
    BY <2>0, <2>2, MovesOn DEF Moves
  <2> QED
    BY <1>4, <2>1, <2>2 DEF AddTopic
<1>5. CASE RereadTopics(c)
  <2>0. pc[c] = "topicsAgain" /\ topics' = topics
    BY <1>5 DEF RereadTopics, At, github
  <2>1. CASE FederationTopic \in topics
    <3>1. PICK o : TopicEnds(c, o)
      BY <1>5 DEF RereadTopics
    <3> QED
      BY <2>0, <2>1, <3>1, MovesOn DEF Moves
  <2>2. CASE FederationTopic \notin topics
    <3>1. TopicEnds(c, "failed")
      BY <1>5, <2>2 DEF RereadTopics
    <3> QED
      BY <2>0, <3>1, MovesOn DEF Moves
  <2> QED
    BY <2>1, <2>2
<1>6. CASE Detect(c)
  <2>0. pc[c] = "detect"
    BY <1>6 DEF Detect, At
  <2>1. CASE GoTo(c, "rules")
    BY <2>0, <2>1, MovesOn DEF Moves
  <2> QED
    BY <1>2, <1>6, <2>0, <2>1 DEF Detect
<1>7. CASE ReadRules(c)
  <2>1. PICK status : Go(c, "classic", [mem[c] EXCEPT !.rules = status])
    BY <1>7 DEF ReadRules
  <2>2. /\ pc'[c] = "classic" /\ args'[c] = args[c]
        /\ mem'[c] = [mem[c] EXCEPT !.rules = status]
    BY <2>1, GoMoves
  <2>3. mem'[c].topic = mem[c].topic /\ mem'[c].final = mem[c].final
    BY <1>0, <2>2, MemoryFields
  <2> QED
    BY <1>7, <2>2, <2>3 DEF ReadRules, At, Moves
<1>8. CASE ReadClassic(c)
  <2>1. PICK compliance : Decide(c, compliance)
    BY <1>8 DEF ReadClassic
  <2>2. pc[c] = "classic"
    BY <1>8 DEF ReadClassic, At
  <2>3. CASE End(c, compliance)
    BY <1>2, <2>2, <2>3
  <2>4. CASE ~mem[c].final /\ MayWrite(args[c]) /\ GoTo(c, "list")
    BY <2>2, <2>4, MovesOn DEF Moves
  <2>5. CASE ~mem[c].final /\ ~MayWrite(args[c]) /\ args[c].interactive /\ GoTo(c, "ask")
    BY <2>2, <2>5, MovesOn DEF Moves
  <2> QED
    BY <2>1, <2>3, <2>4, <2>5 DEF Decide
<1>9. CASE Ask(c)
  <2>0. pc[c] = "ask"
    BY <1>9 DEF Ask, At
  <2>1. CASE GoTo(c, "list")
    BY <2>0, <2>1, MovesOn DEF Moves
  <2> QED
    BY <1>2, <1>9, <2>0, <2>1 DEF Ask
<1>10. CASE List(c)
  <2>0. pc[c] = "list"
    BY <1>10 DEF List, At
  <2>1. CASE GoTo(c, "post")
    BY <2>0, <2>1, MovesOn DEF Moves
  <2>2. CASE \E r \in Reserved : Go(c, "detail", [mem[c] EXCEPT !.found = r.id])
    <3>1. PICK r \in Reserved : Go(c, "detail", [mem[c] EXCEPT !.found = r.id])
      BY <2>2
    <3>2. /\ pc'[c] = "detail" /\ args'[c] = args[c]
          /\ mem'[c] = [mem[c] EXCEPT !.found = r.id]
      BY <3>1, GoMoves
    <3>3. mem'[c].topic = mem[c].topic /\ mem'[c].final = mem[c].final
      BY <1>0, <3>2, MemoryFields
    <3> QED
      BY <2>0, <3>2, <3>3 DEF Moves
  <2> QED
    BY <1>2, <1>10, <2>0, <2>1, <2>2 DEF List
<1>11. CASE Detail(c) \/ Post(c)
  <2>0. pc[c] \in {"detail", "post"}
    BY <1>11 DEF Detail, Post, At
  <2>1. CASE Reinspect(c)
    BY <2>0, <2>1, MovesOn DEF Moves
  <2> QED
    BY <1>2, <1>11, <2>0, <2>1 DEF Detail, Post
<1>12. CASE Crash(c)
  BY <1>2, <1>12 DEF Crash, At
<1> QED
  BY <1>1, <1>3, <1>4, <1>5, <1>6, <1>7, <1>8, <1>9, <1>10, <1>11, <1>12 DEF Command, Step

\* A step of another leaves a command's arguments and faults alone too.
LEMMA OthersToo ==
  ASSUME NEW c \in Commands, NEW d \in Commands, c # d, CommandsOK,
         faults \in [Commands -> Nat], Command(d)
  PROVE  pc'[c] = pc[c] /\ mem'[c] = mem[c] /\ args'[c] = args[c] /\ faults'[c] = faults[c]
<1>1. pc'[c] = pc[c] /\ mem'[c] = mem[c]
  BY Others
<1>2. ASSUME NEW label, NEW memory, Go(d, label, memory) PROVE args'[c] = args[c]
  BY <1>2 DEF Go
<1>3. ASSUME NEW compliance, End(d, compliance) PROVE args'[c] = args[c]
  BY <1>3 DEF End, CommandsOK
<1>4. ASSUME NEW compliance, Decide(d, compliance) PROVE args'[c] = args[c]
  BY <1>2, <1>3, <1>4 DEF Decide, GoTo
<1>5. args'[c] = args[c]
  <2>1. CASE Begin(d)
    BY <2>1 DEF Begin, CommandsOK
  <2>2. CASE ReadClassic(d)
    BY <1>4, <2>2 DEF ReadClassic
  <2> QED
    BY <1>2, <1>3, <2>1, <2>2 DEF Command, Step, ReadTopics, AddTopic, RereadTopics, Detect,
       ReadRules, Ask, List, Detail, Post, Crash, GoTo, TopicEnds, Reinspect
<1>6. faults'[c] = faults[c]
  <2>1. Fault(d) => faults'[c] = faults[c]
    BY DEF Fault
  <2> QED
    BY <2>1 DEF Command, Step, Begin, ReadTopics, AddTopic, RereadTopics, Detect, ReadRules,
       ReadClassic, Ask, List, Detail, Post, Crash, Answered
<1> QED
  BY <1>1, <1>5, <1>6

\* Whoever acts, the owner included, each command stays or moves.
LEMMA StayOrMove ==
  ASSUME TypeOK, Next, NEW c \in Commands
  PROVE  Moves(c) \/ (pc'[c] = pc[c] /\ mem'[c] = mem[c] /\ args'[c] = args[c])
<1>1. CommandsOK
  BY DEF TypeOK, CommandsOK
<1>2. faults \in [Commands -> Nat]
  BY DEF TypeOK
<1>3. CASE OwnerEdits
  BY <1>3 DEF OwnerEdits
<1>4. ASSUME NEW d \in Commands, Command(d), d = c PROVE Moves(c)
  BY <1>1, <1>4, CommandMoves
<1>5. ASSUME NEW d \in Commands, Command(d), d # c
      PROVE  pc'[c] = pc[c] /\ mem'[c] = mem[c] /\ args'[c] = args[c]
  BY <1>1, <1>2, <1>5, OthersToo
<1> QED
  BY <1>3, <1>4, <1>5 DEF Next

\* The arguments and the topic along the way.
LEMMA WayInvariant == Spec => [](Told /\ TopicSeen)
<1>1. Init => Told /\ TopicSeen
  BY DEF Init, Told, TopicSeen, NoMemory
<1>2. TypeOK /\ Told /\ TopicSeen /\ [Next]_vars => Told' /\ TopicSeen'
  <2> SUFFICES ASSUME TypeOK, Told, TopicSeen, [Next]_vars PROVE Told' /\ TopicSeen'
    OBVIOUS
  <2>1. CASE UNCHANGED vars
    BY <2>1 DEF vars, Told, TopicSeen, MayWrite
  <2>2. CASE Next
    <3>1. ASSUME NEW c \in Commands
          PROVE  /\ pc'[c] = "ask" => ~MayWrite(args'[c]) /\ args'[c].interactive
                 /\ pc'[c] \in {"list", "detail", "post"} => MayWrite(args'[c]) \/ args'[c].interactive
                 /\ mem'[c].final => pc'[c] \in {"rules", "classic"}
      <4>1. NoMemory.final = FALSE
        BY DEF NoMemory
      <4>2. CASE Moves(c)
        BY <4>1, <4>2 DEF Moves, Told
      <4>3. CASE pc'[c] = pc[c] /\ mem'[c] = mem[c] /\ args'[c] = args[c]
        BY <4>3 DEF Told
      <4> QED
        BY <2>2, <4>2, <4>3, StayOrMove
    <3>2. ASSUME NEW c \in Commands
          PROVE  /\ pc'[c] = "idle" => mem'[c].topic = "skipped"
                 /\ mem'[c].topic \in {"present", "added"} => hist'[c].topic
      <4>1. NoMemory.topic = "skipped"
        BY DEF NoMemory
      <4>2. pc'[c] # "idle" => hist'[c].topic = (hist[c].topic \/ FederationTopic \in topics')
        BY <2>2 DEF Next, Observe
      <4>3. CASE Moves(c)
        BY <4>1, <4>2, <4>3 DEF Moves, TopicSeen
      <4>4. CASE pc'[c] = pc[c] /\ mem'[c] = mem[c]
        BY <4>2, <4>4 DEF TopicSeen
      <4> QED
        BY <2>2, <4>3, <4>4, StayOrMove
    <3> QED
      BY <3>1, <3>2 DEF Told, TopicSeen
  <2> QED
    BY <2>1, <2>2
<1> QED
  BY <1>1, <1>2, TypeCorrect, PTL DEF Spec

\* Setup never reports a completed registration without the topic: it was on
\* the repository while the command ran, on top of a conformant branch.
THEOREM RegistrationIsTrue == Spec => RegistrationWasTrue
<1>1. Told /\ TopicSeen =>
        \A c \in Commands : mem[c].topic \in {"present", "added"} => hist[c].topic
  BY DEF TopicSeen
<1>2. TopicSeen /\ [\A c \in Commands : Reports(c, "conformant") => hist[c].since = Types]_vars
      => [\A c \in Commands :
            /\ Reports(c, "conformant") /\ args[c].kind = "setup" /\ args[c].remote
            /\ mem[c].topic \in {"present", "added"}
            => hist[c].topic /\ hist[c].since = Types]_vars
  BY DEF TopicSeen
<1> QED
  BY <1>2, WayInvariant, ConformantIsTrue, PTL DEF ConformantWasTrue, RegistrationWasTrue

\* A command takes nothing away from the repository, and creates a ruleset only
\* if it was told to write or asked (ensure_branch_protection, setup_topic).
THEOREM AddsOnly == Spec => OnlyAdditions
<1>1. TypeOK /\ Told /\ [Next]_vars =>
        [edits' = edits =>
           /\ rulesets \subseteq rulesets' /\ topics \subseteq topics' /\ classic' = classic
           /\ rulesets' # rulesets =>
                \E c \in Commands : At(c, "post") /\ (MayWrite(args[c]) \/ args[c].interactive)]_vars
  <2> SUFFICES ASSUME TypeOK, Told, Next, edits' = edits
               PROVE  /\ rulesets \subseteq rulesets' /\ topics \subseteq topics' /\ classic' = classic
                      /\ rulesets' # rulesets =>
                           \E c \in Commands :
                             At(c, "post") /\ (MayWrite(args[c]) \/ args[c].interactive)
    OBVIOUS
  <2>1. ~OwnerEdits
    BY DEF OwnerEdits, TypeOK
  <2>2. PICK c \in Commands : Command(c)
    BY <2>1 DEF Next
  <2>3. CASE Post(c)
    BY <2>3 DEF Post, Create, Told, At
  <2>4. CASE ~Post(c)
    BY <2>2, <2>4 DEF Command, Step, Begin, ReadTopics, AddTopic, RereadTopics, Detect, ReadRules,
       ReadClassic, Ask, List, Detail, Crash, github
  <2> QED
    BY <2>3, <2>4
<1> QED
  BY <1>1, TypeCorrect, WayInvariant, PTL DEF Spec, OnlyAdditions

-----------------------------------------------------------------------------
(* A command that nobody disturbs.                                          *)

\* It may write, it is alone, and its calls have succeeded.
Quiet(c) == pc[c] # "idle" /\ MayWrite(args[c]) /\ hist[c].alone /\ faults[c] = 0

\* After its action the branch is protected, and source A says so.
QuietInv ==
  \A c \in Commands :
    /\ pc[c] # "idle" /\ hist[c].alone => \A d \in Commands \ {c} : pc[d] = "idle"
    /\ Quiet(c) =>
         /\ pc[c] = "rules" /\ mem[c].final => Types \subseteq BranchRules
         /\ pc[c] = "classic" /\ mem[c].final => \A t \in Types : mem[c].rules[t] = "confirmed"
         /\ pc[c] = "detail" => \E r \in Reserved : r.id = mem[c].found

\* As long as a command is alone, the steps are its own.
LEMMA AloneActs ==
  ASSUME TypeOK, QuietInv, Next, NEW c \in Commands, pc'[c] # "idle", hist'[c].alone
  PROVE  /\ Command(c) /\ \A d \in Commands \ {c} : pc'[d] = "idle"
         /\ pc[c] # "idle" => hist[c].alone
<1>1. /\ pc[c] = "idle" \/ hist[c].alone
      /\ edits' = edits /\ \A d \in Commands \ {c} : pc'[d] = "idle"
  BY DEF Next, Observe
<1>2. ~OwnerEdits
  BY <1>1 DEF OwnerEdits, TypeOK
<1>3. PICK d \in Commands : Command(d)
  BY <1>2 DEF Next
<1>4. CASE d # c
  <2>1. CommandsOK /\ faults \in [Commands -> Nat]
    BY DEF TypeOK, CommandsOK
  <2>2. pc[c] # "idle" /\ hist[c].alone
    BY <1>1, <1>3, <1>4, <2>1, OthersToo
  <2>3. pc[d] = "idle" /\ pc'[d] = "idle"
    BY <1>1, <1>4, <2>2 DEF QuietInv
  <2> QED
    BY <1>3, <2>1, <2>3, CommandMoves DEF Moves
<1> QED
  BY <1>1, <1>3, <1>4

\* A failed call shows.
LEMMA NoFault ==
  ASSUME TypeOK, NEW c \in Commands, faults'[c] = 0
  PROVE  ~Fault(c) /\ (Answered => faults[c] = 0)
BY DEF TypeOK, Fault, Answered

\* A ruleset that will do puts every rule of the baseline in force.
LEMMA CompatibleProtects ==
  ASSUME NEW r \in rulesets, Compatible(r.body)
  PROVE  Types \subseteq BranchRules
BY DEF Compatible, BranchRules

LEMMA QuietStep ==
  ASSUME TypeOK, Told, QuietInv, Next
  PROVE  QuietInv'
<1>0. CommandsOK
  BY DEF TypeOK, CommandsOK
<1> SUFFICES ASSUME NEW c \in Commands, pc'[c] # "idle", hist'[c].alone
             PROVE  /\ \A d \in Commands \ {c} : pc'[d] = "idle"
                    /\ Quiet(c)' =>
                         /\ pc'[c] = "rules" /\ mem'[c].final => Types \subseteq BranchRules'
                         /\ pc'[c] = "classic" /\ mem'[c].final
                              => \A t \in Types : mem'[c].rules[t] = "confirmed"
                         /\ pc'[c] = "detail" => \E r \in Reserved' : r.id = mem'[c].found
  BY DEF QuietInv, Quiet
<1>1. /\ Command(c) /\ \A d \in Commands \ {c} : pc'[d] = "idle"
      /\ pc[c] # "idle" => hist[c].alone
  BY AloneActs
<1>2. ASSUME Quiet(c)', pc'[c] = "rules", mem'[c].final PROVE Types \subseteq BranchRules'
  <2>1. pc[c] \in {"detail", "post"} /\ faults'[c] = 0
    BY <1>0, <1>1, <1>2, CommandMoves DEF Moves, Told, Quiet
  <2>2. CASE Detail(c)
    <3>1. \E r \in rulesets : Compatible(r.body)
      BY <1>0, <1>2, <2>1, <2>2, NoFault, EndMoves DEF Detail
    <3>2. BranchRules' = BranchRules
      BY <2>2 DEF Detail, github, BranchRules
    <3> QED
      BY <3>1, <3>2, CompatibleProtects
  <2>3. CASE Post(c)
    <3>1. Create(Baseline)
      BY <1>0, <2>1, <2>3, NoFault DEF Post
    <3> DEFINE made == [id |-> created + 1, body |-> Baseline]
    <3>2. made \in rulesets' /\ made.body = Baseline
      BY <3>1 DEF Create
    <3> HIDE DEF made
    <3> QED
      BY <3>2 DEF BranchRules, Baseline
  <2> QED
    BY <1>1, <2>1, <2>2, <2>3 DEF Command, Step, Begin, ReadTopics, AddTopic, RereadTopics, Detect,
       ReadRules, ReadClassic, Ask, List, Crash, At, End, TypeOK
<1>3. ASSUME Quiet(c)', pc'[c] = "classic", mem'[c].final, NEW t \in Types
      PROVE  mem'[c].rules[t] = "confirmed"
  <2>1. ReadRules(c) /\ faults'[c] = 0
    BY <1>0, <1>1, <1>3, ToClassic DEF Quiet
  <2>2. mem[c] \in Memory /\ Go(c, "classic", [mem[c] EXCEPT !.rules = BranchStatus]) /\ Answered
    BY <2>1, NoFault DEF ReadRules, TypeOK
  <2>a. mem'[c] = [mem[c] EXCEPT !.rules = BranchStatus] /\ args'[c] = args[c]
    BY <1>0, <2>2, GoMoves
  <2>3. mem'[c].rules = BranchStatus /\ mem[c].final /\ args'[c] = args[c]
    BY <1>3, <2>2, <2>a, MemoryFields
  <2>4. Quiet(c) /\ pc[c] = "rules"
    BY <1>1, <1>3, <2>1, <2>2, <2>3, NoFault DEF ReadRules, At, Quiet
  <2>5. Types \subseteq BranchRules
    BY <2>3, <2>4 DEF QuietInv
  <2> QED
    BY <2>3, <2>5 DEF BranchStatus
<1>4. ASSUME Quiet(c)', pc'[c] = "detail" PROVE \E r \in Reserved' : r.id = mem'[c].found
  <2>1. pc[c] = "list"
    BY <1>0, <1>1, <1>4, CommandMoves DEF Moves
  <2>2. List(c)
    BY <1>1, <2>1 DEF Command, Step, Begin, ReadTopics, AddTopic, RereadTopics, Detect,
       ReadRules, ReadClassic, Ask, Detail, Post, Crash, At, End, TypeOK
  <2>3. PICK r \in Reserved : Go(c, "detail", [mem[c] EXCEPT !.found = r.id])
    BY <1>0, <1>4, <2>2, GoMoves, EndMoves DEF List, GoTo
  <2>4. Reserved' = Reserved /\ mem[c] \in Memory
    BY <2>2 DEF List, github, Reserved, TypeOK
  <2>5. mem'[c] = [mem[c] EXCEPT !.found = r.id]
    BY <1>0, <2>3, GoMoves
  <2>6. mem'[c].found = r.id
    BY <2>4, <2>5, MemoryFields
  <2> QED
    BY <2>4, <2>6
<1> QED
  BY <1>1, <1>2, <1>3, <1>4

LEMMA QuietInvariant == Spec => []QuietInv
<1>1. Init => QuietInv
  BY DEF Init, QuietInv, Quiet
<1>2. TypeOK /\ Told /\ QuietInv /\ [Next]_vars => QuietInv'
  <2>1. TypeOK /\ Told /\ QuietInv /\ UNCHANGED vars => QuietInv'
    BY DEF vars, github, QuietInv, Quiet, BranchRules, Reserved
  <2> QED
    BY <2>1, QuietStep
<1> QED
  BY <1>1, <1>2, TypeCorrect, WayInvariant, PTL DEF Spec

\* Where the repository can be told from a git remote, a command that may
\* write, whose calls succeed and whom nobody disturbs ends with a protected
\* branch, whatever earlier commands left behind, unless there is a conflict.
THEOREM QuietApply ==
  ASSUME \A a \in Args : MayWrite(a) => a.remote
  PROVE  Spec => QuietApplyProtects
<1>1. TypeOK /\ Told /\ QuietInv /\ [Next]_vars =>
        [\A c \in Commands :
           Reports(c, "unknown") \/ Reports(c, "non_conformant") =>
             ~MayWrite(args[c]) \/ ~hist[c].alone \/ faults'[c] > 0 \/ Conflict]_vars
  <2> SUFFICES ASSUME TypeOK, Told, QuietInv, Next, NEW c \in Commands,
                      Reports(c, "unknown") \/ Reports(c, "non_conformant"),
                      MayWrite(args[c]), hist[c].alone, ~(faults'[c] > 0)
               PROVE  Conflict
    OBVIOUS
  <2>0. CommandsOK /\ GithubOK /\ faults \in [Commands -> Nat]
    BY DEF TypeOK, CommandsOK, GithubOK
  <2>1. /\ pc[c] # "idle" /\ pc'[c] = "idle"
        /\ result'[c] \in {"unknown", "non_conformant"} /\ args[c] \in Args
    BY DEF Reports, TypeOK
  <2>2. Command(c)
    <3>1. ~OwnerEdits
      BY <2>1 DEF OwnerEdits
    <3> QED
      BY <2>0, <2>1, <3>1, OthersToo DEF Next
  <2>3. faults'[c] = 0
    <3>1. faults' \in [Commands -> Nat]
      BY <2>0, <2>2, CommandType
    <3> QED
      BY <3>1
  <2>4. ~Fault(c) /\ (Answered => Quiet(c))
    BY <2>1, <2>3, NoFault DEF Quiet
  <2>5. ASSUME NEW label, label # "idle", NEW memory PROVE ~Go(c, label, memory)
    BY <2>0, <2>1, <2>5, GoMoves
  <2>6. ~ReadTopics(c) /\ ~AddTopic(c) /\ ~RereadTopics(c) /\ ~ReadRules(c) /\ ~Post(c)
    BY <2>4, <2>5 DEF ReadTopics, AddTopic, RereadTopics, ReadRules, Post, TopicEnds, GoTo, Reinspect
  <2>7. ~Begin(c) /\ ~Crash(c) /\ ~Detect(c)
    <3>1. ~Begin(c)
      BY <2>1 DEF Begin, At
    <3>2. ~Crash(c)
      BY <2>0, <2>1, EndMoves DEF Crash
    <3>3. ~Detect(c)
      BY <2>1, <2>4, <2>5 DEF Detect, GoTo
    <3> QED
      BY <3>1, <3>2, <3>3
  <2>8. ~ReadClassic(c)
    <3> SUFFICES ASSUME ReadClassic(c) PROVE FALSE
      OBVIOUS
    <3> DEFINE compliance == Compliance(mem[c].rules, ClassicStatus(classic))
    <3>1. Decide(c, compliance) /\ Answered /\ pc[c] = "classic"
      BY <2>4 DEF ReadClassic, At
    <3> HIDE DEF compliance
    <3>2. End(c, compliance)
      BY <2>5, <3>1 DEF Decide, GoTo
    <3>3. result'[c] = compliance
      BY <2>0, <3>2, EndMoves
    <3>4. mem[c].final
      <4>1. args[c].kind # "status"
        BY DEF MayWrite
      <4>2. compliance # "conformant"
        BY <2>1, <3>3
      <4> QED
        BY <2>5, <3>1, <4>1, <4>2 DEF Decide, GoTo
    <3>5. \A t \in Types : mem[c].rules[t] = "confirmed"
      BY <2>4, <3>1, <3>4 DEF QuietInv
    <3>6. compliance = "conformant"
      BY <3>5 DEF compliance, Compliance, RuleStatus
    <3> QED
      BY <2>1, <3>3, <3>6
  <2>9. ~Ask(c)
    BY DEF Ask, At, Told
  <2>10. CASE List(c)
    BY <2>4, <2>5, <2>10 DEF List, GoTo, Conflict
  <2>11. CASE Detail(c)
    <3>1. /\ pc[c] = "detail" /\ Answered
          /\ ~(\E r \in rulesets : r.id = mem[c].found /\ Compatible(r.body))
      BY <2>4, <2>5, <2>11 DEF Detail, Reinspect, At
    <3>2. PICK r \in Reserved : r.id = mem[c].found
      BY <2>4, <3>1 DEF QuietInv
    <3> QED
      BY <3>1, <3>2 DEF Conflict, Reserved
  <2> QED
    BY <2>2, <2>6, <2>7, <2>8, <2>9, <2>10, <2>11 DEF Command, Step
<1> QED
  BY <1>1, TypeCorrect, WayInvariant, QuietInvariant, PTL DEF Spec, QuietApplyProtects
=============================================================================
