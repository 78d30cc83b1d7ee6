--------------------------- MODULE MissionRecord ----------------------------
(***************************************************************************)
(* The canonical record of missions and runs on the main branch, guarded   *)
(* by scripts/validate_artifacts.py: mission packages, the Mission Ledger, *)
(* run bundles with their pins, terminal assessments and pre-run           *)
(* rejections.  A Director and several Operators work on pull requests cut *)
(* from an older main.  The validator judges the merge of a branch with    *)
(* the main of that moment; the branch may be merged later, into another   *)
(* main, as long as git finds no conflict.                                 *)
(***************************************************************************)
EXTENDS Naturals, Sequences, FiniteSets

CONSTANTS
  Signals, Missions, Runs,
  Branches,       \* pull requests that may be open at the same time
  Proposals,      \* the missions a Director may formulate
  Decidable,      \* the signals a Director may settle without a mission
  Overtaken,      \* the missions whose formulation a new policy may overtake
  Forgotten,      \* the missions of which a run may be closed without an assessment
  Closings,       \* the dispositions an assessment may carry
  None, Removed

Terminal == {"completed", "wont_fix", "rejected"}
Dispositions == Terminal \cup {"active"}

Item == [disposition : Dispositions, mission : Missions \cup {None}, runs : SUBSET Runs]
Ledger == [Signals -> Item \cup {None}]

Override == [signal : Signals, prior : Terminal]

\* A candidate with its contract.  signals: the candidate's, the first one
\* first; contract: those the contract names.
Proposal == [mission : Missions, signals : Seq(Signals), contract : SUBSET Signals]

\* A committed package.  current: the policy its contract pins is that of the
\* commit that brings it to main, its formulation commit; basis: the ledger the
\* Director decided on, whose commit it hands to the Operator.
Package == [signals : Seq(Signals), contract : SUBSET Signals,
            override : Override \cup {None}, current : BOOLEAN, basis : Ledger]

\* A run in MissionContract-native mode.  Its manifest pins the package and its
\* policy at the formulation commit, and the ledger of the package's basis: what
\* the model keeps with the package, which nobody edits.  bundle: whether there
\* are artifacts besides the manifest; assessment: the ledger disposition in its
\* run-assessment.
Run == [mission : Missions, closed : BOOLEAN, bundle : BOOLEAN,
        assessment : Terminal \cup {None}]

Tree == [ledger : Ledger,
         packages : [Missions -> Package \cup {None}],
         runs : [Runs -> Run \cup {None}],
         rejected : [Missions -> BOOLEAN]]   \* a pre-run rejection is recorded

\* What a branch changes, None and the like where it changes nothing.
Patch == [ledger : Ledger,
          packages : [Missions -> Package \cup {None}],
          runs : [Runs -> Run \cup {None, Removed}],
          rejected : [Missions -> BOOLEAN]]

ASSUME ProposalsAssumption ==
  /\ Proposals \subseteq Proposal
  /\ \A p \in Proposals : p.signals # <<>>
ASSUME DecidableAssumption == Decidable \subseteq Signals
ASSUME BoundsAssumption == Overtaken \subseteq Missions /\ Forgotten \subseteq Missions
ASSUME ClosingsAssumption == Closings \subseteq Terminal
ASSUME NoneAssumption ==
  /\ None \notin Item /\ None \notin Override /\ None \notin Package /\ None \notin Run
  /\ None \notin Patch /\ None \notin Missions /\ None \notin Terminal
  /\ Removed \notin Item /\ Removed \notin Package /\ Removed \notin Run /\ Removed # None

VARIABLES
  main,     \* the tree of the main branch
  branch    \* the open pull requests that git can merge

vars == <<main, branch>>

TypeOK ==
  /\ main \in Tree
  /\ branch \in [Branches -> Patch \cup {None}]

Init ==
  /\ main = [ledger |-> [s \in Signals |-> None], packages |-> [m \in Missions |-> None],
             runs |-> [r \in Runs |-> None], rejected |-> [m \in Missions |-> FALSE]]
  /\ branch = [b \in Branches |-> None]

SignalsOf(package) == {package.signals[i] : i \in 1..Len(package.signals)}

-----------------------------------------------------------------------------
(* What the validator refuses. *)

\* The contract names every signal of the candidate.
Coherent(package) == SignalsOf(package) \subseteq package.contract

\* Faulty variant: the guard looks at the first signal.
ReopensOnTheFirst(package, ledger) ==
  LET s == package.signals[1]
  IN  ledger[s] # None /\ ledger[s].disposition \in Terminal
        => package.override = [signal |-> s, prior |-> ledger[s].disposition]

\* POL-04: a signal whose disposition is terminal is taken up again only with
\* the override that names it and its disposition.
MayReopen(package, ledger) ==
  \A s \in SignalsOf(package) :
     ledger[s] # None /\ ledger[s].disposition \in Terminal
       => package.override = [signal |-> s, prior |-> ledger[s].disposition]

\* The contract pins the policy of its formulation commit, whatever today's is.
PinsItsPolicy(package) == package.current

\* The decision on a package and a ledger at one point in time.
Admissible(package, ledger) ==
  /\ PinsItsPolicy(package)
  /\ Coherent(package)
  /\ MayReopen(package, ledger)

\* Faulty variant: admission is decided on the ledger of today.
AdmittedToday(tree, m) ==
  /\ tree.packages[m] # None
  /\ Admissible(tree.packages[m], tree.ledger)

\* The pinned bytes decide: the package, and the ledger its Director decided on.
Admitted(tree, m) ==
  /\ tree.packages[m] # None
  /\ Admissible(tree.packages[m], tree.packages[m].basis)

\* A run directory with a manifest alone is passed over.
BundleOK(tree, r) ==
  tree.runs[r].bundle =>
    /\ Admitted(tree, tree.runs[r].mission)
    /\ tree.runs[r].closed => tree.runs[r].assessment # None

\* The ledger item a mission's assessment is compared with: its first signal's.
ItemOf(tree, m) == tree.ledger[tree.packages[m].signals[1]]

\* Faulty variant: the disposition is compared though the ledger has moved on.
AgreesForever(tree, r) ==
  LET run  == tree.runs[r]
      item == ItemOf(tree, run.mission)
  IN  /\ item # None
      /\ item.disposition = run.assessment
      /\ r \in item.runs

\* An assessment agrees with the ledger as long as the item is still about its
\* mission; the item keeps the run for ever.
AssessmentOK(tree, r) ==
  LET run  == tree.runs[r]
      item == ItemOf(tree, run.mission)
  IN  tree.packages[run.mission] # None =>
        /\ item # None
        /\ item.mission = run.mission => item.disposition = run.assessment
        /\ r \in item.runs

Assessed(tree, r) == tree.runs[r] # None /\ tree.runs[r].assessment # None

\* Faulty variant: nothing compares the assessments of two runs.
NoComparison(tree) == TRUE

AssessedOncePerMission(tree) ==
  \A r, q \in Runs :
     Assessed(tree, r) /\ Assessed(tree, q) /\ r # q
       => tree.runs[r].mission # tree.runs[q].mission

\* Faulty variant: once rejected, the signal must stay rejected.
RejectedForever(tree, m) ==
  /\ \A r \in Runs : tree.runs[r] # None => tree.runs[r].mission # m
  /\ tree.packages[m] # None
  /\ ItemOf(tree, m) # None
  /\ ItemOf(tree, m).disposition = "rejected"

\* A rejected mission has its package, no run, and a ledger item that says so
\* as long as it is still about this mission.
RejectionOK(tree, m) ==
  /\ \A r \in Runs : tree.runs[r] # None => tree.runs[r].mission # m
  /\ tree.packages[m] # None
  /\ ItemOf(tree, m) # None
  /\ ItemOf(tree, m).mission = m => ItemOf(tree, m).disposition = "rejected"

Valid(tree) ==
  /\ \A r \in Runs : tree.runs[r] # None => BundleOK(tree, r)
  /\ \A m \in Missions : tree.packages[m] # None => Coherent(tree.packages[m])
  /\ \A r \in Runs : Assessed(tree, r) => AssessmentOK(tree, r)
  /\ AssessedOncePerMission(tree)
  /\ \A m \in Missions : tree.rejected[m] => RejectionOK(tree, m)

-----------------------------------------------------------------------------
(* Git: a three-way merge, entry by entry.  What a branch does not change it *)
(* takes from main; what it changes main has not changed since, or git       *)
(* refuses the merge.                                                        *)

Changed(old, new) == IF new = old THEN None ELSE new

Diff(new) ==
  [ledger   |-> [s \in Signals |-> Changed(main.ledger[s], new.ledger[s])],
   packages |-> [m \in Missions |-> Changed(main.packages[m], new.packages[m])],
   runs     |-> [r \in Runs |-> IF new.runs[r] = None /\ main.runs[r] # None THEN Removed
                                ELSE Changed(main.runs[r], new.runs[r])],
   rejected |-> [m \in Missions |-> new.rejected[m] /\ ~main.rejected[m]]]

Taken(old, change) == IF change = None THEN old ELSE IF change = Removed THEN None ELSE change

\* A tree with the changes of a branch.
Patched(tree, patch) ==
  [ledger   |-> [s \in Signals |-> Taken(tree.ledger[s], patch.ledger[s])],
   packages |-> [m \in Missions |-> Taken(tree.packages[m], patch.packages[m])],
   runs     |-> [r \in Runs |-> Taken(tree.runs[r], patch.runs[r])],
   rejected |-> [m \in Missions |-> tree.rejected[m] \/ patch.rejected[m]]]

Merged(patch) == Patched(main, patch)

\* Two changes of one entry clash unless they are the same; in the ledger they
\* never are, each write of an item has its own time (updated_at).
Clash(patch, other) ==
  \/ \E s \in Signals : None \notin {patch.ledger[s], other.ledger[s]}
  \/ \E m \in Missions : None \notin {patch.packages[m], other.packages[m]}
                         /\ patch.packages[m] # other.packages[m]
  \/ \E r \in Runs : None \notin {patch.runs[r], other.runs[r]} /\ patch.runs[r] # other.runs[r]

-----------------------------------------------------------------------------
(* The authors of branches. *)

\* A new branch starts at main; an open one is pushed to again.
View(b) == IF branch[b] = None THEN main ELSE Merged(branch[b])

\* The validator judges the merge of the branch with the main of this moment.
\* A push that it refuses cannot be merged, and is left out.
Push(b, tree) ==
  /\ Valid(tree)
  /\ branch' = [branch EXCEPT ![b] = Diff(tree)]
  /\ UNCHANGED main

RunsOn(ledger, s) == IF ledger[s] = None THEN {} ELSE ledger[s].runs

\* A ledger in which the signals of a mission have a new disposition.
Dispose(ledger, signals, mission, disposition, runs) ==
  [s \in Signals |->
     IF s \in signals
     THEN [disposition |-> disposition, mission |-> mission, runs |-> RunsOn(ledger, s) \cup runs]
     ELSE ledger[s]]

Formulated(tree, m, package) ==
  [tree EXCEPT !.packages[m] = package,
               !.ledger = Dispose(@, SignalsOf(package), m, "active", {})]

\* The signal's disposition is terminal.
Settled(s) == IF main.ledger[s] = None THEN FALSE ELSE main.ledger[s].disposition \in Terminal

\* What a Director that reads main's ledger can put into a candidate: nothing,
\* or the override for one of its settled signals.
Overrides(signals) ==
  {None} \cup {[signal |-> s, prior |-> main.ledger[s].disposition] : s \in {t \in signals : Settled(t)}}

\* The Director commits the package and takes its signals up in the ledger.
\* It has consulted the ledger, or should have: the model lets it forget.
Formulate(b, p) ==
  /\ branch[b] = None
  /\ main.packages[p.mission] = None
  /\ \E override \in Overrides({p.signals[i] : i \in 1..Len(p.signals)}) :
       Push(b, Formulated(main, p.mission,
         [signals |-> p.signals, contract |-> p.contract, override |-> override,
          current |-> TRUE, basis |-> main.ledger]))

\* The open branches after a merge: one that clashes with it can only be given
\* up, and its author starts anew.
Remaining(patch) ==
  [b \in Branches |-> IF branch[b] = None THEN None
                      ELSE IF Clash(branch[b], patch) THEN None ELSE branch[b]]

\* The Director disposes of a signal without a mission.  Its branch is about one
\* ledger item: merged later it would do the same or clash, and is not kept.
Decide(s) ==
  LET tree == [main EXCEPT !.ledger = Dispose(@, {s}, None, "wont_fix", {})]
  IN  /\ ~Settled(s)
      /\ Valid(tree)
      /\ main' = tree
      /\ branch' = Remaining(Diff(tree))

\* A new policy is merged: the packages that are not on main yet pin the old one.
NewPolicy ==
  /\ branch' = [b \in Branches |->
       IF branch[b] = None THEN None
       ELSE [branch[b] EXCEPT !.packages = [m \in Missions |->
               IF @[m] # None /\ m \in Overtaken THEN [@[m] EXCEPT !.current = FALSE] ELSE @[m]]]]
  /\ UNCHANGED main

\* An Operator opens a run of a mission that main has.
Open(b, r, m) ==
  /\ branch[b] = None
  /\ main.packages[m] # None /\ ~main.rejected[m]
  /\ main.runs[r] = None
  /\ Push(b, [main EXCEPT !.runs[r] =
        [mission |-> m, closed |-> FALSE, bundle |-> FALSE, assessment |-> None]])

Running(tree, r) == IF tree.runs[r] = None THEN FALSE ELSE ~tree.runs[r].closed

\* An accepted artifact is recorded.
Record(b, r) ==
  /\ Running(View(b), r) /\ ~View(b).runs[r].bundle
  /\ Push(b, [View(b) EXCEPT !.runs[r].bundle = TRUE])

\* The run is closed with its assessment, and the ledger takes the result over.
Closed(tree, r, disposition) ==
  [tree EXCEPT
     !.runs[r].closed = TRUE,
     !.runs[r].assessment = disposition,
     !.ledger = Dispose(@, SignalsOf(tree.packages[tree.runs[r].mission]),
                        tree.runs[r].mission, disposition, {r})]

Close(b, r, disposition) ==
  /\ Running(View(b), r)
  /\ Push(b, Closed(View(b), r, disposition))

\* The run is closed and its assessment forgotten.
CloseOnly(b, r) ==
  /\ Running(View(b), r) /\ View(b).runs[r].mission \in Forgotten
  /\ Push(b, [View(b) EXCEPT !.runs[r].closed = TRUE])

\* An Operator refuses the mission before any run of it.
Reject(b, m) ==
  /\ branch[b] = None
  /\ main.packages[m] # None /\ ~main.rejected[m]
  /\ \A r \in Runs : main.runs[r] # None => main.runs[r].mission # m
  /\ Push(b, [main EXCEPT
        !.rejected[m] = TRUE,
        !.ledger = Dispose(@, SignalsOf(main.packages[m]), m, "rejected", {})])

\* The tree without the runs of rejected missions.
Mended(tree) ==
  [tree EXCEPT !.runs = [r \in Runs |->
     IF @[r] = None THEN None ELSE IF tree.rejected[@[r].mission] THEN None ELSE @[r]]]

\* A maintainer takes back the runs that were opened while their mission was
\* being rejected: nothing else passes the validator until then.
TakeBack(b) ==
  /\ branch[b] = None
  /\ Mended(main) # main
  /\ Push(b, Mended(main))

-----------------------------------------------------------------------------
(* GitHub: a branch is merged or given up. *)

\* Main may have moved since the validator passed the branch.
Merge(b) ==
  /\ branch[b] # None
  /\ main' = Merged(branch[b])
  /\ branch' = [Remaining(branch[b]) EXCEPT ![b] = None]

Abandon(b) ==
  /\ branch[b] # None
  /\ branch' = [branch EXCEPT ![b] = None]
  /\ UNCHANGED main

Act(b) ==
  \/ \E p \in Proposals : Formulate(b, p)
  \/ \E r \in Runs, m \in Missions : Open(b, r, m)
  \/ \E r \in Runs : Record(b, r)
  \/ \E r \in Runs, d \in Closings : Close(b, r, d)
  \/ \E r \in Runs : CloseOnly(b, r)
  \/ \E m \in Missions : Reject(b, m)
  \/ TakeBack(b)
  \/ Merge(b)
  \/ Abandon(b)

Next ==
  \/ NewPolicy
  \/ \E s \in Decidable : Decide(s)
  \/ \E b \in Branches : Act(b)

Spec == Init /\ [][Next]_vars

-----------------------------------------------------------------------------
(* Properties. *)

\* No mission ever gets two verdicts on main.  Two runs of it may be closed, or
\* one closed while the mission is rejected, on branches that do not see each
\* other and are merged on verdicts that are out of date: their ledger items
\* clash (check_terminal_feedback).
OneVerdict ==
  \A m \in Missions :
     LET verdicts == {r \in Runs : Assessed(main, r) /\ main.runs[r].mission = m}
     IN  /\ Cardinality(verdicts) <= 1
         /\ main.rejected[m] => verdicts = {}

\* The item was disposed of by the run's assessment.
StandsFor(item, q) ==
  item # None /\ item.mission = main.runs[q].mission /\ q \in item.runs

\* POL-04 across missions: a run that was let in on a signal whose ledger item
\* stood, at the admission commit, for an assessed mission has a candidate
\* whose override names that signal and that assessment's disposition.
OverrideNamesTheAssessment ==
  \A r, q \in Runs :
     main.runs[r] # None /\ Assessed(main, q) =>
       LET package == main.packages[main.runs[r].mission]
           s == main.packages[main.runs[q].mission].signals[1]
       IN  main.runs[r].bundle /\ s \in SignalsOf(package) /\ StandsFor(package.basis[s], q)
             => package.override = [signal |-> s, prior |-> main.runs[q].assessment]

\* Verdicts that are out of date break main in one way only: a run opened while
\* its mission was being rejected.  Without those runs main is always valid:
\* what was accepted stays acceptable through later missions on its signal, the
\* ledger of another day and a new policy, and everything else two branches
\* could spoil between them clashes in git.
OnlyRejectionsRace == Valid(Mended(main))

\* No dead end: as long as main is valid, a run whose mission is not assessed
\* can be closed with any disposition, and that disturbs no assessment and no
\* rejection that shares a signal with it.
RunsCanClose ==
  Valid(main) =>
    \A r \in Runs : \A d \in Closings :
       /\ Running(main, r)
       /\ \A q \in Runs : Assessed(main, q) => main.runs[q].mission # main.runs[r].mission
       => Valid(Closed(main, r, d))

\* A signal that was settled can be taken up again: a mission of this signal
\* with the override that names its disposition can be formulated on every
\* valid main, whatever was assessed or rejected on the signal before.
SettledSignalsReopen ==
  Valid(main) =>
    \A s \in Signals, m \in Missions :
       Settled(s) /\ main.packages[m] = None =>
         LET package == [signals |-> <<s>>, contract |-> {s},
                         override |-> [signal |-> s, prior |-> main.ledger[s].disposition],
                         current |-> TRUE, basis |-> main.ledger]
         IN  Valid(Formulated(main, m, package)) /\ MayReopen(package, package.basis)
=============================================================================
