----------------------------- MODULE GatePolicy -----------------------------
(***************************************************************************)
(* The branch-policy planner, applier and rollback of the review gate      *)
(* (federation_hq_gate/policy.py), run from the command line one command   *)
(* at a time.  Every call to GitHub that changes something is a step of    *)
(* its own, and between two steps the repository's owner may edit the      *)
(* protection, the call may fail without effect, fail after it took        *)
(* effect, or the process may die.  Only GitHub and the files on disk      *)
(* survive the process.                                                    *)
(***************************************************************************)
EXTENDS Naturals, FiniteSets

CONSTANTS
  Repos,          \* the repositories discovered for the owner
  Scope,          \* those left by the fork, archived, include and exclude filters
  Admin,          \* those where the owner's session has admin permission
  Actors,         \* users, teams and apps a restriction or allowance can name
  Profiles,       \* the protections a repository may start with
  MaxApplies,     \* bound: runs of `policy apply` that write a backup
  MaxFaults,      \* bound: failed GitHub calls in one run of a command
  MaxEdits,       \* bound: owner's edits of one repository's protection
  None            \* Python's None

-----------------------------------------------------------------------------
(* The protection of a default branch, as far as policy.py tells it apart. *)

Bodies == {"unbound", "bound", "configured"}

\* gate: how the classic checks list the gate's context.  approvals: the
\* review section (absent, zero or more approvals).  people: the names in
\* the restrictions and in the bypass allowances, None without such a section.
Classic == [gate : {"absent", "foreign", "bound"},
            approvals : {"none", "zero", "some"},
            people : SUBSET Actors \cup {None}]

\* The ruleset named federation-hq-review-gate-v1.  "configured" is the body
\* that apply writes; a "bound" body requires the App's check too.
Gate == [id : Nat, body : Bodies]

\* other: a ruleset of another name exists.  policy.py only looks whether there
\* is one: it neither reads nor changes its rules, so whatever they require,
\* approvals or other checks, stays required and no property here speaks of it.
Protection == [classic : Classic \cup {None},
               other   : BOOLEAN,
               gate    : Gate \cup {None}]

Backup == [before : Protection, started : BOOLEAN]

Statuses == {"none", "skipped", "failed", "dry_run", "configured",
             "restored", "unrestored"}

ASSUME ConstantsAssumption ==
  /\ Scope \subseteq Repos
  /\ Admin \subseteq Repos
  /\ MaxApplies \in Nat /\ MaxFaults \in Nat /\ MaxEdits \in Nat

ASSUME ProfilesAssumption ==
  /\ Profiles \subseteq Protection
  /\ \A p \in Profiles : p.gate = None \/ p.gate.id = 1

ASSUME NoneAssumption ==
  /\ None \notin Repos
  /\ None \notin Classic
  /\ None \notin Gate
  /\ None \notin Protection
  /\ None \notin Backup

-----------------------------------------------------------------------------
VARIABLES
  \* GitHub
  remote,    \* remote[r]: the protection of r's default branch
  ids,       \* ids[r]: the last id given to a gate ruleset of r
  booted,    \* the repositories whose head carries the bootstrap check
  \* the operator's disk
  plan,      \* plan[r]: the snapshot in policy-plan.json, None without an entry
  confirmed, \* the plan whose hash the operator passes
  backups,   \* backups[k]: the policy-backup file of the k-th second with an apply
  runs,      \* the number of backup files
  \* the running command
  mode, pc,
  cur,       \* the backup in use
  todo,      \* the entries its loop has not reached
  repo,      \* the entry its loop is at
  seen,      \* the gate ruleset the last listing showed
  report,    \* the outcome reported for each repository
  faults,    \* the failed calls of the current or last command
  \* history, read by no command
  initial,   \* GitHub's protections before the first command
  edits,     \* the owner's edits of each repository
  applied,   \* the runs of apply that wrote a backup
  holed,     \* the repositories of which a snapshot missed a ruleset
  lost       \* those whose mark was replaced by an apply of the same second

github  == <<remote, ids, booted>>
disk    == <<plan, confirmed, backups, runs>>
command == <<mode, pc, cur, todo, repo, seen, report, faults>>
history == <<initial, edits, applied, holed, lost>>
vars    == <<github, disk, command, history>>

PCs == {"next", "bootstrap", "mark", "putClassic", "list", "writeGate", "verify",
        "undo", "undoGate", "undoClassic", "undoVerify"}

TypeOK ==
  /\ remote \in [Repos -> Protection]
  /\ ids \in [Repos -> Nat]
  /\ booted \subseteq Repos
  /\ plan \in [Repos -> Protection \cup {None}]
  /\ confirmed \in [Repos -> Protection \cup {None}]
  /\ backups \in [1..MaxApplies -> [Repos -> Backup \cup {None}]]
  /\ runs \in 0..MaxApplies
  /\ mode \in {"idle", "apply", "dryrun", "rollback"}
  /\ pc \in PCs
  /\ cur \in 0..MaxApplies
  /\ todo \subseteq Repos
  /\ repo \in Repos \cup {None}
  /\ seen \in Gate \cup {None}
  /\ report \in [Repos -> Statuses]
  /\ faults \in Nat
  /\ initial \in [Repos -> Protection]
  /\ edits \in [Repos -> Nat]
  /\ applied \in 0..MaxApplies
  /\ holed \subseteq Repos
  /\ lost \subseteq Repos

-----------------------------------------------------------------------------
(* Snapshots and payloads.                                                  *)

\* _normalize_protection of a response.  A classic response is reduced to its
\* writable fields and its user objects to their names; a failed listing is
\* taken for an empty one.
View(p, listed) == [p EXCEPT !.other = listed /\ @, !.gate = IF listed THEN @ ELSE None]

\* _normalize_classic_for_write of a payload it has produced before: the
\* names are no longer user objects, so every list comes out empty.
Renormalize(c) ==
  IF c = None THEN None ELSE [c EXCEPT !.people = IF @ = None THEN None ELSE {}]

HasRulesets(p) == p.other \/ p.gate # None

\* build_plan's skip_reason.
Skips(r, p) == r \notin Admin \/ (p.classic = None /\ ~HasRulesets(p))

\* Faulty variant: the body is written from scratch.
ConfiguredFresh(c) == [gate |-> "bound", approvals |-> "zero", people |-> None]

\* _configure_via_classic's body over the planned snapshot.
Configured(c) == [c EXCEPT !.gate = "bound", !.approvals = "zero"]

\* _required_check_bound: a classic entry of the gate's context decides alone.
CheckBound(p) ==
  IF p.classic # None /\ p.classic.gate # "absent"
  THEN p.classic.gate = "bound"
  ELSE p.gate # None /\ p.gate.body \in {"bound", "configured"}

\* _verify_protection on what it read.
Enforced(p) ==
  /\ CheckBound(p)
  /\ p.classic # None => p.classic.approvals = "zero"

SameGate(g, h) ==
  IF g = None \/ h = None THEN g = h ELSE g.body = h.body

\* Faulty variant: the gate ruleset is not compared.
MatchesClassic(p, b) == p.classic = Renormalize(b.classic)

\* _verify_rollback on what it read.
MatchesBefore(p, b) ==
  /\ SameGate(p.gate, b.gate)
  /\ p.classic = Renormalize(b.classic)

\* Faulty variant: skipped and absent entries are not left out.
CollectAll ==
  [r \in Repos |-> [before |-> plan[r], started |-> FALSE]]

\* _collect_backup: the entries that are not skipped, none of them started.
CollectBackup ==
  [r \in Repos |-> IF plan[r] = None \/ Skips(r, plan[r]) THEN None
                   ELSE [before |-> plan[r], started |-> FALSE]]

-----------------------------------------------------------------------------
Init ==
  /\ remote \in [Repos -> Profiles]
  /\ ids = [r \in Repos |-> 1]
  /\ booted = {}
  /\ plan = [r \in Repos |-> None]
  /\ confirmed = plan
  /\ backups = [k \in 1..MaxApplies |-> [r \in Repos |-> None]]
  /\ runs = 0
  /\ mode = "idle" /\ pc = "next" /\ cur = 0 /\ todo = {} /\ repo = None /\ seen = None
  /\ report = [r \in Repos |-> "none"]
  /\ faults = 0
  /\ initial = remote
  /\ edits = [r \in Repos |-> 0]
  /\ applied = 0 /\ holed = {} /\ lost = {}

-----------------------------------------------------------------------------
(* How a step of the current repository ends.                               *)

\* The loop goes on to the next repository after reporting this one.
Conclude(status) ==
  /\ report' = [report EXCEPT ![repo] = status]
  /\ pc' = "next"
  /\ repo' = None
  /\ seen' = None
  /\ UNCHANGED <<mode, cur, todo>>

Goto(label) ==
  /\ pc' = label
  /\ UNCHANGED <<mode, cur, todo, repo, seen, report>>

Fault == faults < MaxFaults /\ faults' = faults + 1

\* A PUT, POST or DELETE that would make p the protection of the current
\* repository: it succeeds, or `gh` reports an error after GitHub executed
\* the request, or before.
Write(p, label, onError) ==
  \/ /\ remote' = [remote EXCEPT ![repo] = p]
     /\ Goto(label)
     /\ UNCHANGED faults
  \/ /\ remote' \in {remote, [remote EXCEPT ![repo] = p]}
     /\ Fault
     /\ Conclude(onError)

\* A request GitHub rejects: the ruleset id is gone, or the name is taken.
Rejected(onError) == Conclude(onError) /\ UNCHANGED <<remote, faults>>

-----------------------------------------------------------------------------
(* policy plan                                                              *)

\* Faulty variant: the include and exclude filters are forgotten.
PlanEverything ==
  /\ mode = "idle"
  /\ plan' = [r \in Repos |-> View(remote[r], TRUE)]
  /\ UNCHANGED <<github, confirmed, backups, runs, command, history>>

\* The command fails with no plan when a classic lookup or the gate ruleset's
\* own lookup fails: nothing changes.  A failed listing leaves a hole.
BuildPlan ==
  /\ mode = "idle"
  /\ \E listed \in [Scope -> BOOLEAN] :
       plan' = [r \in Repos |-> IF r \in Scope THEN View(remote[r], listed[r]) ELSE None]
  /\ holed' = holed \cup {r \in Scope : plan'[r] # remote[r]}
  /\ UNCHANGED <<github, confirmed, backups, runs, command, initial, edits, applied, lost>>

\* The operator reviews the plan and passes its hash from now on.
Confirm ==
  /\ mode = "idle"
  /\ confirmed' = plan
  /\ UNCHANGED <<github, plan, backups, runs, command, history>>

-----------------------------------------------------------------------------
(* policy apply                                                             *)

Begin(m, k, entries) ==
  /\ mode = "idle"
  /\ mode' = m
  /\ cur' = k
  /\ todo' = entries
  /\ pc' = "next"
  /\ report' = [r \in Repos |-> "none"]
  /\ faults' = 0
  /\ UNCHANGED <<repo, seen>>

Planned == {r \in Repos : plan[r] # None}

Marked(k, r) == backups[k][r] # None /\ backups[k][r].started

\* The whole backup is on disk before the first repository is looked at, in a
\* file named for the second: an apply in the second of the one before takes
\* the same name and replaces that file, marks and before-states included.
ApplyStart ==
  /\ plan = confirmed
  /\ \E r \in Repos : CollectBackup[r] # None
  /\ applied < MaxApplies /\ applied' = applied + 1
  /\ \E k \in {runs, runs + 1} \cap 1..MaxApplies :
       /\ Begin("apply", k, Planned)
       /\ runs' = k
       /\ backups' = [backups EXCEPT ![k] = CollectBackup]
       /\ lost' = lost \cup {r \in Repos : Marked(k, r)}
  /\ UNCHANGED <<github, plan, confirmed, initial, edits, holed>>

\* An apply that skips every entry writes no backup and does no more than this.
DryRunStart ==
  /\ plan = confirmed
  /\ Begin("dryrun", 0, Planned)
  /\ UNCHANGED <<github, disk, history>>

\* The loop takes the next entry: skip, failed lookup, drift, dry run or go on.
\* The comparison is with a second snapshot, whose listing may fail as well.
NextEntry(r) ==
  /\ mode \in {"apply", "dryrun"} /\ pc = "next" /\ r \in todo
  /\ todo' = todo \ {r}
  /\ \/ /\ Skips(r, plan[r])
        /\ report' = [report EXCEPT ![r] = "skipped"]
        /\ UNCHANGED <<pc, repo, faults, holed>>
     \/ /\ ~Skips(r, plan[r])
        /\ Fault
        /\ report' = [report EXCEPT ![r] = "failed"]
        /\ UNCHANGED <<pc, repo, holed>>
     \/ /\ ~Skips(r, plan[r])
        /\ \E listed \in BOOLEAN : View(remote[r], listed) # plan[r]
        /\ report' = [report EXCEPT ![r] = "failed"]
        /\ UNCHANGED <<pc, repo, faults, holed>>
     \/ /\ ~Skips(r, plan[r])
        /\ \E listed \in BOOLEAN : View(remote[r], listed) = plan[r]
        /\ IF mode = "dryrun"
           THEN /\ report' = [report EXCEPT ![r] = "dry_run"]
                /\ UNCHANGED <<pc, repo, holed>>
           ELSE /\ pc' = "bootstrap" /\ repo' = r
                /\ holed' = IF plan[r] = remote[r] THEN holed ELSE holed \cup {r}
                /\ UNCHANGED report
        /\ UNCHANGED faults
  /\ UNCHANGED <<github, disk, mode, cur, seen, initial, edits, applied, lost>>

\* Faulty variant: a failed bootstrap does not end the entry.
BootstrapIgnored ==
  /\ pc = "bootstrap"
  /\ \/ booted' = booted \cup {repo} /\ UNCHANGED faults
     \/ UNCHANGED booted /\ Fault
  /\ Goto("mark")
  /\ UNCHANGED <<remote, ids, disk, history>>

\* Token, head and neutral check of the Gate App, then the App id; a failure
\* of any of them, before or after the check is published, ends the entry.
Bootstrap ==
  /\ pc = "bootstrap"
  /\ \/ /\ booted' = booted \cup {repo}
        /\ Goto("mark")
        /\ UNCHANGED faults
     \/ /\ booted' \in {booted, booted \cup {repo}}
        /\ Fault
        /\ Conclude("failed")
  /\ UNCHANGED <<remote, ids, disk, history>>

\* Faulty variant: the mark stays in memory.
MarkInMemory ==
  /\ pc = "mark"
  /\ Goto(IF HasRulesets(plan[repo]) THEN "list" ELSE "putClassic")
  /\ UNCHANGED <<github, disk, faults, history>>

\* The journal mark is on disk before the first protection write.
Mark ==
  /\ pc = "mark"
  /\ backups' = [backups EXCEPT ![cur][repo].started = TRUE]
  /\ Goto(IF HasRulesets(plan[repo]) THEN "list" ELSE "putClassic")
  /\ UNCHANGED <<github, plan, confirmed, runs, faults, history>>

\* Only reached for a snapshot without rulesets, which has classic protection.
PutClassic ==
  /\ pc = "putClassic"
  /\ Write([remote[repo] EXCEPT !.classic = Configured(plan[repo].classic)], "verify", "failed")
  /\ UNCHANGED <<ids, booted, disk, history>>

\* The listing that chooses between updating and creating the gate ruleset.
ListGate ==
  /\ pc = "list"
  /\ \/ /\ seen' = remote[repo].gate
        /\ pc' = "writeGate"
        /\ UNCHANGED <<mode, cur, todo, repo, report, faults>>
     \/ Fault /\ Conclude("failed")
  /\ UNCHANGED <<github, disk, history>>

UpdateGate ==
  /\ pc = "writeGate" /\ seen # None
  /\ IF remote[repo].gate # None /\ remote[repo].gate.id = seen.id
     THEN Write([remote[repo] EXCEPT !.gate.body = "configured"], "verify", "failed")
     ELSE Rejected("failed")
  /\ UNCHANGED <<ids, booted, disk, history>>

CreateGate ==
  /\ pc = "writeGate" /\ seen = None
  /\ IF remote[repo].gate = None
     THEN /\ Write([remote[repo] EXCEPT !.gate = [id |-> ids[repo] + 1, body |-> "configured"]],
                   "verify", "failed")
          /\ ids' = [ids EXCEPT ![repo] = @ + 1]
     ELSE Rejected("failed") /\ UNCHANGED ids
  /\ UNCHANGED <<booted, disk, history>>

\* Faulty variant: a write that succeeded is not read back.
TrustWrite ==
  /\ pc = "verify"
  /\ Conclude("configured")
  /\ UNCHANGED <<github, disk, faults, history>>

\* A failed classic lookup or listing counts as a failed verification; a
\* failed lookup of the gate ruleset itself escapes to the loop's handler.
Verify ==
  /\ pc = "verify"
  /\ \/ Enforced(remote[repo]) /\ Conclude("configured") /\ UNCHANGED faults
     \/ ~Enforced(remote[repo]) /\ Goto("undo") /\ UNCHANGED faults
     \/ Fault /\ Goto("undo")
     \/ remote[repo].gate # None /\ Fault /\ Conclude("failed")
  /\ UNCHANGED <<github, disk, history>>

-----------------------------------------------------------------------------
(* _rollback_repo, called by apply and by policy rollback                   *)

RollbackStart(k) ==
  /\ \E r \in Repos : backups[k][r] # None
  /\ Begin("rollback", k, {r \in Repos : backups[k][r] # None})
  /\ UNCHANGED <<github, disk, history>>

NextBackup(r) ==
  /\ mode = "rollback" /\ pc = "next" /\ r \in todo
  /\ todo' = todo \ {r}
  /\ repo' = r
  /\ pc' = "undo"
  /\ UNCHANGED <<github, disk, mode, cur, seen, report, faults, history>>

Before == backups[cur][repo].before

\* A repository never marked is compared with its before-state, nothing else.
Compare ==
  \/ /\ Conclude(IF MatchesBefore(remote[repo], Before) THEN "restored" ELSE "unrestored")
     /\ UNCHANGED faults
  \/ Fault /\ Conclude("unrestored")

UndoUnmarked ==
  /\ pc = "undo" /\ ~backups[cur][repo].started
  /\ Compare
  /\ UNCHANGED <<github, disk, history>>

\* Faulty variant: the mark is taken back before anything is restored.
UndoForgets ==
  /\ pc = "undo" /\ backups[cur][repo].started
  /\ \/ /\ seen' = remote[repo].gate
        /\ backups' = [backups EXCEPT ![cur][repo].started = FALSE]
        /\ pc' = "undoGate"
        /\ UNCHANGED <<mode, cur, todo, repo, report, faults>>
     \/ Fault /\ Conclude("unrestored") /\ UNCHANGED backups
  /\ UNCHANGED <<github, plan, confirmed, runs, history>>

UndoList ==
  /\ pc = "undo" /\ backups[cur][repo].started
  /\ \/ /\ seen' = remote[repo].gate
        /\ pc' = "undoGate"
        /\ UNCHANGED <<mode, cur, todo, repo, report, faults>>
     \/ Fault /\ Conclude("unrestored")
  /\ UNCHANGED <<github, disk, history>>

\* Faulty variant: a ruleset that is already gone cannot be deleted.
UndoGateOnce ==
  /\ pc = "undoGate"
  /\ LET target == IF Before.gate # None THEN Before.gate ELSE seen
     IN  IF target # None /\ remote[repo].gate # None /\ remote[repo].gate.id = target.id
         THEN Write([remote[repo] EXCEPT !.gate = Before.gate], "undoClassic", "unrestored")
         ELSE Rejected("unrestored")
  /\ UNCHANGED <<ids, booted, disk, history>>

\* The gate ruleset of the before-state is written back by its id; one the
\* before-state lacks is deleted.
UndoGate ==
  /\ pc = "undoGate"
  /\ LET target == IF Before.gate # None THEN Before.gate ELSE seen
         found  == remote[repo].gate # None /\ remote[repo].gate.id = target.id
     IN  IF target = None
         THEN Goto("undoClassic") /\ UNCHANGED <<remote, faults>>
         ELSE IF found
         THEN Write([remote[repo] EXCEPT !.gate = Before.gate], "undoClassic", "unrestored")
         ELSE Rejected("unrestored")
  /\ UNCHANGED <<ids, booted, disk, history>>

\* Classic protection is written back, or deleted when the before-state has
\* none; the lookup before the delete decides nothing else.
UndoClassic ==
  /\ pc = "undoClassic"
  /\ Write([remote[repo] EXCEPT !.classic = Renormalize(Before.classic)],
           "undoVerify", "unrestored")
  /\ UNCHANGED <<ids, booted, disk, history>>

UndoVerify ==
  /\ pc = "undoVerify"
  /\ Compare
  /\ UNCHANGED <<github, disk, history>>

-----------------------------------------------------------------------------
\* The loop is over and the report is printed.
Finish ==
  /\ mode # "idle" /\ pc = "next" /\ todo = {}
  /\ mode' = "idle"
  /\ UNCHANGED <<github, disk, pc, cur, todo, repo, seen, report, faults, history>>

\* The process dies (a signal, or an exception that is not a PolicyError).
Crash ==
  /\ mode # "idle"
  /\ mode' = "idle" /\ pc' = "next" /\ todo' = {} /\ repo' = None /\ seen' = None
  /\ report' = [r \in Repos |-> "none"]
  /\ UNCHANGED <<github, disk, cur, faults, history>>

\* The owner changes a protection through GitHub: classic protection and the
\* gate ruleset take the shape of a profile, a new ruleset gets a new id.
OwnerEdits(r) ==
  /\ edits[r] < MaxEdits
  /\ \E p \in Profiles :
       LET fresh == p.gate # None /\ remote[r].gate = None
           id    == IF fresh THEN ids[r] + 1 ELSE remote[r].gate.id
           gate  == IF p.gate = None THEN None ELSE [id |-> id, body |-> p.gate.body]
       IN  /\ remote' = [remote EXCEPT ![r].classic = p.classic, ![r].gate = gate]
           /\ ids' = [ids EXCEPT ![r] = IF fresh THEN @ + 1 ELSE @]
           /\ remote'[r] # remote[r]
  /\ edits' = [edits EXCEPT ![r] = @ + 1]
  /\ UNCHANGED <<booted, disk, command, initial, applied, holed, lost>>

-----------------------------------------------------------------------------
Apply == \/ \E r \in Repos : NextEntry(r)
         \/ Bootstrap \/ Mark \/ PutClassic \/ ListGate \/ UpdateGate \/ CreateGate \/ Verify

Undo  == \/ \E r \in Repos : NextBackup(r)
         \/ UndoUnmarked \/ UndoList \/ UndoGate \/ UndoClassic \/ UndoVerify

\* A step of the program itself, once a command runs.
Step == Apply \/ Undo \/ Finish

Operator == \/ BuildPlan \/ Confirm \/ ApplyStart \/ DryRunStart
            \/ \E k \in 1..runs : RollbackStart(k)

Owner == \E r \in Repos : OwnerEdits(r)

Next == Step \/ Operator \/ Crash \/ Owner

Spec == Init /\ [][Next]_vars

-----------------------------------------------------------------------------
(* Properties.                                                              *)

\* A step of a command, as opposed to the owner's edits, changed r.
Changes(r) == remote'[r] # remote[r] /\ edits' = edits

\* The journal is written ahead of every change: whatever a command alters on
\* GitHub, at any crash point and after any failed call, the backup file in
\* use already marks that repository as started; apply alters only what the
\* confirmed plan holds, from the state it records.
WriteAhead ==
  [][\A r \in Repos : Changes(r) =>
       /\ cur # 0 /\ Marked(cur, r)
       /\ r \in Scope \cap Admin
       /\ mode = "apply" => backups[cur][r].before = confirmed[r]]_vars

\* Every repository the tool has left different from what it found can be put
\* back: some marked backup holds the protection it had before the first
\* command, however many applies, rollbacks, crashes and lost answers since.
\* The code does not promise it to a repository whose snapshot missed a
\* ruleset, nor to one whose mark an apply of the same second replaced.
Recoverable ==
  \A r \in Repos \ (holed \cup lost) : remote[r] # initial[r] /\ edits[r] = 0 =>
    \E k \in 1..runs : Marked(k, r) /\ backups[k][r].before = initial[r]

\* No branch is made to require a check the Gate App has not published there:
\* bootstrap comes first, and its failure leaves the protection alone.
BootstrapFirst ==
  \A r \in Repos : remote[r] # initial[r] /\ edits[r] = 0 => r \in booted

\* The classic protection p has, next to the one b that the plan recorded: it
\* is neither added nor removed, it names the same people, and nothing of it
\* has changed where rulesets carry the policy.
ClassicKept(p, b) ==
  /\ p.classic = None <=> b.classic = None
  /\ b.classic # None => p.classic.people = b.classic.people
  /\ HasRulesets(b) => p.classic = b.classic

\* A repository reported as configured requires the App's own check, in its
\* classic protection or its gate ruleset; no classic check demands the context
\* of another app, no classic review a human approval; and what the snapshot
\* recorded of the classic protection otherwise has survived the write.
ConfiguredIsEnforced ==
  \A r \in Repos : report[r] = "configured" /\ edits[r] = 0 =>
    /\ \/ remote[r].classic # None /\ remote[r].classic.gate = "bound"
       \/ remote[r].gate # None /\ remote[r].gate.body # "unbound"
    /\ remote[r].classic # None =>
         remote[r].classic.gate # "foreign" /\ remote[r].classic.approvals = "zero"
    /\ ClassicKept(remote[r], backups[cur][r].before)

ForgetPeople(c) == IF c = None THEN None ELSE [c EXCEPT !.people = None]

\* "restored" means it: the gate ruleset is as the backup recorded it, and so
\* is the classic protection but for the names in its lists.
RestoredIsBefore ==
  \A r \in Repos : report[r] = "restored" /\ edits[r] = 0 =>
    /\ SameGate(remote[r].gate, backups[cur][r].before.gate)
    /\ ForgetPeople(remote[r].classic) = ForgetPeople(backups[cur][r].before.classic)

Lossless(p) == p.classic = None \/ p.classic.people \in {None, {}}

\* A rollback that meets no failed call restores everything the applies of one
\* file did, wherever they stopped and however often rollback was cut short:
\* half-done rollbacks do not stand in the way of the next one.  As above, for
\* repositories without a hole in a snapshot and without a mark replaced.
RollbackCompletes ==
  \A r \in Repos \ (holed \cup lost) :
    /\ mode = "rollback" \/ (mode = "idle" /\ cur # 0)
    /\ runs = 1 /\ faults = 0 /\ edits[r] = 0 /\ Lossless(initial[r])
    => report[r] # "unrestored"

-----------------------------------------------------------------------------
(* The inductive invariant behind WriteAhead and Recoverable.                *)

ApplySteps == {"bootstrap", "mark", "putClassic", "list", "writeGate", "verify"}

MarkedSteps == {"putClassic", "list", "writeGate", "verify",
                "undoGate", "undoClassic", "undoVerify"}

\* Where the command is inside one repository's entry.
AtEntry == pc # "next" =>
  /\ mode \in {"apply", "rollback"}
  /\ repo \in Repos
  /\ backups[cur][repo] # None
  /\ pc \in ApplySteps => mode = "apply"
  /\ pc \in MarkedSteps => Marked(cur, repo)
  /\ mode = "apply" => repo \in Planned /\ ~Skips(repo, plan[repo])
  /\ pc = "putClassic" => ~HasRulesets(plan[repo])

\* What the command relies on between entries: apply's backup is the
\* confirmed plan, and rollback's loop runs over the entries of its file.
InUse ==
  /\ mode \in {"apply", "rollback"} => cur \in 1..runs
  /\ mode \in {"apply", "dryrun"} => todo \subseteq Planned
  /\ mode = "rollback" => \A r \in todo : backups[cur][r] # None
  /\ mode = "apply" =>
       /\ plan = confirmed
       /\ \A r \in Planned : ~Skips(r, plan[r]) =>
            backups[cur][r] # None /\ backups[cur][r].before = plan[r]

\* What plans and backup files can hold.
OnDisk ==
  /\ \A r \in Repos : plan[r] # None \/ confirmed[r] # None => r \in Scope
  /\ \A k \in 1..MaxApplies, r \in Repos : backups[k][r] # None =>
       k \in 1..runs /\ r \in Scope \cap Admin

JournalInv == TypeOK /\ AtEntry /\ InUse /\ OnDisk

\* Between the drift check and the mark the plan still describes GitHub.
Undrifted ==
  pc \in {"bootstrap", "mark"} /\ edits[repo] = 0 /\ repo \notin holed
    => plan[repo] = remote[repo]

\* No unmarked repository was changed, and the first mark of a repository
\* keeps the protection it had to begin with.
FirstMark ==
  \A r \in Repos \ (holed \cup lost) : edits[r] = 0 =>
    \/ remote[r] = initial[r] /\ \A k \in 1..runs : ~Marked(k, r)
    \/ \E k \in 1..runs : Marked(k, r) /\ backups[k][r].before = initial[r]

-----------------------------------------------------------------------------
(* What the documentation says and the code does not do.                    *)

\* "post-write remote verification failures are reported as failed and the
\* repository's before-state is restored" (policy.py:11): a verification that
\* does not succeed is followed by the rollback.
FailedVerificationIsUndone ==
  [][pc = "verify" /\ pc' = "next" /\ mode' # "idle" => report'[repo] = "configured"]_vars
=============================================================================
