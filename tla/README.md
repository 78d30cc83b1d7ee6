# Federation HQ, modelled and checked

TLA+ specifications of the programs in this repository, TLC configurations that check them on small instances, and TLAPS proofs of the properties that matter most. The repository's code is the reference; a line number in a comment is a line of the source at the commit this project belongs to.

## 1. Inventory

Federation HQ is a set of small command line programs around a directory of YAML records, plus a GitHub App that attests reviews. Nothing runs as a server: concurrency comes from several commands, GitHub workflows, repository owners and workers acting on the same remote state and on the same files, and from commands that are killed half-way.

| Component | State it keeps | Operations | What is hard |
|---|---|---|---|
| Branch-policy engine (`federation_hq_gate/policy.py`) | `policy-plan.json`, `policy-backup-*.json` (the journal), the protection of each repository on GitHub | plan, apply, rollback | lost answers, crashes between a remote write and the report, the owner's edits in between, snapshots with holes, rollback of a rollback |
| Heavy-command guard (`scripts/run_heavy_command.py`) | a flock on a per-run file | one wrapped command | wrappers that die while the command lives, leftovers of the command, exit codes shared with the command |
| Review gate (`review_check.py`) | check runs on GitHub | publish | files and heads that change between validation and publication, retries after lost answers |
| Coordination protocol (`scripts/validate_artifacts.py`, `docs/COORDINATION_PROTOCOL.md`) | messages and artifacts of a run | validate one message, validate the bundle | each message is judged alone; answers that come late or twice; a head that moves |
| Missions (`scripts/validate_artifacts.py`, `mission/`, `missions/`) | the mission ledger, pins in run manifests, terminal feedback | admission, pinning, reopening, assessment, rejection | rules that span several files written at different times; verdicts on branches that are out of date when they are merged |
| Heartbeat and NADI (`nadi_send.py`, `nadi_daemon.py`, `heartbeat_postcondition.py`, the heartbeat workflow) | the outbox, files of the hub, a proof file | send, relay, capture, verify | the relay clears the outbox while it is read back; duplicates after a fallback |
| Governance (`scripts/governance/`) | rulesets on GitHub | inspect, ensure the baseline | a decision under missing permission; list-then-create races |
| Node setup (`setup_node.py`, `quickstart.py`, `federation_utils.py`) | peer and descriptor files, repository topics | setup, registration | topics that change between the read, the addition and the re-read; local files written one after the other |
| Gate App credentials (`config.py`, `auth.py`, `app_setup.py`, `doctor.py`) | key file and configuration file | store, finalize, token, doctor | two files written one after the other |
| Authority feed, discovery (`export_authority_feed.py`, `fetch_peer_authority.py`, `discover_federation_peers.py`) | feeds and manifests | export, fetch, discover | a status that depends on the order of the documents |
| Rendering of cards and descriptors | none | render | nothing |
| Prompts, contracts, missions, examples | data | read by people and agents | nothing |

How they interact. The policy engine uses the Gate App's token only to publish a bootstrap check, and the owner's `gh` session for everything else; what it configures is the requirement of the check that the review gate publishes. The review gate loads the artifact validator to check schemas. Workers of a run start their expensive commands through the heavy-command guard. The heartbeat workflow runs the NADI relay and then the postcondition. Setup calls governance.

What makes each component correct: *policy engine* — whatever was changed can be undone from the disk, and a reported outcome is true of GitHub; *guard* — one heavy command per run id, whoever dies; *review gate* — a success check stands on one head for one approved, consistent chain, and repeating the command adds none as long as GitHub shows it what is there; *coordination* — messages that pass one by one only ever take a run along the documented pipeline, and no result is merged as approved that was sent back since it was last accepted; *missions* — one verdict per mission, a settled signal is taken up again only by the right override, and what was accepted stays acceptable; *heartbeat* — the workflow succeeds only if the heartbeat emitted in it reached the hub; *governance* — CONFIRMED is never said without evidence and no owner's ruleset is rewritten; *credentials* — the installation on disk belongs to the App on disk, and the owner gets out of every half-written state by doing what the messages say.

## 2. Plan

1. `GatePolicy` — the policy engine, with proofs. **Done.**
2. `HeavyLease`, refining `HeavyMutex`, with proofs. **Done.**
3. `ReviewGate` — publication against changing files and heads, with proofs. **Done.**
4. `NodeGovernance` — inspection, creation of the baseline and topic registration by concurrent commands, with proofs. **Done.** The visibility of bypass actors and the local half of setup are left.
5. `RepairPipeline` (abstract: a relay of roles and products) and `Coordination` (the message validator over one thread), the second refining the first, with proofs. **Done.**
6. `MissionRecord` — formulation, admission, pinning, ledger, runs, rejections and terminal feedback on branches, with proofs. **Done.**
7. `NadiRelay` — senders, daemon, heartbeat job and hub, with proofs. **Done.**
8. `GateSetup` — key and configuration files, setup commands, the owner on GitHub, with proofs. **Done.**
9. Left: an abstract undo log that `GatePolicy` implements when the owner does not interfere; the order-dependent status of a fetched authority feed.

## 3. GatePolicy: the branch-policy engine

**State and correspondence.** `remote[r]` is GitHub's protection of one default branch: the classic part (how it lists the gate's context, its approvals, the people its lists name), whether some other ruleset exists (`other`: the code looks no further, so whatever such a ruleset requires, human approvals included, stays required and no property speaks of it), and the ruleset named `federation-hq-review-gate-v1` with its id and one of three bodies. Everything else of a payload is copied through unchanged by the code and left out. `plan`, `confirmed` and `backups[k]` are the files on disk (the operator's confirmed SHA-256 is the plan it belongs to); `mode`, `pc`, `cur`, `todo`, `repo`, `seen`, `report` are the running command; `initial`, `edits`, `holed` and `lost` are history that no action reads to decide anything, and `applied` bounds the runs of apply.

Each GitHub write is an action (`Write`): it succeeds, or `gh` reports an error after GitHub executed the request, or before. Snapshots (`View`) are read atomically. `NextEntry` is the head of apply's loop with its skip, drift and dry-run exits; `Bootstrap`, `Mark`, `PutClassic`, `ListGate`, `UpdateGate`, `CreateGate`, `Verify` are the rest of the entry; `UndoUnmarked`, `UndoList`, `UndoGate`, `UndoClassic`, `UndoVerify` are `_rollback_repo`, entered from apply's failed verification or from `policy rollback`. `Crash` is the death of the process, and also every exception that is not a `PolicyError`, which loses the report in the same way. `OwnerEdits` is the owner on GitHub.

Two abstractions deserve a word. `Renormalize` is `_normalize_classic_for_write` applied to its own output: the names are plain strings by then and every list comes out empty, which is what the code does on rollback and in its verification. A ruleset listing that fails inside `_normalize_protection` is recorded as an empty listing; it may fail in every snapshot of a plan and of a drift check, and `holed` remembers the repositories that apply goes on with although their snapshot misses a ruleset. A backup file is named for the second: an apply in the second of the one before replaces that file with its marks (`ApplyStart`), and `lost` remembers the repositories whose mark was replaced so.

**Simplifications.** One command runs at a time; an apply whose entries are all skipped writes an empty backup, which is the same as none (`DryRunStart`); the loop takes the repositories in any order; a branch is not renamed; `apply` without a hash always stops at the hash comparison and is left out; GitHub refuses a second ruleset of the gate's name (`Rejected`; `NodeGovernance` allows for duplicates, because there they are the hazard); `--exclude` and the other filters are the constant `Scope`.

**Runs.**

| Run | Instance | Shows |
|---|---|---|
| `gate_crash` | one repository, seven protections, 2 applies that may fall in the same second, listings that fail silently, 1 fault per command, 1 owner's edit; 1,574,154 states | types, the journal properties, the truth of reports, completion of rollback |
| `gate_fleet` | three repositories, one outside the plan, four protections, 1 apply, 1 fault; symmetry over the two planned ones; 1,958,132 states | truth of reports and the journal across entries |
| `gate_FailedVerificationIsUndone` | one repository | a statement of the module's documentation that the code does not keep (see Findings) |

Why the bounds are enough: entries of different repositories share nothing but the loop and the file, so one repository with two applies and unboundedly many rollbacks has the histories of interest, and `gate_fleet` has what the loop adds. One fault per command already puts a lost answer at each call, and every new command may meet another. Two applies let a later plan describe an already configured branch. The proofs have none of these bounds.

**Properties.** `WriteAhead` and `Recoverable` say that the journal suffices; `BootstrapFirst` that no branch requires a check the App never published; `ConfiguredIsEnforced` and `RestoredIsBefore` that the two good outcomes are true of GitHub, the first also that what the classic protection had besides is still there (`ClassicKept`); `RollbackCompletes` that an undisturbed rollback is never blocked by a half-done one. Properties about one repository are stated for repositories the owner left alone (`edits[r] = 0`), except `WriteAhead`, which holds whatever the owner does. `Recoverable` and `RollbackCompletes` leave out the repositories in `holed` and `lost`: for those the file on disk does not have the first state, and the code does not notice.

**No liveness.** A command is a loop over a finite list. What could keep it from ending is `gh` itself, which is called without a timeout (policy.py:52, 88, 104); that is GitHub's side and outside the model.

**Proofs** (`GatePolicyProofs`). The inductive invariant `JournalInv` adds to the types where a command is inside an entry (`AtEntry`: after the mark the entry in use is marked on disk; before it, the plan's entry is not skipped), which file it relies on (`InUse`: apply's backup is the confirmed plan) and what files can hold (`OnDisk`). It is needed because `WriteAhead` speaks of a write at a `pc` several steps after the mark. From it follow `TypeCorrect` and `WrittenAhead`. `BootstrapComesFirst` adds that whatever has a mark was bootstrapped (`MarkedIsBooted`). `ConfiguredMeansEnforced` and `RestoredMeansBefore` look at the one step that writes such a report, which comes from `Verify` and `UndoVerify` with the snapshot just compared, and at the steps after it, which leave a repository with a final report alone; for `ClassicKept` the first also follows the entry from the drift check to the verification (`AsPlanned`). `ChangedIsRecoverable` needs two more conjuncts: `Undrifted` (between the drift check and the mark the plan still describes GitHub, unless the owner edited or a listing had failed) and `FirstMark` (an unmarked repository is unchanged, and the first mark keeps the first state). `RollbackIsComplete` is the longest: with one backup file, no failed call and no edit, an unmarked repository is as at the beginning, the file holds the first state, and the gate ruleset of that state is still there under its id (`FirstFile`); each step of the undo has achieved its part (`Undoing`), so its verification finds the first state again and nothing is reported unrestored (`Completes`). No theorem assumes that listings succeed or that seconds differ: the two exceptions are in the properties, repository by repository. The proofs use the three named assumptions of the module and no bound on repositories, applies, faults or edits.

## 4. HeavyLease: the heavy-command guard

**State and correspondence.** An invocation `w` owns one open file description; `open[w]` is the set of processes that have it open (wrapper, heavy command, what the command left behind) and `owner[l]` the description that has the flock of lock file `l`. `Close` is the kernel's rule: the last close releases. `Open` and `Flock` are `acquire_lock`, `Preflight` is `pressure_status` with the load left free, `Launch` and `Wait` are `subprocess.run`, `Return` is every way out through the `finally`. `Die` kills the wrapper anywhere, `Interrupt` is the `KeyboardInterrupt` at the child. `LockOf` is `sanitize_run_id`: not injective, and `None` for a rejected run id. A slot of `Wrappers` is used again when nothing of its last invocation lives.

**Assumed of the outside.** A command that a signal ended has a negative return code, which the wrapper's own exit turns into 256 minus the signal; it is one more of `ChildCodes`. Nobody unlinks a lock file that is in use, and the heavy command does not close or unlock the descriptor it inherits. Leftover processes that closed the descriptor are outside the guard's promise and the model.

**Runs.** `heavy_guard`: two concurrent invocations over four run ids (two with the same lock name, one rejected), every kind of death; the lease implements `HeavyMutex` with `heavy[r]` mapped to the invocations of `r` whose command runs. Two invocations suffice for a conflict, and a third only repeats the second.

**Fairness.** `WF_vars(WrapperStep(w))` for each wrapper, since a process that is not killed runs on. A heavy command need not end: there is no timeout in the code, so `WrapperReturns` says that a wrapper waits for nothing else.

**Proofs** (`HeavyLeaseProofs`). `TypeCorrect`, `LeaseHeld` (`LeaseOutlivesCommand`) and `StaleLockHarmless` (`HeldByTheLiving`) follow from the invariant. `LeaseInv` says that the wrapper has its descriptor from `Open` to `Return`, that a running command has it too, and that from `Flock` on the flock belongs to that description. `LeaseImplementsMutex` is the refinement, for any number of wrappers: a launch for a run id happens with the flock in hand, so no other command of that run id runs.

## 5. ReviewGate: the publisher of `federation-hq/review`

**State and correspondence.** `files[r]` is the directory of run `r`: manifest, candidate, repair, the first review file, and whether there is a later one; a document has the fields that are compared, `None` stands for a file that is missing and `Malformed` for one that does not parse or fails its schema. `prs` are the pull requests, `checks` the successful checks on GitHub. `pc`, `args`, `loaded`, `hashed` are the running command and what it holds in memory; `ever` and `proposed` are history, and so is `blind`: the lookup of the running command, or of the one that published a check, had failed.

`Begin` is the command line with its two optional pins. `Load(kind)` is one read of `resolve_run_artifacts`, an action of its own for each file, because the files can change between two reads. `ValidateChain` is the comparisons, `HashRepair` and `HashReview` read two files again for their hashes, whatever they hold by then, `ListReviews` looks for later reviews, `Token`, `VerifyHead`, `Lookup` and `Publish` are the calls to GitHub. `Rewrite`, `Push` and `ClosePR` are the workers and authors. A hash is the document it was computed from, a malformed one included. `Lookup` takes a failed request for an empty answer, as the code does.

**Simplifications.** One publisher at a time; the pull requests are in one repository; a token is obtained or it is not; GitHub may list a commit's pull requests in any order, so `VerifyHead` takes any open one for the first; check runs of other names and conclusions are left out, since the lookup skips them.

**Runs.**

| Run | Instance | Shows |
|---|---|---|
| `review_chain` | one run with five kinds of directory, two rewrites, two interchangeable pull requests with one move, two repositories, one fault per command; 2,066,814 states | success checks are earned, on proposed heads, and published again only after a failed lookup |
| `review_SuccessIsVisible` | two runs `r1` and `r10` that reviewed the same head, no faults | a statement in the code that it does not keep (see Findings) |

Two rewrites put a foreign document between any two of the reads and take it away again; two pull requests let one commit be the head of one and merely contained in the other, and one move is enough to push a commit below a head or to close the one that had it; two checks are enough for a duplicate. A directory with malformed files, in two rewrites, lets a command parse good documents and hash bad ones. Commands repeat without bound.

**No liveness.** A command is a straight line of at most thirteen steps, and nothing in it waits for another actor; `Spec` has no fairness.

**Proofs** (`ReviewGateProofs`). `ChainInv` relates what is parsed at each label to `ever`, and says that past the comparisons it is a chain; `SuccessIsEarned` needs it because the check is posted seven steps after the comparisons, when the files may all be different. `FreshInv` says that a command about to post after a lookup that did not fail has no check of its run on the head; `OnceInvariant` follows from it: of two checks for one run, repository and head the later was published by a command whose lookup failed, for any runs, even where ids begin one another. `HeadProposed` needs that from `lookup` on the head was seen on an open pull request (`ProposedInv`).

## 6. NodeGovernance: branch protection and topics of a node

**State and correspondence.** `rulesets`, `classic` and `topics` are the repository on GitHub, `created` the last ruleset id given out. Several commands run at once: `args[c]` is what command `c` was called with (setup with its flags, the standalone `--apply-governance`, `--status`), `mem[c]` what it holds in memory, `result[c]` the compliance it reported. `hist` is history, set by `Observe` in every step and read by no action. Between two actions of a command lies one call to GitHub: `ReadTopics`, `AddTopic`, `RereadTopics` are `_register_federation_topic`; `Detect` is `detect_repository`; `ReadRules` and `ReadClassic` are the two reads of an inspection, the second with the evaluation and `Decide`, which is what the three callers do with it; `Ask` is the question of interactive setup; `List`, `Detail`, `Post` are `ensure_governance_baseline`, and `Reinspect` its re-read. Each call may fail, and a write may fail after it took effect. `Crash` and `OwnerEdits` may happen between any two.

**Simplifications.** A ruleset is reduced to whether it has the reserved name, whether it is active on the default branch, which baseline rules it has, and whether every other field that `_is_compatible` looks at is as it must be (`plain`); stricter rules make no difference. Rules of the organisation are constant. A 404 on classic protection means there is none, as the code takes it. The listing is complete (see the hazards). `gh repo edit --add-topic` is one atomic addition, which is what the code relies on. Diagnostics and exit codes are functions of what is modelled and left out, and so are the local files of setup. The saved configuration is there: without it `--status` and the standalone command end before they read anything.

**Run.** `governance_two`: two interchangeable commands, repeated without bound, that may be interactive setup, offline setup, standalone apply or status; three classic protections, an initial ruleset or none, three rulesets the owner may make, two topics, one owner's edit, one fault per command, three rulesets in all. Two commands are enough for a race, and a third ruleset for a duplicate next to one of the owner's; one edit can fall between any two reads.

**Properties.** `ConformantWasTrue`: a rule is only confirmed if it was in force at some moment of that inspection. It does not say that all were in force at one moment, and they need not have been: the two sources are read one after the other. `RegistrationWasTrue` is the same of the completion banner. `OnlyAdditions`: nothing of the owner's is changed or taken away. `DuplicateNeedsOverlap`: what repeated commands, lost answers and crashes may not do. `QuietApplyProtects`: a command that may write, is not disturbed and meets no failure ends conformant, unless a ruleset of the reserved name stands in the way; in particular an inspection that ended unknown is no reason to do nothing.

**No liveness.** A command is a straight line of at most twelve calls and one question to the user.

**Proofs** (`NodeGovernanceProofs`). `IInv` adds to the types `Seen` (what source A told a command was in force, and so is what is in force now; both are in the history from the first read of the inspection to the second) and `Fresh` (ids are given out in order, and a command about to create the ruleset was shown none of the reserved name, so any there is newer than its listing). `ConformantIsTrue` and `DuplicatesOverlap` follow for any number of commands, edits, failures and rulesets, from `TypesAssumption` and `BodyAssumption`. `RegistrationIsTrue` adds what setup has seen of the topic (`TopicSeen`), `AddsOnly` what a command was told (`Told`: only one that may write, or that asked, gets to `post`). `QuietApply` follows an undisturbed command from its first read to its report; it assumes that a command that may write can tell its repository from a git remote (`\A a \in Args : MayWrite(a) => a.remote`), because without one the code ends with unknown before it has asked GitHub anything.

## 7. Coordination and RepairPipeline: one run on its Issue

**State and correspondence.** `state` is the run's `pipeline_state`, `mail` the workers' messages that the Operator has not answered, `results` the results it has ever accepted, `sentBack` (history) those of them that an accepted review sent back and that were not accepted since, `candidate`, `result`, `review` the artifacts on the run-record branch, `head` the number of pushes to the target. `AssignmentTransitions`, `AcceptanceTransitions`, `AssignmentKinds` and the `May...` operators are the tables and the branches of `check_coordination_message`; `BundleOK` is the comparison of review and result in `validate_run_bundles`. `Assign`, `Accept`, `Rework`, `Close` are the Operator posting whatever the check lets through; `Work` is a worker: it may answer any assignment that was ever posted, late, again or never, a result may be about any head that was pushed, a review about any head and any result that was ever on record, and what was accepted or sent back may be submitted once more. The repair may push after it submitted. An acceptance is not tied to the assignment it answers, because the check does not tie it.

`RepairPipeline` is the promise of `docs/REPAIR_PIPELINE.md`: one role at a time, on the product of the one before, verdicts from reviews only. `Coordination` implements it with `Worker` and `Product` read off the state.

**Simplifications.** The Operator reads the thread, so a message's `state_before` is the run's state. It reads a review before it accepts it, so the acceptance carries the review's verdict, which the check does not compare (validate_artifacts.py:529). Hashes stand for the artifacts they are of. Identifiers, repositories, schemas and the fields that no transition depends on are left out.

**Run.** `coordination_run`: seven assignments, one push, one waiting message, late answers; 553,361 states. Seven assignments are a scout, a repair and a review and two more rounds, so that an answer can come a whole round late. One waiting message is enough, since every message can be posted at any later time with the same contents: what lies in the mail for long is as if it were posted just before it is answered (five assignments with two waiting messages hold as well). One push moves the head between any two steps. The theorems have none of these bounds.

**Properties.** `FollowsThePipeline`: messages that pass one by one take the run along the pipeline and nowhere else. `RecordKeepsUp`: the state never runs ahead of the record. `SentBackIsNotApproved`: the approval of an earlier round can be accepted on the Issue when it comes late, but no record with it passes, unless the Operator has accepted the very result that was sent back once more. The check of messages lets that happen (validate_artifacts.py:490-547 compares a submission with nothing that came before), and the property says that nothing less will do. No fairness and no liveness: a worker that vanishes leaves the run where it is, and nothing in the code ends it.

**Proofs** (`CoordinationProofs`). `IInv` adds to the types and `RecordKeepsUp` that before the first round nothing is reviewed (`NoReviewYet`). `TypeCorrect` and `RecordIsComplete` follow from it, and `ImplementsThePipeline` by one step per action: each step of the thread is a step of the relay or leaves it alone. `SentBackStaysOut` needs an invariant of its own, `SentBackInv`: while the result on record is one that was sent back, the state is among those from which no approval follows before a repair is accepted.

## 8. MissionRecord: missions, ledger and runs on main

**State and correspondence.** `main` is the part of the tree that the validator reads together: the ledger item of each signal, the committed packages, the runs, and the pre-run rejections. `branch[b]` is what an open pull request changes, `None` where it changes nothing. `Valid` is `main()` of `validate_artifacts.py`: `BundleOK` (admission on the pinned bytes, an assessment on a closed run), `Coherent`, `AssessmentOK`, `AssessedOncePerMission`, `RejectionOK`. `Admitted` evaluates the package on `basis`, the ledger the run's manifest pins, and `MayReopen` is the override rule. `Formulate`, `Decide`, `NewPolicy` are the Director and the maintainers, `Open`, `Record`, `Close`, `CloseOnly`, `Reject` the Operators, `TakeBack` what a maintainer must do when a rejection and an opened run have both been merged.

GitHub and git are external: `Push` judges the merge of a branch with the main of that moment; `Merge` comes later, on that verdict; branches that change the same entry differently clash (`Clash`), and the one that is left is dropped, since its author has to begin anew.

**Simplifications.** A contract is reduced to the signals it names, its override and whether it pins the policy of its own commit; terminal is one of three dispositions, of which an assessment in the run carries one (`Closings`). `Decide` and `NewPolicy` are merged at once. The pinned bytes exist, and nobody edits a committed package. Policy, routing and rubric documents are not told apart.

**Run.** `mission_two`: two missions, of which the second shares a signal with the first, two interchangeable runs, two interchangeable pull requests; one mission may be overtaken by a policy, one may have a run closed without an assessment; 265,952 states. A third branch would meet main after two merges, which a second one reopened after the first merge does as well; with two missions on one signal a settled signal is taken up again, and with two runs a mission could get two assessments.

**Properties.** `OneVerdict`: a mission never has two assessments on main, nor one beside a rejection, although two branches may each carry one: their ledger items clash. `OverrideNamesTheAssessment`: a run on a signal that an assessment had settled names it and its disposition. `OnlyRejectionsRace`: main becomes invalid in one way only. `RunsCanClose` and `SettledSignalsReopen`: there are no dead ends on a valid main. `TypeOK` belongs to no run; it is a conjunct of the invariant and `TypeCorrect` proves it.

**Met while modelling.** The rejection of a mission and the opening of its first run pass the validator side by side, both merge, and every other pull request fails until one is taken back. A policy that is merged between a formulation and its merge makes that mission inadmissible for ever, since the pins are compared at the formulation commit (validate_artifacts.py:867), and the static check does not look at them (line 996). An override names one signal, so a candidate whose two signals are both settled cannot be admitted. Only a candidate's first signal is compared with the ledger. A second run of an assessed mission can be opened and recorded, but not closed with an assessment.

No fairness: authors and maintainers are people and agents.

**Proofs** (`MissionRecordProofs`). No branch knows what is merged next to it, so an invariant of main alone is not inductive. `RecordInv` says three things: main is `Sound`; every open branch's merge with the main of the day is `Sound`, though the validator judged it on another main; and the branch's patch `Fits` main. `Sound` is what remains of `Valid` when races are allowed for: it drops that a rejected mission has no run, and adds what the validator does not see (an item lists assessed runs only, a terminal item's mission has its verdict, the ledgers that packages were decided on speak of assessments that still stand). `Fits` says that what a patch changes is new to main, and that a package, a rejection or an assessment comes with the ledger item of its mission, which is why git refuses the second of two verdicts.

The proof has three parts. For an author's push, `ValidIsSound` turns the validator's verdict into soundness and `DiffFits` makes the patch fit (`FormulateKeeps`, `OpenKeeps`, `RecordKeeps`, `CloseKeeps`, `CloseOnlyKeeps`, `RejectKeeps`, `TakeBackKeeps`). For a merge, `PatchesJoin` shows that two patches which do not clash make a tree whose entries each come, with the verdicts that belong to them, from one of the two merges, `JoinSound` that such a tree is sound, and `StillFits` that the patch left open fits the new main (`MergeKeeps`). A new policy changes only packages without a run (`SameButPolicy`). Then all five properties follow from `Sound(main)`: `MissionsJudgedOnce`, `OverridesAreEarned`, `OneRaceOnly`, and, with `Valid(main)`, `ClosingIsAlwaysPossible` and `ReopeningIsAlwaysPossible`. They hold for any signals, missions, runs, branches and proposals, from `ProposalsAssumption`, `ClosingsAssumption` and `NoneAssumption`, whose last two only say that a proposal names a signal and that the marks for nothing and for removed are no data. That answers for the bound of two branches in the run.

## 9. NadiRelay: a heartbeat on a machine and on a runner

**State and correspondence.** On a machine, `outbox` is the file that senders, the clear command and the daemon share; `user[u]` is a call of `nadi_send.py`, repeated after each exit code 1; `daemon` is where `_run_relay_cycle` is. On the runners, `job` is the step of `heartbeat.yml`, `box` its checked-out outbox, `proof` the captured file of `heartbeat_postcondition.py`, `unread` and `found` the loop of `cmd_verify`. Both push to the same mailboxes: `files` are those that exist, `newer[p]` how many messages came after the job's heartbeat, `Cap` if it is not there. `Send` and `Reread` are the emission and the re-read verification with anything in between; `PlainBeat`, `AgentBeat`, `AgentStatus`, `Fallback`, `Sync`, `SyncClear`, `Sleep` are the daemon with or without a head agent; `StartJob` to `VerifyEnd` are the job, which may be cancelled anywhere.

**Assumed of the outside.** nadi-kit as `docs/FEDERATION_BOOTSTRAP_PROGRAM.md` (2.2) describes it: outbox and mailboxes are ring buffers of `Cap` messages, and `sync` pushes to each target, swallows what fails and clears the outbox if anything was pushed. A message that arrives between push and clear is lost there. `CapAssumption` says that a ring holds one heartbeat: a node with more peers than that would lose a part of every heartbeat before it is captured, and a green job would not mean what it says. Reading a local file does not fail, and an emission is atomic. The time to live of a message and the daemon's interval are left out: a message of `nadi_send.py` lives 300 s by default and the daemon syncs every 900 s, so that a message may expire in the outbox.

**Run.** `nadi_node`: two peers, one sender, rings of three, one fault, with or without a committed message of the machine's key; 238,508 states. Three is one more than a heartbeat: a ring with one other message in it overflows at the next heartbeat and not before. Two peers tell a heartbeat that reached one from one that reached all. One fault hits each call once; the properties that speak of the end of faults need no more.

**Properties.** `GreenMeansHeard`: a job that ends green, and was not skipped for want of a secret, has been heard by every peer, although its syncs swallow what they could not reach. `OneCopyPending`: repeating after exit code 1 leaves no second copy. `RelayGoesOn`: the daemon's loop survives its syncs; only an emission that fails outside the `try` ends it. `JobsTurnGreen`: the postcondition does not ask in vain; it excepts jobs whose heartbeat the daemon's own messages push out of a full mailbox.

**Fairness.** `WF_vars(StartJob)`: the schedule of the workflow. `WF_vars(JobStep)` and `WF_vars(DaemonStep)`: a job that is not cancelled and a process that is not killed go on. None on senders, the clear command or GitHub.

**Met while modelling.** Exit code 1 is also the answer for a message that the relay delivered between the emission and the re-reading, and the repetition delivers it twice. An exception of the head agent after its heartbeat leads to a second heartbeat. A committed outbox message of another key makes capture fail the job. A delivered heartbeat turns the job red if one mailbox cannot be fetched.

**Proofs** (`NadiRelayProofs`). The invariant has a part for each place. `Machine`: a sender with nothing queued has no message in the outbox, so an emission is never a second copy, whatever the ring drops. `Hub`: a mailbox that the job's heartbeat has not reached does not show it. `Runner`: what the job captures names every peer, because its own emission is the latest in the ring; what it has found has been there. `GreenIsHeard` follows because the job only ends green when nothing of that proof is missing. The lemmas `RingKeeps`, `EmitKeeps` and `HeartbeatForAll` say what the ring and the heartbeat are; the theorems hold for any number of peers, senders and faults and use `CapAssumption`, `UsersAssumption` and `FaultsAssumption`.

## 10. GateSetup: the gate's App on GitHub and on disk

**State and correspondence.** `apps` and `inst` are GitHub's Apps and installations; `key`, `tight` and `cfg` the private key, its mode and `config.json`; a file that is being written is `Torn`. `cmd[c]` is a running `setup-app`: `Callback` and `Deadline` end the manifest flow's wait, `OpenKey`, `FillKey`, `Chmod`, `OpenConfig`, `FillConfig` are `store_credentials` write by write, `Ask` is `finalize_installation`'s question to GitHub, `Persist`, `OpenSave`, `FillSave` are `persist_installation_id`. `Safe` is what `run_doctor` calls safe and `Publishes` whether a publishing command gets its token. `Unasked` is everything the owner does on GitHub or on the command line for reasons of their own, and the interruption of commands; `FinalizeAsAsked` and `StoreAsAsked` are what the messages ask for.

**Simplifications.** An installation is one of five kinds (or gone), which is what the permission checks tell apart. The owner's `gh` session works and the repository's id is found. The owner types ids as GitHub shows them. Of the environment's overrides, `FEDERATION_HQ_APP_ID` is there, the installation's id and the key's path are not. Two commands that fill the same file at once may leave a bit of both, which is `Torn` again.

**Run.** `setup_two`: two Apps, two installation ids, two commands at once, five unasked events; 503,916 states. Two overlapping commands on two Apps are needed to mix files; five events make an App with its installation, start both commands, and leave one for an interruption or a change.

**Properties.** `PairsBelong`: the configuration never pairs an App with another App's installation. `SetupSucceeds`: from any state the owner who does what the messages say ends with a configuration that doctor calls safe and that publishes, as long as some App can be finalized.

**Fairness.** `WF_vars(Step(c))`: a command that is not stopped goes on. `SF_vars` of the owner storing an App that can be finalized: that is the property's premise (an owner who keeps reading "UNSAFE configuration" and acts on it), not a promise of the code; it is strong because other commands keep coming between.

**Met while modelling.** Neither the runtime nor doctor compares the stored installation id with the one they discover. Two finalizations that overlap can replace a stored id, since the refusal of a different one is decided on an earlier read. A command that dies between key and configuration leaves the new key beside the old App, and every call then fails at GitHub until the owner stores again. An App that was made in the browser stays on GitHub when the flow ends before it is stored.

**Proofs** (`GateSetupProofs`). The invariant carries `PairsBelong` and, for each running command, that what it is about to write fits: past `Ask` its installation belongs to its App, and what it has read of the file is of that App (`Fits`). It is needed because the write comes three steps after the question and two after the comparison. Installations never change their App, so what fitted once fits later. `TypeCorrect` and `PairsAlwaysBelong` hold for any number of commands, Apps, ids and events.

## Findings

Each is a statement of the repository's documentation that a run refutes; `PROJECT.json` quotes both sides.

- A failed lookup of the individual ruleset during verification skips the rollback (`FailedVerificationIsUndone`; policy.py:752 against policy.py:11).
- A run that is given up after a rework was accepted is closed with a record that the validator refuses: the recorded review names the result before it (`ClosedRunsCanBeMerged`; validate_artifacts.py:1519 against docs/COORDINATION_PROTOCOL.md:133).
- A run whose id begins another's takes the other run's check on the same head for its own, and none is published (`SuccessIsVisible`; review_check.py:275 against line 259).

Differences met while modelling that have no run of their own; the models contain the code's behaviour:

- A rollback of classic protection that names people reports `restored` with empty lists: the stored payload is normalized a second time (policy.py:873, against policy.py:799).
- `PRESSURED` is also the answer when the command itself ended with that code (run_heavy_command.py:127, against line 21).
- A failed lookup is taken for an empty one, and a second check is published (review_check.py:266, against docs/GITHUB_APP_REVIEW_GATE.md:147); `DuplicateNeedsFailedLookup` says that this is the only way to a second one.
- An artifact that has become malformed after it was validated is hashed all the same, and its hash is published as that of the validated one, unless it is pinned (review_check.py:188, against "canonical recorded bytes" in line 186).
- Two applies in one second use one backup file, and the second replaces the marks and before-states of the first (policy.py:521 and 129, against policy.py:14).
- Apply sets the approvals of classic protection and of its own ruleset to zero; a ruleset of another name that requires approvals stays, and the repository is reported configured with `approval_count_zero` (policy.py:755, against docs/GITHUB_APP_REVIEW_GATE.md:120).
- A result that was sent back may be submitted and accepted again as it is, and an approval of it then passes (validate_artifacts.py:490-547, against "superseded by a new submission" in docs/COORDINATION_PROTOCOL.md:90).
- A terminal run whose directory holds a manifest alone is passed over and needs no assessment (validate_artifacts.py:1474, against the comment at line 1558).
- The Operator's prompt asks for a `blocked` message and a close as `invalid_candidate` (prompts/operator/v0.3.1.md:388) that the check of messages refuses.
- Rollback of a repository that was never marked reports external drift when its protection names people, for the same second normalization (policy.py:936; policy.py:816 promises a no-op).
- Rollback deletes classic protection that apply cannot have created (policy.py:885, against the comment at policy.py:877), and a gate ruleset that a failed listing hid from the snapshot (policy.py:316 and 864, against policy.py:797).
- `BUSY` is also the answer when the lock directory or file cannot be created or opened (run_heavy_command.py:109, against line 19).
- A chain that does not match publishes no failure check: `publish_failure_check` has no caller (review_check.py:319, against docs/GITHUB_APP_REVIEW_GATE.md:148).
- The baseline in a check comes from the manifest and is compared with nothing (review_check.py:216, against "verified facts" in line 138).
- Classic protection without required reviews makes the status of the pull request rule unknown although both sources were read (_protection.py:284, against _models.py:38; tests/test_governance.py:376 asks for the same of other fields), and interactive setup then never offers the baseline, because it asks only on non-conformant (setup_node.py:1132).
- `--apply-governance --repo X` ignores `--repo`: it is missing from the condition that tells a standalone run (setup_node.py:1285).
- A pin is compared with the review as it is read again for its hash, not with the one whose verdict was read (review_check.py:189 and 117).

## What is proved and what is only checked

Proved for every value of the constants, under the named assumptions of each module:

- `GatePolicyProofs`: types, `WriteAhead`, `Recoverable`, `BootstrapFirst`, `ConfiguredIsEnforced`, `RestoredIsBefore`, `RollbackCompletes`.
- `HeavyLeaseProofs`: types, `LeaseOutlivesCommand`, `HeldByTheLiving`, and the refinement `OneHeavyCommand`.
- `ReviewGateProofs`: types, `SuccessIsEarned`, `AttestedHeadWasProposed`, `DuplicateNeedsFailedLookup`.
- `NodeGovernanceProofs`: types, `ConformantWasTrue`, `RegistrationWasTrue`, `OnlyAdditions`, `DuplicateNeedsOverlap`; `QuietApplyProtects` where a command that may write has a git remote.
- `CoordinationProofs`: types, `RecordKeepsUp`, `SentBackIsNotApproved`, and the refinement `FollowsThePipeline`.
- `MissionRecordProofs`: types, `OneVerdict`, `OverrideNamesTheAssessment`, `OnlyRejectionsRace`, `RunsCanClose`, `SettledSignalsReopen`.
- `NadiRelayProofs`: types, `GreenMeansHeard`, `OneCopyPending`.
- `GateSetupProofs`: types, `PairsBelong`.

The hypothesis of `QuietApplyProtects` also holds in the run that checks it; where it fails, so may the property, for the reason the module's section gives. Liveness is out of the prover's reach and stays with TLC: `WrapperReturns`, `RelayGoesOn`, `JobsTurnGreen`, `SetupSucceeds`.

## Not modelled

- Authority feed and discovery: the fetch's status depends on the order of the documents, which is left to the plan; discovery is reading and printing.
- Rendering of cards and descriptors, prompts, contracts and examples: no state to get wrong.
- The local half of setup (peer and descriptor files, the wizard, quickstart): files written once, one after the other, by one command, with nothing that relates them later.
- The first page of the ruleset listing (_protection.py:324): the number of rulesets at which GitHub cuts it is not in the code, and the model lists them all.
