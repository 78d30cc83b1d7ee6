----------------------------- MODULE ReviewGate -----------------------------
(***************************************************************************)
(* The publisher of federation-hq/review (federation_hq_gate/              *)
(* review_check.py, run by `publish-review-check`): it reads the artifacts *)
(* of a run one file after the other, checks that they form an approved    *)
(* chain, hashes two of them, and puts a success check on the reviewed     *)
(* head.  The files may be rewritten between two reads, pull requests move *)
(* between two calls, a call may fail or lose its answer, and the process  *)
(* may die.  One publisher runs at a time.                                 *)
(***************************************************************************)
EXTENDS Naturals

CONSTANTS
  Runs, Repos, Heads, Baselines,
  Ids,            \* candidate ids and result ids
  Prefix,         \* <<r, s>> when the text of run id r begins that of s
  Bundles,        \* what a run directory may hold at first
  PRs,            \* pull requests, all of them in one repository
  PRRepo,         \* that repository
  MaxChecks,      \* bound: checks published
  MaxFaults,      \* bound: failed calls of one command
  MaxWrites,      \* bound: rewrites of artifacts
  MaxMoves,       \* bound: pushes and closings of pull requests
  None,           \* a file that is not there
  Malformed       \* one that does not parse or fails its schema

-----------------------------------------------------------------------------
(* The artifacts, as far as their fields are compared.                      *)

Candidates == [run : Runs, id : Ids, baseline : Baselines]

Repairs == [run : Runs, candidate : Ids, result : Ids, repo : Repos, head : Heads,
            baseline : Baselines]

Reviews == [run : Runs, candidate : Ids, result : Ids, repo : Repos, head : Heads,
            verdict : {"approved", "other"}, blockers : BOOLEAN]

\* A run directory; "later" is a second review-result file.
Directory == [manifest : Baselines \cup {None, Malformed},
              candidate : Candidates \cup {None, Malformed},
              repair : Repairs \cup {None, Malformed},
              review : Reviews \cup {None, Malformed}, later : BOOLEAN]

\* A hash stands for the bytes it was computed from, which may be malformed.
\* blind is history: the lookup before the publication had failed.
Check == [n : Nat, repo : Repos, head : Heads, run : Runs, baseline : Baselines,
          repair : Repairs \cup {Malformed}, review : Reviews \cup {Malformed},
          blind : BOOLEAN]

PullRequest == [head : Heads, commits : SUBSET Heads, open : BOOLEAN]

\* What the command is called with; a pin is the hash of an accepted artifact,
\* and what was accepted is well formed.
Args == [run : Runs, repo : Repos, head : Heads,
         repairPin : Repairs \cup {None}, reviewPin : Reviews \cup {None}]

ASSUME PrefixAssumption == \A r \in Runs : <<r, r>> \in Prefix
ASSUME BundlesAssumption == Bundles \subseteq Directory
ASSUME BoundsAssumption ==
  /\ PRRepo \in Repos
  /\ MaxChecks \in Nat /\ MaxFaults \in Nat /\ MaxWrites \in Nat /\ MaxMoves \in Nat
ASSUME NoneAssumption ==
  /\ None \notin Baselines \cup Candidates \cup Repairs \cup Reviews \cup Args
  /\ Malformed \notin Baselines \cup Candidates \cup Repairs \cup Reviews \cup {None}

VARIABLES
  files,    \* files[r]: the directory of run r
  prs,      \* the pull requests on GitHub
  checks,   \* the App's successful checks on GitHub
  pc, args, \* the running command and what it was called with
  loaded,   \* the documents it has parsed
  hashed,   \* the documents it has hashed
  result,   \* how the last command ended
  faults, writes, moves,
  blind,    \* history: the running command's lookup has failed
  ever,     \* history: the documents a run directory has held
  proposed  \* history: the heads open pull requests have had

command == <<pc, args, loaded, hashed, result, faults, blind>>
world   == <<files, prs, writes, moves, ever, proposed>>
vars    == <<command, world, checks>>

Kinds == {"manifest", "candidate", "repair", "review"}

NoDocument == [k \in Kinds |-> None]

Documents == Baselines \cup Candidates \cup Repairs \cup Reviews

PCs == {"idle", "chain", "hashRepair", "hashReview", "listing", "token", "head",
        "lookup", "post"} \cup Kinds

TypeOK ==
  /\ files \in [Runs -> Directory]
  /\ prs \in [PRs -> PullRequest]
  /\ checks \subseteq Check
  /\ pc \in PCs
  /\ args \in Args \cup {None}
  /\ loaded \in [manifest : Baselines \cup {None}, candidate : Candidates \cup {None},
                 repair : Repairs \cup {None}, review : Reviews \cup {None}]
  /\ hashed \in [repair : Repairs \cup {None, Malformed},
                 review : Reviews \cup {None, Malformed}]
  /\ result \in {"none", "error", "refused", "published", "already"}
  /\ faults \in Nat /\ writes \in Nat /\ moves \in Nat /\ blind \in BOOLEAN
  /\ ever \in [Runs -> SUBSET Documents]
  /\ proposed \subseteq Heads

Contents(d) == {d[k] : k \in Kinds} \ {None, Malformed}

Init ==
  /\ files \in [Runs -> Bundles]
  /\ prs \in [PRs -> {p \in PullRequest : p.open /\ p.commits = {p.head}}]
  /\ checks = {}
  /\ pc = "idle" /\ args = None /\ loaded = NoDocument
  /\ hashed = [repair |-> None, review |-> None] /\ result = "none"
  /\ faults = 0 /\ writes = 0 /\ moves = 0 /\ blind = FALSE
  /\ ever = [r \in Runs |-> Contents(files[r])]
  /\ proposed = {prs[p].head : p \in PRs}

-----------------------------------------------------------------------------
(* The command.                                                             *)

End(outcome) ==
  /\ pc' = "idle"
  /\ result' = outcome /\ blind' = FALSE
  /\ args' = None /\ loaded' = NoDocument /\ hashed' = [repair |-> None, review |-> None]

Goto(label) == pc' = label /\ UNCHANGED <<args, loaded, hashed, result, blind>>

Fault == faults < MaxFaults /\ faults' = faults + 1

\* The pins are hashes recorded when the Operator accepted the artifacts.
Begin ==
  /\ pc = "idle"
  /\ \E r \in Runs, repo \in Repos, h \in Heads :
     \E repairPin \in {None, files[r].repair} \ {Malformed},
        reviewPin \in {None, files[r].review} \ {Malformed} :
       args' = [run |-> r, repo |-> repo, head |-> h,
                repairPin |-> repairPin, reviewPin |-> reviewPin]
  /\ pc' = "manifest" /\ loaded' = NoDocument /\ faults' = 0 /\ result' = "none"
  /\ UNCHANGED <<hashed, blind, checks, world>>

\* The kind of file that is read next.
After(kind) ==
  CASE kind = "manifest"  -> "candidate"
    [] kind = "candidate" -> "repair"
    [] kind = "repair"    -> "review"
    [] OTHER              -> "chain"

\* resolve_run_artifacts reads the four files in turn and checks their schemas.
Load(kind) ==
  /\ pc = kind
  /\ LET document == files[args.run][kind]
     IN  IF document \in {None, Malformed} THEN End("refused")
         ELSE /\ loaded' = [loaded EXCEPT ![kind] = document]
              /\ pc' = After(kind)
              /\ UNCHANGED <<args, hashed, result, blind>>
  /\ UNCHANGED <<faults, checks, world>>

\* Faulty variant: the result the review speaks of is not compared.
ChainWithoutResult(candidate, repair, review, run, repo, head) ==
  /\ review.run = run /\ review.repo = repo /\ review.head = head
  /\ review.verdict = "approved" /\ ~review.blockers
  /\ repair.run = run /\ candidate.run = run
  /\ repair.candidate = candidate.id /\ review.candidate = candidate.id
  /\ repair.head = head /\ repair.repo = repo /\ candidate.baseline = repair.baseline

\* The comparisons of validate_review_chain.
Chain(candidate, repair, review, run, repo, head) ==
  /\ review.run = run /\ review.repo = repo /\ review.head = head
  /\ review.verdict = "approved" /\ ~review.blockers
  /\ repair.run = run /\ candidate.run = run
  /\ repair.candidate = candidate.id /\ review.candidate = candidate.id
  /\ review.result = repair.result
  /\ repair.head = head /\ repair.repo = repo /\ candidate.baseline = repair.baseline

\* Faulty variant: these comparisons without that of the result.
ValidateWithoutResult ==
  /\ pc = "chain"
  /\ IF ChainWithoutResult(loaded.candidate, loaded.repair, loaded.review,
                           args.run, args.repo, args.head)
     THEN Goto("hashRepair") ELSE End("refused")
  /\ UNCHANGED <<faults, checks, world>>

ValidateChain ==
  /\ pc = "chain"
  /\ IF Chain(loaded.candidate, loaded.repair, loaded.review, args.run, args.repo, args.head)
     THEN Goto("hashRepair") ELSE End("refused")
  /\ UNCHANGED <<faults, checks, world>>

\* The hashes are taken of the files as they are now.  read_bytes fails on one
\* that is gone; the bytes of one that has become malformed are hashed.
HashRepair ==
  /\ pc = "hashRepair"
  /\ LET document == files[args.run].repair
     IN  IF document = None THEN End("error")
         ELSE /\ hashed' = [hashed EXCEPT !.repair = document]
              /\ pc' = "hashReview" /\ UNCHANGED <<args, loaded, result, blind>>
  /\ UNCHANGED <<faults, checks, world>>

\* Faulty variant: a file that is gone has a hash like any other.
HashReviewUnread ==
  /\ pc = "hashReview"
  /\ hashed' = [hashed EXCEPT !.review = files[args.run].review]
  /\ pc' = "listing"
  /\ UNCHANGED <<args, loaded, result, blind, faults, checks, world>>

\* Both pins are compared once both hashes are there.
HashReview ==
  /\ pc = "hashReview"
  /\ LET document == files[args.run].review
     IN  IF document = None THEN End("error")
         ELSE IF args.repairPin \in {None, hashed.repair} /\ args.reviewPin \in {None, document}
         THEN /\ hashed' = [hashed EXCEPT !.review = document]
              /\ pc' = "listing" /\ UNCHANGED <<args, loaded, result, blind>>
         ELSE End("refused")
  /\ UNCHANGED <<faults, checks, world>>

\* Exactly one review file, malformed or not, and it is the one given.
ListReviews ==
  /\ pc = "listing"
  /\ IF files[args.run].later \/ files[args.run].review = None
     THEN End("refused") ELSE Goto("token")
  /\ UNCHANGED <<faults, checks, world>>

\* load_config and installation_token.
Token ==
  /\ pc = "token"
  /\ \/ Goto("head") /\ UNCHANGED faults
     \/ Fault /\ End("error")
  /\ UNCHANGED <<checks, world>>

\* The pull requests GitHub lists for the commit.
Containing(h) == {p \in PRs : args.repo = PRRepo /\ h \in prs[p].commits}

\* Faulty variant: a pull request that contains the commit will do.
AnyPullRequest ==
  /\ pc = "head"
  /\ \/ /\ IF \E p \in Containing(args.head) : prs[p].open
           THEN Goto("lookup") ELSE End("refused")
        /\ UNCHANGED faults
     \/ Fault /\ End("error")
  /\ UNCHANGED <<checks, world>>

\* verify_remote_pr_head: the first open one in GitHub's order decides.
VerifyHead ==
  /\ pc = "head"
  /\ \/ /\ \E p \in Containing(args.head) :
             prs[p].open /\ IF prs[p].head = args.head THEN Goto("lookup") ELSE End("refused")
        /\ UNCHANGED faults
     \/ /\ \A p \in Containing(args.head) : ~prs[p].open
        /\ End("refused")
        /\ UNCHANGED faults
     \/ Fault /\ End("error")
  /\ UNCHANGED <<checks, world>>

\* Faulty variant: a check with other hashes is not taken for the same.
MatchesHashes(c) ==
  /\ c.repo = args.repo /\ c.head = args.head /\ c.run = args.run
  /\ c.repair = hashed.repair /\ c.review = hashed.review

\* existing_successful_check: "run_id: <id>" occurs in the summary.
Matches(c) == c.repo = args.repo /\ c.head = args.head /\ <<args.run, c.run>> \in Prefix

\* A failed lookup is taken for an empty one.
Lookup ==
  /\ pc = "lookup"
  /\ \/ /\ IF \E c \in checks : Matches(c) THEN End("already") ELSE Goto("post")
        /\ UNCHANGED faults
     \/ /\ Fault
        /\ pc' = "post" /\ blind' = TRUE /\ UNCHANGED <<args, loaded, hashed, result>>
  /\ UNCHANGED <<checks, world>>

\* The check the command publishes; its baseline is the manifest's.
Attestation(n) ==
  [n |-> n, repo |-> args.repo, head |-> args.head, run |-> args.run,
   baseline |-> loaded.manifest, repair |-> hashed.repair, review |-> hashed.review,
   blind |-> blind]

\* The POST succeeds, or reports an error before or after it took effect.
Publish ==
  /\ pc = "post"
  /\ \E n \in 1..MaxChecks :
       /\ \A c \in checks : c.n < n
       /\ \/ checks' = checks \cup {Attestation(n)} /\ End("published") /\ UNCHANGED faults
          \/ checks' \in {checks, checks \cup {Attestation(n)}} /\ Fault /\ End("error")
  /\ UNCHANGED world

Crash ==
  /\ pc # "idle"
  /\ End("none")
  /\ UNCHANGED <<faults, checks, world>>

-----------------------------------------------------------------------------
(* Workers and authors.                                                     *)

\* A worker or the Operator rewrites, adds or removes a file of a run.
Rewrite(r) ==
  /\ writes < MaxWrites
  /\ \E d \in Bundles, k \in Kinds \cup {"later"} :
       /\ d[k] # files[r][k]
       /\ files' = [files EXCEPT ![r][k] = d[k]]
  /\ ever' = [ever EXCEPT ![r] = @ \cup Contents(files'[r])]
  /\ writes' = writes + 1
  /\ UNCHANGED <<command, checks, prs, moves, proposed>>

\* A push puts one commit or several on top; a forced one replaces them.
Push(p) ==
  /\ moves < MaxMoves /\ prs[p].open
  /\ \E new \in SUBSET Heads, h \in Heads, kept \in {{}, prs[p].commits} :
       /\ h \in new
       /\ prs' = [prs EXCEPT ![p] = [head |-> h, commits |-> kept \cup new, open |-> TRUE]]
       /\ proposed' = proposed \cup {h}
  /\ moves' = moves + 1
  /\ UNCHANGED <<command, checks, files, writes, ever>>

ClosePR(p) ==
  /\ moves < MaxMoves /\ prs[p].open
  /\ prs' = [prs EXCEPT ![p] = [@ EXCEPT !.open = FALSE]]
  /\ moves' = moves + 1
  /\ UNCHANGED <<command, checks, files, writes, ever, proposed>>

-----------------------------------------------------------------------------
Step == \/ \E kind \in Kinds : Load(kind)
        \/ ValidateChain \/ HashRepair \/ HashReview \/ ListReviews \/ Token
        \/ VerifyHead \/ Lookup \/ Publish

Others == \/ \E r \in Runs : Rewrite(r)
          \/ \E p \in PRs : Push(p) \/ ClosePR(p)

Next == Begin \/ Step \/ Crash \/ Others

Spec == Init /\ [][Next]_vars

-----------------------------------------------------------------------------
(* Properties.                                                              *)

\* A success check is earned: documents that the run's directory really held
\* form an approved chain without blockers for exactly that run, repository
\* and head, although each of them may have been rewritten meanwhile.
SuccessIsEarned ==
  \A c \in checks :
    \E candidate \in ever[c.run] \cap Candidates, repair \in ever[c.run] \cap Repairs,
       review \in ever[c.run] \cap Reviews :
         Chain(candidate, repair, review, c.run, c.repo, c.head)

\* A commit that was never the head of an open pull request is not attested:
\* commits pushed below a head get no check of their own.
AttestedHeadWasProposed == \A c \in checks : c.repo = PRRepo /\ c.head \in proposed

\* A second success check for the same run, repository and head is only
\* published by a command whose own lookup failed: otherwise a command repeated
\* after a crash, a lost answer or a rewrite of the artifacts finds what its
\* predecessor published.
DuplicateNeedsFailedLookup ==
  \A c, d \in checks :
    /\ c.run = d.run /\ c.repo = d.repo /\ c.head = d.head
    /\ c # d /\ c.n <= d.n
    => d.blind

-----------------------------------------------------------------------------
(* The inductive invariants behind these.                                   *)

AfterChain == {"hashRepair", "hashReview", "listing", "token", "head", "lookup", "post"}

AfterReview == {"listing", "token", "head", "lookup", "post"}

\* The documents parsed by the time the command is at a label.
Parsed ==
  CASE pc \in {"idle", "manifest"} -> {}
    [] pc = "candidate" -> {"manifest"}
    [] pc = "repair" -> {"manifest", "candidate"}
    [] pc = "review" -> {"manifest", "candidate", "repair"}
    [] OTHER -> Kinds

\* What the command has parsed was in the directory, and once it is past the
\* comparisons it is a chain.
LoadedInv ==
  /\ pc # "idle" => args # None
  /\ \A k \in Parsed : loaded[k] # None /\ loaded[k] \in ever[args.run]
  /\ pc \in AfterChain =>
       Chain(loaded.candidate, loaded.repair, loaded.review, args.run, args.repo, args.head)
  /\ pc \in AfterReview \cup {"hashReview"} => hashed.repair # None
  /\ pc \in AfterReview => hashed.review # None

HistoryInv == \A r \in Runs : Contents(files[r]) \subseteq ever[r]

ChainInv == TypeOK /\ LoadedInv /\ HistoryInv /\ SuccessIsEarned

\* Nothing of this run is on the head when a command that has seen the
\* published checks is about to publish.
FreshInv ==
  pc = "post" /\ ~blind =>
    ~\E c \in checks : c.run = args.run /\ c.repo = args.repo /\ c.head = args.head

-----------------------------------------------------------------------------
(* What the documentation says and the code does not do.                    *)

Succeeds == pc # "idle" /\ result' \in {"published", "already"}

\* "Return the previously published check for (run, repo, head)"
\* (review_check.py:259): a command that ends well, because it published or
\* because it found a check, leaves the check of its own run on its own head.
SuccessIsVisible ==
  [][Succeeds => \E c \in checks' :
       c.run = args.run /\ c.repo = args.repo /\ c.head = args.head]_vars
=============================================================================
