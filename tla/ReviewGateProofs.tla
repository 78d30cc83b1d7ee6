-------------------------- MODULE ReviewGateProofs --------------------------
(* Every success check is earned, and a second one needs a failed lookup.    *)
EXTENDS ReviewGate, TLAPS

\* A parsed document that is not None is of its kind, and was one of the
\* documents of its directory.
LEMMA KindTypes ==
  ASSUME TypeOK
  PROVE  /\ loaded.manifest # None => loaded.manifest \in Baselines
         /\ loaded.candidate # None => loaded.candidate \in Candidates
         /\ loaded.repair # None => loaded.repair \in Repairs
         /\ loaded.review # None => loaded.review \in Reviews
         /\ hashed.repair # None => hashed.repair \in Repairs \cup {Malformed}
         /\ hashed.review # None => hashed.review \in Reviews \cup {Malformed}
         /\ args # None => /\ args.run \in Runs /\ args.repo \in Repos /\ args.head \in Heads
BY DEF TypeOK, Args

\* Whatever ends the command leaves nothing of it behind.
LEMMA EndKeeps ==
  ASSUME ChainInv, NEW outcome \in {"none", "error", "refused", "published", "already"},
         End(outcome), faults' \in Nat, UNCHANGED world,
         checks' \subseteq Check, SuccessIsEarned'
  PROVE  ChainInv'
<1>1. TypeOK'
  <2>1. /\ pc' \in PCs /\ args' \in Args \cup {None}
        /\ result' \in {"none", "error", "refused", "published", "already"}
        /\ blind' \in BOOLEAN
    BY DEF End, PCs
  <2>2. /\ loaded' \in [manifest : Baselines \cup {None}, candidate : Candidates \cup {None},
                        repair : Repairs \cup {None}, review : Reviews \cup {None}]
        /\ hashed' \in [repair : Repairs \cup {None, Malformed},
                        review : Reviews \cup {None, Malformed}]
    BY DEF End, NoDocument, Kinds
  <2> QED
    BY <2>1, <2>2 DEF ChainInv, TypeOK, world
<1>2. LoadedInv'
  BY DEF End, LoadedInv, Parsed, AfterChain, AfterReview
<1>3. HistoryInv'
  BY DEF ChainInv, HistoryInv, world
<1> QED
  BY <1>1, <1>2, <1>3 DEF ChainInv

\* A step between the comparisons and the publication.
LEMMA GotoKeeps ==
  ASSUME ChainInv, pc' \in AfterReview, pc \in AfterReview, blind' \in BOOLEAN,
         faults' \in Nat, UNCHANGED <<args, loaded, hashed, result, world, checks>>
  PROVE  ChainInv'
<1>1. TypeOK'
  BY DEF ChainInv, TypeOK, world, AfterReview, PCs
<1>2. LoadedInv'
  BY DEF ChainInv, LoadedInv, world, AfterReview, AfterChain, Parsed, Kinds
<1> QED
  BY <1>1, <1>2 DEF ChainInv, HistoryInv, SuccessIsEarned, world

\* The file read by Load is a document of the run's directory.
LEMMA LoadKeeps ==
  ASSUME ChainInv, NEW kind \in Kinds, Load(kind)
  PROVE  ChainInv'
<1> USE DEF ChainInv
<1> DEFINE document == files[args.run][kind]
<1>0. /\ pc = kind /\ args # None /\ args \in Args /\ args.run \in Runs
      /\ files[args.run] \in Directory
  BY DEF Load, LoadedInv, TypeOK, Args, Kinds
<1>1. CASE document \in {None, Malformed}
  BY <1>1, EndKeeps DEF Load, TypeOK, SuccessIsEarned, world
<1>2. CASE document \notin {None, Malformed}
  <2>1. /\ loaded' = [loaded EXCEPT ![kind] = document] /\ pc' = After(kind)
        /\ UNCHANGED <<args, hashed, result, blind, faults, checks, world>>
    BY <1>2 DEF Load
  <2>2. document \in ever[args.run]
    BY <1>0, <1>2 DEF HistoryInv, Contents
  <2>3. TypeOK'
    <3>1. loaded' \in [manifest : Baselines \cup {None}, candidate : Candidates \cup {None},
                       repair : Repairs \cup {None}, review : Reviews \cup {None}]
      BY <1>0, <1>2, <2>1 DEF TypeOK, Directory, Kinds
    <3>2. pc' \in PCs
      BY <2>1 DEF After, PCs, Kinds
    <3> QED
      BY <2>1, <3>1, <3>2 DEF TypeOK, world
  <2>4. LoadedInv'
    <3>1. /\ Parsed' \subseteq Parsed \cup {kind}
          /\ pc' \in {"candidate", "repair", "review", "chain"}
      BY <1>0, <2>1 DEF Parsed, After, Kinds
    <3>2. \A k \in Kinds : loaded'[k] = IF k = kind THEN document ELSE loaded[k]
      BY <2>1 DEF TypeOK, Kinds
    <3>3. Parsed \subseteq Kinds
      BY DEF Parsed, Kinds
    <3>4. \A k \in Parsed' : loaded'[k] # None /\ loaded'[k] \in ever'[args'.run]
      BY <1>2, <2>1, <2>2, <3>1, <3>2, <3>3 DEF LoadedInv, world
    <3> QED
      BY <1>0, <2>1, <3>1, <3>4 DEF LoadedInv, AfterChain, AfterReview
  <2> QED
    BY <2>1, <2>3, <2>4 DEF HistoryInv, SuccessIsEarned, world
<1> QED
  BY <1>1, <1>2

\* What is published names the chain that was compared.
LEMMA PublishedIsEarned ==
  ASSUME ChainInv, pc = "post", NEW n \in Nat,
         checks' \in {checks, checks \cup {Attestation(n)}}, UNCHANGED world
  PROVE  checks' \subseteq Check /\ SuccessIsEarned'
<1> USE DEF ChainInv
<1>1. /\ args # None /\ args.run \in Runs /\ args.repo \in Repos /\ args.head \in Heads
      /\ loaded.candidate \in Candidates \cap ever[args.run]
      /\ loaded.repair \in Repairs \cap ever[args.run]
      /\ loaded.review \in Reviews \cap ever[args.run]
      /\ loaded.manifest \in Baselines
      /\ hashed.repair \in Repairs \cup {Malformed} /\ hashed.review \in Reviews \cup {Malformed}
      /\ blind \in BOOLEAN
      /\ Chain(loaded.candidate, loaded.repair, loaded.review, args.run, args.repo, args.head)
  <2>1. Parsed = Kinds /\ args # None
    BY DEF Parsed, LoadedInv
  <2>2. \A k \in Kinds : loaded[k] # None /\ loaded[k] \in ever[args.run]
    BY <2>1 DEF LoadedInv
  <2>3. hashed.repair # None /\ hashed.review # None
    BY DEF LoadedInv, AfterReview
  <2>4. Chain(loaded.candidate, loaded.repair, loaded.review, args.run, args.repo, args.head)
    BY DEF LoadedInv, AfterChain
  <2> QED
    BY <2>1, <2>2, <2>3, <2>4, KindTypes DEF Kinds, TypeOK
<1>2. Attestation(n) \in Check
  BY <1>1 DEF Attestation, Check
<1>3. \E candidate \in ever[args.run] \cap Candidates, repair \in ever[args.run] \cap Repairs,
         review \in ever[args.run] \cap Reviews :
           Chain(candidate, repair, review, args.run, args.repo, args.head)
  BY <1>1
<1>4. SuccessIsEarned'
  <2> SUFFICES ASSUME NEW c \in checks'
               PROVE  \E candidate \in ever[c.run] \cap Candidates,
                         repair \in ever[c.run] \cap Repairs,
                         review \in ever[c.run] \cap Reviews :
                           Chain(candidate, repair, review, c.run, c.repo, c.head)
    BY DEF SuccessIsEarned, world
  <2>1. CASE c \in checks
    BY <2>1 DEF SuccessIsEarned
  <2>2. CASE c = Attestation(n)
    <3>1. c.run = args.run /\ c.repo = args.repo /\ c.head = args.head
      BY <2>2 DEF Attestation
    <3> QED
      BY <1>3, <3>1
  <2> QED
    BY <2>1, <2>2
<1> QED
  BY <1>2, <1>4 DEF TypeOK

\* The invariant: types, what has been parsed and compared when, and that
\* every check was earned (resolve_run_artifacts to publish_success_check).
THEOREM ChainInvariant == Spec => []ChainInv
<1>1. Init => ChainInv
  <2> SUFFICES ASSUME Init PROVE ChainInv
    OBVIOUS
  <2>1. TypeOK
    <3>1. files \in [Runs -> Directory]
      BY BundlesAssumption DEF Init
    <3>2. \A r \in Runs : Contents(files[r]) \subseteq Documents
      BY <3>1 DEF Directory, Contents, Documents, Kinds
    <3>3. ever \in [Runs -> SUBSET Documents]
      BY <3>2 DEF Init
    <3>4. prs \in [PRs -> PullRequest] /\ proposed \subseteq Heads
      BY DEF Init, PullRequest
    <3>5. /\ loaded \in [manifest : Baselines \cup {None}, candidate : Candidates \cup {None},
                         repair : Repairs \cup {None}, review : Reviews \cup {None}]
          /\ hashed \in [repair : Repairs \cup {None, Malformed},
                         review : Reviews \cup {None, Malformed}]
      BY DEF Init, NoDocument, Kinds
    <3> QED
      BY <3>1, <3>3, <3>4, <3>5 DEF Init, TypeOK, PCs
  <2>2. LoadedInv /\ HistoryInv /\ SuccessIsEarned
    BY DEF Init, LoadedInv, HistoryInv, SuccessIsEarned, Parsed, AfterChain, AfterReview
  <2> QED
    BY <2>1, <2>2 DEF ChainInv
<1>2. ChainInv /\ [Next]_vars => ChainInv'
  <2> SUFFICES ASSUME ChainInv, [Next]_vars PROVE ChainInv'
    OBVIOUS
  <2> USE DEF ChainInv
  <2>0. CASE UNCHANGED vars
    <3> USE <2>0 DEF vars, command, world
    <3>1. TypeOK'
      BY DEF TypeOK
    <3>2. LoadedInv'
      BY DEF LoadedInv, Parsed
    <3> QED
      BY <3>1, <3>2 DEF HistoryInv, SuccessIsEarned
  <2>1. CASE Begin
    <3>1. args' \in Args
      BY <2>1 DEF Begin, Args, TypeOK, Directory
    <3>2. TypeOK'
      <4>1. loaded' \in [manifest : Baselines \cup {None}, candidate : Candidates \cup {None},
                         repair : Repairs \cup {None}, review : Reviews \cup {None}]
        BY <2>1 DEF Begin, NoDocument, Kinds
      <4> QED
        BY <2>1, <3>1, <4>1 DEF Begin, TypeOK, world, PCs, Kinds
    <3>3. LoadedInv'
      BY <2>1, <3>1, NoneAssumption DEF Begin, LoadedInv, Parsed, AfterChain, AfterReview
    <3> QED
      BY <2>1, <3>2, <3>3 DEF Begin, HistoryInv, SuccessIsEarned, world
  <2>2. ASSUME NEW kind \in Kinds, Load(kind) PROVE ChainInv'
    BY <2>2, LoadKeeps
  <2>3. CASE ValidateChain
    <3>1. CASE End("refused")
      BY <2>3, <3>1, EndKeeps DEF ValidateChain, TypeOK, SuccessIsEarned, world
    <3>2. CASE ~End("refused")
      <4>1. /\ pc = "chain" /\ Goto("hashRepair") /\ UNCHANGED <<faults, checks, world>>
            /\ Chain(loaded.candidate, loaded.repair, loaded.review,
                     args.run, args.repo, args.head)
        BY <2>3, <3>2 DEF ValidateChain
      <4>2. TypeOK'
        BY <4>1 DEF TypeOK, Goto, world, PCs
      <4>3. Parsed' = Parsed
        BY <4>1 DEF Goto, Parsed
      <4>4. LoadedInv'
        BY <4>1, <4>3 DEF LoadedInv, Goto, world, AfterReview, AfterChain
      <4> QED
        BY <4>1, <4>2, <4>4 DEF HistoryInv, SuccessIsEarned, Goto, world
    <3> QED
      BY <3>1, <3>2
  <2>4. CASE HashRepair
    <3>1. CASE End("error")
      BY <2>4, <3>1, EndKeeps DEF HashRepair, TypeOK, SuccessIsEarned, world
    <3>2. CASE ~End("error")
      <4>1. /\ pc = "hashRepair" /\ files[args.run].repair # None
            /\ hashed' = [hashed EXCEPT !.repair = files[args.run].repair]
            /\ pc' = "hashReview"
            /\ UNCHANGED <<args, loaded, result, blind, faults, checks, world>>
        BY <2>4, <3>2 DEF HashRepair
      <4>2. args.run \in Runs
        BY <4>1 DEF LoadedInv, TypeOK, Args
      <4>3. /\ hashed' \in [repair : Repairs \cup {None, Malformed},
                            review : Reviews \cup {None, Malformed}]
            /\ hashed'.repair # None
        BY <4>1, <4>2 DEF TypeOK, Directory
      <4>4. TypeOK'
        BY <4>1, <4>3 DEF TypeOK, world, PCs
      <4>5. Parsed' = Parsed
        BY <4>1 DEF Parsed
      <4>6. LoadedInv'
        BY <4>1, <4>3, <4>5 DEF LoadedInv, world, AfterReview, AfterChain
      <4> QED
        BY <4>1, <4>4, <4>6 DEF HistoryInv, SuccessIsEarned, world
    <3> QED
      BY <3>1, <3>2
  <2>5. CASE HashReview
    <3>1. CASE End("error") \/ End("refused")
      BY <2>5, <3>1, EndKeeps DEF HashReview, TypeOK, SuccessIsEarned, world
    <3>2. CASE ~(End("error") \/ End("refused"))
      <4>1. /\ pc = "hashReview" /\ files[args.run].review # None
            /\ hashed' = [hashed EXCEPT !.review = files[args.run].review]
            /\ pc' = "listing" /\ UNCHANGED <<args, loaded, result, blind, faults, checks, world>>
        BY <2>5, <3>2 DEF HashReview
      <4>2. args.run \in Runs
        BY <4>1 DEF LoadedInv, TypeOK, Args
      <4>3. /\ hashed' \in [repair : Repairs \cup {None, Malformed},
                            review : Reviews \cup {None, Malformed}]
            /\ hashed'.review # None /\ hashed'.repair = hashed.repair
        BY <4>1, <4>2 DEF TypeOK, Directory
      <4>4. TypeOK'
        BY <4>1, <4>3 DEF TypeOK, world, PCs
      <4>5. Parsed' = Parsed
        BY <4>1 DEF Parsed
      <4>6. LoadedInv'
        BY <4>1, <4>3, <4>5 DEF LoadedInv, world, AfterReview, AfterChain
      <4> QED
        BY <4>1, <4>4, <4>6 DEF HistoryInv, SuccessIsEarned, world
    <3> QED
      BY <3>1, <3>2
  <2>6. CASE ListReviews \/ Token \/ VerifyHead \/ Lookup
    <3> DEFINE GoesOn == /\ pc' \in AfterReview /\ blind' \in BOOLEAN
                         /\ UNCHANGED <<args, loaded, hashed, result>>
    <3>1. /\ pc \in AfterReview /\ faults' \in Nat /\ UNCHANGED <<world, checks>>
          /\ \/ GoesOn
             \/ \E outcome \in {"error", "refused", "already"} : End(outcome)
      <4>1. CASE ListReviews
        BY <4>1 DEF ListReviews, Goto, AfterReview, TypeOK
      <4>2. CASE Token
        BY <4>2 DEF Token, Fault, Goto, AfterReview, TypeOK
      <4>3. CASE VerifyHead
        BY <4>3 DEF VerifyHead, Fault, Goto, AfterReview, TypeOK
      <4>4. CASE Lookup
        <5>1. \/ End("already") \/ Goto("post")
              \/ /\ pc' = "post" /\ blind' = TRUE
                 /\ UNCHANGED <<args, loaded, hashed, result>>
          BY <4>4 DEF Lookup
        <5>2. faults' \in Nat
          BY <4>4 DEF Lookup, Fault, TypeOK
        <5>3. blind' \in BOOLEAN
          BY <5>1 DEF End, Goto, TypeOK
        <5>4. pc \in AfterReview /\ "post" \in AfterReview /\ UNCHANGED <<world, checks>>
          BY <4>4 DEF Lookup, AfterReview
        <5> QED
          BY <5>1, <5>2, <5>3, <5>4 DEF Goto
      <4> QED
        BY <2>6, <4>1, <4>2, <4>3, <4>4
    <3>2. CASE GoesOn
      BY <3>1, <3>2, GotoKeeps
    <3>3. CASE \E outcome \in {"error", "refused", "already"} : End(outcome)
      BY <3>1, <3>3, EndKeeps DEF TypeOK, SuccessIsEarned, world
    <3> QED
      BY <3>1, <3>2, <3>3
  <2>7. CASE Publish
    <3>1. PICK n \in 1..MaxChecks :
            /\ pc = "post" /\ checks' \in {checks, checks \cup {Attestation(n)}}
            /\ End("published") \/ End("error")
            /\ faults' \in Nat /\ UNCHANGED world
      BY <2>7 DEF Publish, Fault, TypeOK
    <3>2. checks' \subseteq Check /\ SuccessIsEarned'
      BY <3>1, PublishedIsEarned, BoundsAssumption
    <3> QED
      BY <3>1, <3>2, EndKeeps
  <2>8. CASE Crash
    BY <2>8, EndKeeps DEF Crash, TypeOK, SuccessIsEarned, world
  <2>9. ASSUME NEW r \in Runs, Rewrite(r) PROVE ChainInv'
    <3>1. PICK d \in Bundles, k \in Kinds \cup {"later"} :
            files' = [files EXCEPT ![r][k] = d[k]]
      BY <2>9 DEF Rewrite
    <3>2. files' \in [Runs -> Directory]
      BY <3>1, BundlesAssumption DEF TypeOK, Directory, Kinds
    <3>3. Contents(files'[r]) \subseteq Documents
      BY <3>2 DEF Directory, Contents, Documents, Kinds
    <3>4. /\ ever' = [ever EXCEPT ![r] = @ \cup Contents(files'[r])]
          /\ writes' \in Nat /\ UNCHANGED <<command, checks, prs, moves, proposed>>
      BY <2>9 DEF Rewrite, TypeOK
    <3>5. TypeOK'
      BY <3>2, <3>3, <3>4 DEF TypeOK, command
    <3>6. \A s \in Runs : ever[s] \subseteq ever'[s]
      BY <3>4 DEF TypeOK
    <3>7. HistoryInv'
      <4>1. \A s \in Runs : s # r => files'[s] = files[s]
        BY <3>1 DEF TypeOK
      <4>2. \A s \in Runs : s # r => Contents(files'[s]) = Contents(files[s])
        BY <4>1 DEF Contents
      <4>3. Contents(files'[r]) \subseteq ever'[r]
        BY <3>4 DEF TypeOK
      <4> QED
        BY <3>6, <4>2, <4>3 DEF HistoryInv
    <3>8. LoadedInv'
      <4>1. Parsed' = Parsed
        BY <3>4 DEF Parsed, command
      <4>2. \A k2 \in Parsed : args.run \in Runs
        BY DEF LoadedInv, Parsed, TypeOK, Args
      <4> QED
        BY <3>4, <3>6, <4>1, <4>2 DEF LoadedInv, command
    <3>9. SuccessIsEarned'
      <4>1. \A c \in checks : c.run \in Runs
        BY DEF TypeOK, Check
      <4> SUFFICES ASSUME NEW c \in checks
                   PROVE  \E candidate \in ever'[c.run] \cap Candidates,
                             repair \in ever'[c.run] \cap Repairs,
                             review \in ever'[c.run] \cap Reviews :
                               Chain(candidate, repair, review, c.run, c.repo, c.head)
        BY <3>4 DEF SuccessIsEarned
      <4>2. ever[c.run] \subseteq ever'[c.run]
        BY <3>6, <4>1
      <4> QED
        BY <4>2 DEF SuccessIsEarned
    <3> QED
      BY <3>5, <3>7, <3>8, <3>9
  <2>10. ASSUME NEW p \in PRs, Push(p) \/ ClosePR(p) PROVE ChainInv'
    <3>1. /\ prs' \in [PRs -> PullRequest] /\ proposed' \subseteq Heads /\ moves' \in Nat
          /\ UNCHANGED <<command, checks, files, writes, ever>>
      <4>1. CASE ClosePR(p)
        <5>1. /\ prs' = [prs EXCEPT ![p] = [@ EXCEPT !.open = FALSE]]
              /\ UNCHANGED <<command, checks, files, writes, ever, proposed>>
          BY <4>1 DEF ClosePR
        <5>2. moves' \in Nat
          BY <4>1 DEF ClosePR, TypeOK
        <5>3. prs[p] \in PullRequest /\ prs \in [PRs -> PullRequest] /\ proposed \subseteq Heads
          BY DEF TypeOK
        <5>4. [prs[p] EXCEPT !.open = FALSE] \in PullRequest
          BY <5>3 DEF PullRequest
        <5>5. prs' \in [PRs -> PullRequest]
          BY <5>1, <5>3, <5>4
        <5> QED
          BY <5>1, <5>2, <5>3, <5>5
      <4>2. CASE Push(p)
        <5>1. PICK new \in SUBSET Heads, h \in Heads, kept \in {{}, prs[p].commits} :
                /\ prs' = [prs EXCEPT ![p] = [head |-> h, commits |-> kept \cup new,
                                             open |-> TRUE]]
                /\ proposed' = proposed \cup {h}
          BY <4>2 DEF Push
        <5>2. prs' \in [PRs -> PullRequest]
          BY <5>1 DEF TypeOK, PullRequest
        <5>3. moves' \in Nat /\ UNCHANGED <<command, checks, files, writes, ever>>
          BY <4>2 DEF Push, TypeOK
        <5> QED
          BY <5>1, <5>2, <5>3 DEF TypeOK
      <4> QED
        BY <2>10, <4>1, <4>2
    <3>2. TypeOK'
      BY <3>1 DEF TypeOK, command
    <3>3. LoadedInv'
      BY <3>1 DEF LoadedInv, Parsed, command
    <3> QED
      BY <3>1, <3>2, <3>3 DEF HistoryInv, SuccessIsEarned
  <2> QED
    BY <2>0, <2>1, <2>2, <2>3, <2>4, <2>5, <2>6, <2>7, <2>8, <2>9, <2>10
    DEF Next, Step, Others
<1> QED
  BY <1>1, <1>2, PTL DEF Spec

\* The state is well-typed: every published check names a run, a repository, a
\* head, a baseline and the two documents it was hashed from, and only those
\* may have been malformed by then.
THEOREM TypeCorrect == Spec => []TypeOK
<1>1. ChainInv => TypeOK
  BY DEF ChainInv
<1> QED
  BY <1>1, ChainInvariant, PTL

\* Every success check stands for documents that were in its run's directory
\* and form an approved chain for its run, repository and head.
THEOREM SuccessEarned == Spec => []SuccessIsEarned
<1>1. ChainInv => SuccessIsEarned
  BY DEF ChainInv
<1> QED
  BY <1>1, ChainInvariant, PTL

-----------------------------------------------------------------------------
(* The attested head.                                                       *)

\* The head of an open pull request has been proposed, and the command that
\* verified the head speaks of such a one, wherever the pull request is now.
ProposedInv ==
  /\ \A p \in PRs : prs[p].open => prs[p].head \in proposed
  /\ pc \in {"lookup", "post"} => args.repo = PRRepo /\ args.head \in proposed
  /\ AttestedHeadWasProposed

\* A step that leaves the pull requests alone and does not verify a head.
LEMMA ProposedStays ==
  ASSUME ProposedInv, UNCHANGED <<prs, proposed, checks>>,
         \/ pc' \notin {"lookup", "post"}
         \/ pc \in {"lookup", "post"} /\ UNCHANGED args
  PROVE  ProposedInv'
BY DEF ProposedInv, AttestedHeadWasProposed

\* A commit that was never the head of an open pull request is not attested,
\* whatever is pushed or closed between the calls (verify_remote_pr_head).
THEOREM HeadProposed == Spec => []AttestedHeadWasProposed
<1>1. Init => ProposedInv
  BY DEF Init, ProposedInv, AttestedHeadWasProposed
<1>2. ProposedInv /\ ChainInv /\ [Next]_vars => ProposedInv'
  <2> SUFFICES ASSUME ProposedInv, ChainInv, [Next]_vars PROVE ProposedInv'
    OBVIOUS
  <2>1. CASE UNCHANGED vars \/ \E r \in Runs : Rewrite(r)
    BY <2>1, ProposedStays DEF vars, command, world, Rewrite
  <2>2. CASE Begin \/ (\E kind \in Kinds : Load(kind)) \/ Crash
    BY <2>2, ProposedStays DEF Begin, Load, After, Crash, End, Kinds, world
  <2>3. CASE ValidateChain \/ HashRepair \/ HashReview \/ ListReviews \/ Token
    BY <2>3, ProposedStays
    DEF ValidateChain, HashRepair, HashReview, ListReviews, Token, Goto, End, world
  <2>4. CASE VerifyHead
    <3>1. CASE pc' = "lookup"
      <4>1. PICK p \in Containing(args.head) : prs[p].open /\ prs[p].head = args.head
        BY <2>4, <3>1 DEF VerifyHead, Goto, End
      <4>2. args.repo = PRRepo /\ args.head \in proposed
        BY <4>1 DEF Containing, ProposedInv
      <4>3. UNCHANGED <<args, prs, proposed, checks>>
        BY <2>4, <3>1 DEF VerifyHead, Goto, End, world
      <4> QED
        BY <4>2, <4>3 DEF ProposedInv, AttestedHeadWasProposed
    <3>2. CASE pc' # "lookup"
      BY <2>4, <3>2, ProposedStays DEF VerifyHead, Goto, End, world
    <3> QED
      BY <3>1, <3>2
  <2>5. CASE Lookup
    BY <2>5, ProposedStays DEF Lookup, Goto, End, world
  <2>6. CASE Publish
    <3>1. PICK n \in 1..MaxChecks :
            /\ pc = "post" /\ pc' = "idle" /\ UNCHANGED <<prs, proposed>>
            /\ checks' \in {checks, checks \cup {Attestation(n)}}
      BY <2>6 DEF Publish, End, world
    <3>2. Attestation(n).repo = PRRepo /\ Attestation(n).head \in proposed
      BY <3>1 DEF Attestation, ProposedInv
    <3> QED
      BY <3>1, <3>2 DEF ProposedInv, AttestedHeadWasProposed
  <2>7. ASSUME NEW p \in PRs, Push(p) PROVE ProposedInv'
    <3>1. PICK new \in SUBSET Heads, h \in Heads, kept \in {{}, prs[p].commits} :
            /\ prs' = [prs EXCEPT ![p] = [head |-> h, commits |-> kept \cup new, open |-> TRUE]]
            /\ proposed' = proposed \cup {h}
      BY <2>7 DEF Push
    <3>2. \A q \in PRs : prs'[q].open => prs'[q].head \in proposed'
      BY <3>1 DEF ProposedInv, ChainInv, TypeOK
    <3> QED
      BY <2>7, <3>1, <3>2 DEF Push, ProposedInv, AttestedHeadWasProposed, command
  <2>8. ASSUME NEW p \in PRs, ClosePR(p) PROVE ProposedInv'
    <3>1. \A q \in PRs : prs'[q].open => prs[q].open /\ prs'[q].head = prs[q].head
      BY <2>8 DEF ClosePR, ChainInv, TypeOK, PullRequest
    <3> QED
      BY <2>8, <3>1 DEF ClosePR, ProposedInv, AttestedHeadWasProposed, command
  <2> QED
    BY <2>1, <2>2, <2>3, <2>4, <2>5, <2>6, <2>7, <2>8 DEF Next, Step, Others
<1>3. ProposedInv => AttestedHeadWasProposed
  BY DEF ProposedInv
<1> QED
  BY <1>1, <1>2, <1>3, ChainInvariant, PTL DEF Spec

-----------------------------------------------------------------------------
(* Repeated commands.                                                       *)

\* A second check for one run, repository and head comes from a command whose
\* lookup failed, whatever commands crashed, lost their answer or found other
\* artifacts, even for run ids that begin one another
\* (existing_successful_check).
THEOREM OnceInvariant == Spec => []DuplicateNeedsFailedLookup
<1> DEFINE Inv == FreshInv /\ DuplicateNeedsFailedLookup
<1>1. Init => Inv
  BY DEF Init, FreshInv, DuplicateNeedsFailedLookup
<1>2. Inv /\ ChainInv /\ [Next]_vars => Inv'
  <2> SUFFICES ASSUME Inv, ChainInv, [Next]_vars PROVE Inv'
    OBVIOUS
  <2>1. ASSUME UNCHANGED checks, pc' # "post" PROVE Inv'
    BY <2>1 DEF FreshInv, DuplicateNeedsFailedLookup
  <2>2. ASSUME UNCHANGED <<checks, command>> PROVE Inv'
    BY <2>2 DEF FreshInv, DuplicateNeedsFailedLookup, command
  <2>3. CASE Lookup
    <3>1. CASE End("already")
      BY <2>1, <2>3, <3>1 DEF Lookup, End
    <3>2. CASE ~End("already") /\ blind' # TRUE
      <4>1. /\ \A c \in checks : ~Matches(c)
            /\ pc = "lookup" /\ Goto("post") /\ UNCHANGED checks
        BY <2>3, <3>2 DEF Lookup
      <4>2. args.run \in Runs
        BY <4>1 DEF ChainInv, LoadedInv, TypeOK, Args
      <4> QED
        BY <4>1, <4>2, PrefixAssumption
        DEF Matches, Goto, FreshInv, DuplicateNeedsFailedLookup
    <3>3. CASE blind' = TRUE
      BY <2>3, <3>3 DEF Lookup, FreshInv, DuplicateNeedsFailedLookup
    <3> QED
      BY <3>1, <3>2, <3>3
  <2>4. CASE Publish
    <3>1. PICK n \in 1..MaxChecks :
            /\ pc = "post" /\ pc' = "idle" /\ \A c \in checks : c.n < n
            /\ checks' \in {checks, checks \cup {Attestation(n)}}
      BY <2>4 DEF Publish, End
    <3>2. \A c \in checks : c.n \in Nat /\ ~(n <= c.n)
      BY <3>1, BoundsAssumption DEF ChainInv, TypeOK, Check
    <3>3. ~blind => \A c \in checks :
            ~(c.run = args.run /\ c.repo = args.repo /\ c.head = args.head)
      BY <3>1 DEF FreshInv
    <3>4. /\ Attestation(n).run = args.run /\ Attestation(n).repo = args.repo
          /\ Attestation(n).head = args.head /\ Attestation(n).n = n
          /\ Attestation(n).blind = blind /\ blind \in BOOLEAN
      BY DEF Attestation, ChainInv, TypeOK
    <3>5. ASSUME NEW c \in checks', NEW d \in checks',
                 c.run = d.run, c.repo = d.repo, c.head = d.head, c # d, c.n <= d.n
          PROVE  d.blind
      <4>1. CASE d \in checks
        <5>1. c \in checks
          BY <3>1, <3>2, <3>4, <3>5, <4>1
        <5> QED
          BY <3>5, <4>1, <5>1 DEF DuplicateNeedsFailedLookup
      <4>2. CASE d = Attestation(n) /\ c \in checks
        BY <3>3, <3>4, <3>5, <4>2
      <4> QED
        BY <3>1, <3>5, <4>1, <4>2
    <3> QED
      BY <3>1, <3>5 DEF FreshInv, DuplicateNeedsFailedLookup
  <2>5. CASE Begin \/ (\E kind \in Kinds : Load(kind)) \/ Crash \/ Others
    BY <2>1, <2>2, <2>5
    DEF Begin, Load, After, Crash, End, Others, Rewrite, Push, ClosePR, Kinds
  <2>6. CASE ValidateChain \/ HashRepair \/ HashReview \/ ListReviews \/ Token \/ VerifyHead
    BY <2>1, <2>6
    DEF ValidateChain, HashRepair, HashReview, ListReviews, Token, VerifyHead, Goto, End
  <2>7. CASE UNCHANGED vars
    BY <2>2, <2>7 DEF vars
  <2> QED
    BY <2>3, <2>4, <2>5, <2>6, <2>7 DEF Next, Step
<1>3. Inv => DuplicateNeedsFailedLookup
  OBVIOUS
<1> QED
  BY <1>1, <1>2, <1>3, ChainInvariant, PTL DEF Spec
=============================================================================
