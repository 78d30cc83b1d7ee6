-------------------------- MODULE GatePolicyProofs --------------------------
(***************************************************************************)
(* Proofs about GatePolicy for any repositories, protections and bounds:   *)
(* type correctness, the write-ahead journal, what the reported outcomes    *)
(* say, the recoverability of changed repositories and the completeness of *)
(* a rollback that meets no failed call.                                   *)
(***************************************************************************)
EXTENDS GatePolicy, TLAPS

\* The part of the type invariant that the running command owns.
CommandType ==
  /\ mode \in {"idle", "apply", "dryrun", "rollback"}
  /\ pc \in PCs
  /\ cur \in 0..MaxApplies
  /\ todo \subseteq Repos
  /\ repo \in Repos \cup {None}
  /\ seen \in Gate \cup {None}
  /\ report \in [Repos -> Statuses]
  /\ faults \in Nat

-----------------------------------------------------------------------------
(* Facts about protections and snapshots.                                   *)

\* A protection is put together from its three parts.
LEMMA ProtectionParts ==
  ASSUME NEW p \in Protection
  PROVE  /\ p.classic \in Classic \cup {None}
         /\ p.other \in BOOLEAN
         /\ p.gate \in Gate \cup {None}
         /\ \A c \in Classic \cup {None} : [p EXCEPT !.classic = c] \in Protection
         /\ \A g \in Gate \cup {None} : [p EXCEPT !.gate = g] \in Protection
         /\ \A c \in Classic \cup {None}, g \in Gate \cup {None} :
              [p EXCEPT !.classic = c, !.gate = g] \in Protection
  BY DEF Protection

\* What a snapshot records is a protection; a snapshot whose listing
\* succeeded is the protection itself.
LEMMA ViewType ==
  ASSUME NEW p \in Protection, NEW listed \in BOOLEAN
  PROVE  /\ View(p, listed) \in Protection
         /\ listed => View(p, listed) = p
  BY DEF View, Protection

\* The classic payloads of apply and of rollback are classic protections.
LEMMA PayloadType ==
  ASSUME NEW c \in Classic \cup {None}
  PROVE  /\ Renormalize(c) \in Classic \cup {None}
         /\ c # None => Configured(c) \in Classic
  BY DEF Renormalize, Configured, Classic

-----------------------------------------------------------------------------
(* Type correctness.                                                        *)

LEMMA InitTypeOK == Init => TypeOK
  BY ProfilesAssumption, ConstantsAssumption
  DEF Init, TypeOK, PCs, Statuses

\* The two ways a step of the current repository ends keep the command typed.
LEMMA ConcludeType ==
  ASSUME CommandType, NEW status \in Statuses, Conclude(status), faults' \in Nat
  PROVE  CommandType'
  BY DEF CommandType, Conclude, PCs

LEMMA GotoType ==
  ASSUME CommandType, NEW label \in PCs, Goto(label), faults' \in Nat
  PROVE  CommandType'
  BY DEF CommandType, Goto

\* A write of a protection to the current repository keeps GitHub typed.
LEMMA WriteType ==
  ASSUME TypeOK, repo \in Repos, NEW p \in Protection, NEW label \in PCs,
         NEW onError \in Statuses, Write(p, label, onError)
  PROVE  remote' \in [Repos -> Protection] /\ CommandType'
<1>0. CommandType
  BY DEF TypeOK, CommandType
<1>1. CASE /\ remote' = [remote EXCEPT ![repo] = p]
           /\ Goto(label)
           /\ UNCHANGED faults
  <2>1. CommandType'
    BY <1>0, <1>1, GotoType DEF TypeOK
  <2>. QED  BY <1>1, <2>1 DEF TypeOK
<1>2. CASE /\ remote' \in {remote, [remote EXCEPT ![repo] = p]}
           /\ Fault
           /\ Conclude(onError)
  <2>1. faults' \in Nat
    BY <1>2 DEF Fault, TypeOK
  <2>2. CommandType'
    BY <1>0, <1>2, <2>1, ConcludeType
  <2>. QED  BY <1>2, <2>2 DEF TypeOK
<1>. QED  BY <1>1, <1>2 DEF Write

\* Steps that leave the disk alone: the type invariant from its changed parts.
LEMMA TypeFromParts ==
  ASSUME TypeOK, UNCHANGED <<disk, history>>, CommandType',
         remote' \in [Repos -> Protection], ids' \in [Repos -> Nat], booted' \subseteq Repos
  PROVE  TypeOK'
  BY DEF TypeOK, CommandType, disk, history

-----------------------------------------------------------------------------
(* The parts of the journal invariant that a step carries over.             *)

LEMMA DiskKept ==
  ASSUME OnDisk, UNCHANGED disk
  PROVE  OnDisk'
  BY DEF OnDisk, disk

LEMMA InUseKept ==
  ASSUME InUse, UNCHANGED <<disk, mode, cur, todo>>
  PROVE  InUse'
  BY DEF InUse, disk, Planned

\* A step that reports the current repository keeps the control invariants.
LEMMA ConcludeKeeps ==
  ASSUME JournalInv, UNCHANGED disk, NEW status, Conclude(status)
  PROVE  AtEntry' /\ InUse' /\ OnDisk'
<1>1. AtEntry'
  BY DEF Conclude, AtEntry
<1>2. InUse' /\ OnDisk'
  BY DiskKept, InUseKept DEF JournalInv, Conclude
<1>. QED  BY <1>1, <1>2

\* A step that goes on with the current repository keeps them when the next
\* label's conditions hold already.
LEMMA GotoKeeps ==
  ASSUME JournalInv, UNCHANGED disk, pc # "next", UNCHANGED <<mode, cur, todo, repo>>,
         NEW label \in PCs, pc' = label,
         label \in MarkedSteps => Marked(cur, repo),
         label \in ApplySteps => mode = "apply",
         label = "putClassic" => ~HasRulesets(plan[repo])
  PROVE  AtEntry' /\ InUse' /\ OnDisk'
<1>1. AtEntry'
  BY DEF AtEntry, JournalInv, disk, Marked, Planned
<1>2. InUse' /\ OnDisk'
  BY DiskKept, InUseKept DEF JournalInv
<1>. QED  BY <1>1, <1>2

\* A write that ends at a marked step keeps them.
LEMMA WriteKeeps ==
  ASSUME JournalInv, UNCHANGED disk, pc \in MarkedSteps,
         NEW p, NEW label \in MarkedSteps \ {"putClassic"}, NEW onError,
         label \in ApplySteps => mode = "apply",
         Write(p, label, onError)
  PROVE  AtEntry' /\ InUse' /\ OnDisk'
<1>1. CASE Goto(label)
  <2>1. pc # "next" /\ Marked(cur, repo) /\ label \in PCs /\ label # "putClassic"
    BY DEF JournalInv, AtEntry, MarkedSteps, PCs
  <2>. QED  BY <1>1, <2>1, GotoKeeps DEF Goto
<1>2. CASE Conclude(onError)
  BY <1>2, ConcludeKeeps
<1>. QED  BY <1>1, <1>2 DEF Write

-----------------------------------------------------------------------------
(* Every action preserves the journal invariant.                            *)

\* Inside an entry there is a repository, and a backup entry to undo it with.
LEMMA EntryFacts ==
  ASSUME JournalInv, pc # "next"
  PROVE  /\ repo \in Repos /\ cur \in 1..runs /\ cur \in 1..MaxApplies /\ cur # 0
         /\ backups[cur][repo] \in Backup
         /\ Before \in Protection
         /\ remote[repo] \in Protection
         /\ mode = "apply" => plan[repo] \in Protection
<1>1. repo \in Repos /\ mode \in {"apply", "rollback"} /\ backups[cur][repo] # None
  BY DEF JournalInv, AtEntry
<1>2. cur \in 1..runs /\ runs \in 0..MaxApplies
  BY <1>1 DEF JournalInv, InUse, TypeOK
<1>3. cur \in 1..MaxApplies /\ cur # 0
  BY <1>2, ConstantsAssumption
<1>4. backups[cur][repo] \in Backup /\ remote[repo] \in Protection
  <2>1. backups[cur] \in [Repos -> Backup \cup {None}] /\ remote \in [Repos -> Protection]
    BY <1>3 DEF JournalInv, TypeOK
  <2>. QED  BY <1>1, <2>1
<1>5. Before \in Protection
  BY <1>4 DEF Before, Backup
<1>6. mode = "apply" => plan[repo] \in Protection
  BY <1>1 DEF JournalInv, AtEntry, Planned, TypeOK
<1>. QED  BY <1>1, <1>2, <1>3, <1>4, <1>5, <1>6

LEMMA InitJournalInv == Init => JournalInv
<1> SUFFICES ASSUME Init PROVE JournalInv
  OBVIOUS
<1>1. TypeOK
  BY InitTypeOK
<1>2. AtEntry /\ InUse
  BY DEF Init, AtEntry, InUse
<1>3. OnDisk
  BY DEF Init, OnDisk
<1>. QED  BY <1>1, <1>2, <1>3 DEF JournalInv

LEMMA BuildPlanKeeps == JournalInv /\ BuildPlan => JournalInv'
<1> SUFFICES ASSUME JournalInv, BuildPlan PROVE JournalInv'
  OBVIOUS
<1>1. PICK listed \in [Scope -> BOOLEAN] :
        plan' = [r \in Repos |-> IF r \in Scope THEN View(remote[r], listed[r]) ELSE None]
  BY DEF BuildPlan
<1>2. plan' \in [Repos -> Protection \cup {None}]
  <2>1. \A r \in Scope : View(remote[r], listed[r]) \in Protection
    BY ViewType, ConstantsAssumption DEF JournalInv, TypeOK
  <2>. QED  BY <1>1, <2>1
<1>3. UNCHANGED <<github, confirmed, backups, runs, command, initial, edits, applied, lost>>
      /\ mode = "idle" /\ holed' = holed \cup {r \in Scope : plan'[r] # remote[r]}
  BY DEF BuildPlan
<1>4. TypeOK'
  BY <1>2, <1>3, ConstantsAssumption DEF JournalInv, TypeOK, github, command
<1>5. AtEntry' /\ InUse'
  BY <1>3 DEF JournalInv, AtEntry, InUse, command
<1>6. OnDisk'
  BY <1>1, <1>3 DEF JournalInv, OnDisk
<1>. QED  BY <1>4, <1>5, <1>6 DEF JournalInv

LEMMA ConfirmKeeps == JournalInv /\ Confirm => JournalInv'
<1> SUFFICES ASSUME JournalInv, Confirm PROVE JournalInv'
  OBVIOUS
<1>1. UNCHANGED <<github, plan, backups, runs, command, history>> /\ mode = "idle"
      /\ confirmed' = plan
  BY DEF Confirm
<1>2. TypeOK'
  BY <1>1 DEF JournalInv, TypeOK, github, command, history
<1>3. AtEntry' /\ InUse'
  BY <1>1 DEF JournalInv, AtEntry, InUse, command
<1>4. OnDisk'
  BY <1>1 DEF JournalInv, OnDisk
<1>. QED  BY <1>2, <1>3, <1>4 DEF JournalInv

\* A new backup holds the snapshot of exactly the entries that are not skipped.
LEMMA CollectBackupFacts ==
  ASSUME TypeOK
  PROVE  /\ CollectBackup \in [Repos -> Backup \cup {None}]
         /\ \A r \in Repos : CollectBackup[r] # None =>
              plan[r] # None /\ r \in Admin /\ ~CollectBackup[r].started
         /\ \A r \in Planned : ~Skips(r, plan[r]) =>
              CollectBackup[r] # None /\ CollectBackup[r].before = plan[r]
<1>1. ASSUME NEW r \in Repos, plan[r] # None, ~Skips(r, plan[r])
      PROVE  /\ [before |-> plan[r], started |-> FALSE] \in Backup
             /\ r \in Admin
  BY <1>1 DEF TypeOK, Backup, Skips
<1>2. \A r \in Repos :
        CollectBackup[r] = IF plan[r] = None \/ Skips(r, plan[r]) THEN None
                           ELSE [before |-> plan[r], started |-> FALSE]
  BY DEF CollectBackup
<1>3. CollectBackup \in [Repos -> Backup \cup {None}]
  <2>1. \A r \in Repos : CollectBackup[r] \in Backup \cup {None}
    BY <1>1, <1>2
  <2>. QED  BY <2>1 DEF CollectBackup
<1>4. \A r \in Repos : CollectBackup[r] # None =>
        plan[r] # None /\ r \in Admin /\ ~CollectBackup[r].started
  <2> SUFFICES ASSUME NEW r \in Repos, CollectBackup[r] # None
               PROVE  plan[r] # None /\ r \in Admin /\ ~CollectBackup[r].started
    OBVIOUS
  <2>1. plan[r] # None /\ ~Skips(r, plan[r])
    BY <1>2
  <2>2. CollectBackup[r] = [before |-> plan[r], started |-> FALSE]
    BY <1>2, <2>1
  <2>. QED  BY <1>1, <2>1, <2>2
<1>5. \A r \in Planned : ~Skips(r, plan[r]) =>
        CollectBackup[r] # None /\ CollectBackup[r].before = plan[r]
  <2> SUFFICES ASSUME NEW r \in Planned, ~Skips(r, plan[r])
               PROVE  CollectBackup[r] # None /\ CollectBackup[r].before = plan[r]
    OBVIOUS
  <2>1. r \in Repos /\ plan[r] # None
    BY DEF Planned
  <2>2. CollectBackup[r] = [before |-> plan[r], started |-> FALSE]
    BY <1>2, <2>1
  <2>. QED  BY <1>1, <2>1, <2>2, NoneAssumption
<1>. QED  BY <1>3, <1>4, <1>5

LEMMA ApplyStartKeeps == JournalInv /\ ApplyStart => JournalInv'
<1> SUFFICES ASSUME JournalInv, ApplyStart PROVE JournalInv'
  OBVIOUS
<1>1. PICK k \in {runs, runs + 1} \cap 1..MaxApplies :
        /\ Begin("apply", k, Planned)
        /\ runs' = k
        /\ backups' = [backups EXCEPT ![k] = CollectBackup]
        /\ lost' = lost \cup {r \in Repos : Marked(k, r)}
  BY DEF ApplyStart
<1>2. /\ plan = confirmed /\ mode' = "apply" /\ cur' = k /\ runs' = k
      /\ todo' = Planned /\ pc' = "next" /\ faults' = 0
      /\ report' = [r \in Repos |-> "none"]
      /\ applied < MaxApplies /\ applied' = applied + 1
      /\ UNCHANGED <<github, plan, confirmed, initial, edits, holed, repo, seen>>
  BY <1>1 DEF ApplyStart, Begin
<1>3. TypeOK
  BY DEF JournalInv
<1>4. TypeOK'
  <2>1. backups' \in [1..MaxApplies -> [Repos -> Backup \cup {None}]]
    BY <1>1, <1>3, CollectBackupFacts DEF TypeOK
  <2>2. runs' \in 0..MaxApplies /\ cur' \in 0..MaxApplies /\ applied' \in 0..MaxApplies
    BY <1>2, <1>3, ConstantsAssumption DEF TypeOK
  <2>3. mode' \in {"idle", "apply", "dryrun", "rollback"} /\ pc' \in PCs
        /\ report' \in [Repos -> Statuses] /\ todo' \subseteq Repos /\ faults' \in Nat
    BY <1>2 DEF PCs, Statuses, Planned
  <2>4. lost' \subseteq Repos
    BY <1>1, <1>3 DEF TypeOK
  <2>. QED  BY <1>2, <1>3, <2>1, <2>2, <2>3, <2>4 DEF TypeOK, github
<1>5. backups'[k] = CollectBackup
  BY <1>1, <1>3 DEF TypeOK
<1>6. AtEntry'
  BY <1>2 DEF AtEntry
<1>7. InUse'
  BY <1>2, <1>3, <1>5, CollectBackupFacts DEF InUse, Planned
<1>8. OnDisk'
  <2> SUFFICES ASSUME NEW e \in 1..MaxApplies, NEW r \in Repos, backups'[e][r] # None
               PROVE  e \in 1..runs' /\ r \in Scope \cap Admin
    BY <1>2 DEF JournalInv, OnDisk
  <2>1. CASE e = k
    <3>1. plan[r] # None /\ r \in Admin
      BY <1>3, <1>5, <2>1, CollectBackupFacts
    <3>. QED  BY <1>2, <2>1, <3>1 DEF JournalInv, OnDisk
  <2>2. CASE e # k
    <3>1. backups[e][r] # None
      BY <1>1, <1>3, <2>2 DEF TypeOK
    <3>2. e \in 1..runs /\ r \in Scope \cap Admin
      BY <3>1 DEF JournalInv, OnDisk
    <3>. QED  BY <1>2, <1>3, <3>2 DEF TypeOK
  <2>. QED  BY <2>1, <2>2
<1>. QED  BY <1>4, <1>6, <1>7, <1>8 DEF JournalInv

LEMMA DryRunStartKeeps == JournalInv /\ DryRunStart => JournalInv'
<1> SUFFICES ASSUME JournalInv, DryRunStart PROVE JournalInv'
  OBVIOUS
<1>1. /\ mode' = "dryrun" /\ cur' = 0 /\ todo' = Planned /\ pc' = "next" /\ faults' = 0
      /\ report' = [r \in Repos |-> "none"]
      /\ UNCHANGED <<github, disk, history, repo, seen>>
  BY DEF DryRunStart, Begin
<1>2. CommandType'
  BY <1>1, ConstantsAssumption DEF JournalInv, TypeOK, CommandType, PCs, Statuses, Planned
<1>3. TypeOK'
  BY <1>1, <1>2, TypeFromParts DEF JournalInv, TypeOK, github
<1>4. AtEntry' /\ InUse' /\ OnDisk'
  BY <1>1, DiskKept DEF JournalInv, AtEntry, InUse, Planned, disk
<1>. QED  BY <1>3, <1>4 DEF JournalInv

LEMMA RollbackStartKeeps ==
  ASSUME JournalInv, NEW k \in 1..runs, RollbackStart(k)
  PROVE  JournalInv'
<1>1. /\ mode' = "rollback" /\ cur' = k /\ pc' = "next" /\ faults' = 0
      /\ todo' = {r \in Repos : backups[k][r] # None}
      /\ report' = [r \in Repos |-> "none"]
      /\ UNCHANGED <<github, disk, history, repo, seen>>
  BY DEF RollbackStart, Begin
<1>2. k \in 0..MaxApplies
  BY ConstantsAssumption DEF JournalInv, TypeOK
<1>3. CommandType'
  BY <1>1, <1>2 DEF JournalInv, TypeOK, CommandType, PCs, Statuses
<1>4. TypeOK'
  BY <1>1, <1>3, TypeFromParts DEF JournalInv, TypeOK, github
<1>5. AtEntry' /\ InUse' /\ OnDisk'
  BY <1>1, DiskKept DEF JournalInv, AtEntry, InUse, disk
<1>. QED  BY <1>4, <1>5 DEF JournalInv

LEMMA NextEntryKeeps ==
  ASSUME JournalInv, NEW r \in Repos, NextEntry(r)
  PROVE  JournalInv'
<1>1. /\ mode \in {"apply", "dryrun"} /\ pc = "next" /\ r \in todo /\ todo' = todo \ {r}
      /\ UNCHANGED <<github, disk, mode, cur, seen, initial, edits, applied, lost>>
  BY DEF NextEntry
<1>2. \/ pc' = "next" /\ UNCHANGED repo
      \/ pc' = "bootstrap" /\ repo' = r /\ mode = "apply" /\ ~Skips(r, plan[r])
  BY DEF NextEntry
<1>3. report' \in [Repos -> Statuses] /\ faults' \in Nat
  <2>1. report' = report \/ \E s \in Statuses : report' = [report EXCEPT ![r] = s]
    BY DEF NextEntry, Statuses
  <2>2. faults' = faults \/ faults' = faults + 1
    BY DEF NextEntry, Fault
  <2>3. report' \in [Repos -> Statuses]
    BY <2>1 DEF JournalInv, TypeOK
  <2>. QED  BY <2>2, <2>3 DEF JournalInv, TypeOK
<1>4. CommandType'
  BY <1>1, <1>2, <1>3 DEF JournalInv, TypeOK, CommandType, PCs
<1>5. TypeOK'
  <2>1. r \in Repos /\ holed' \subseteq Repos
    BY DEF NextEntry, JournalInv, TypeOK
  <2>. QED  BY <1>1, <1>4, <2>1 DEF JournalInv, TypeOK, CommandType, github, disk
<1>6. InUse' /\ OnDisk'
  BY <1>1, DiskKept DEF JournalInv, InUse, Planned, disk
<1>7. AtEntry'
  <2> SUFFICES ASSUME pc' # "next" PROVE AtEntry'
    BY DEF AtEntry
  <2>1. pc' = "bootstrap" /\ repo' = r /\ mode = "apply" /\ ~Skips(r, plan[r])
    BY <1>2
  <2>2. r \in Planned /\ backups[cur][r] # None
    BY <1>1, <2>1 DEF JournalInv, InUse
  <2>. QED  BY <1>1, <2>1, <2>2 DEF AtEntry, MarkedSteps, ApplySteps, disk, Planned
<1>. QED  BY <1>5, <1>6, <1>7 DEF JournalInv

LEMMA BootstrapKeeps == JournalInv /\ Bootstrap => JournalInv'
<1> SUFFICES ASSUME JournalInv, Bootstrap PROVE JournalInv'
  OBVIOUS
<1>1. pc = "bootstrap" /\ UNCHANGED <<remote, ids, disk, history>>
  BY DEF Bootstrap
<1>2. CommandType
  BY DEF JournalInv, TypeOK, CommandType
<1>3. repo \in Repos /\ mode = "apply"
  BY <1>1 DEF JournalInv, AtEntry, ApplySteps
<1>4. booted' \subseteq Repos
  BY <1>3 DEF Bootstrap, JournalInv, TypeOK
<1>5. CASE Goto("mark") /\ UNCHANGED faults
  <2>1. CommandType'
    BY <1>2, <1>5, GotoType DEF PCs, JournalInv, TypeOK
  <2>2. AtEntry' /\ InUse' /\ OnDisk'
    BY <1>1, <1>3, <1>5, GotoKeeps DEF Goto, PCs, MarkedSteps
  <2>. QED  BY <1>1, <1>4, <2>1, <2>2, TypeFromParts DEF JournalInv, TypeOK
<1>6. CASE Fault /\ Conclude("failed")
  <2>1. CommandType'
    BY <1>2, <1>6, ConcludeType DEF Fault, Statuses, JournalInv, TypeOK
  <2>2. AtEntry' /\ InUse' /\ OnDisk'
    BY <1>1, <1>6, ConcludeKeeps
  <2>. QED  BY <1>1, <1>4, <2>1, <2>2, TypeFromParts DEF JournalInv, TypeOK
<1>. QED  BY <1>5, <1>6 DEF Bootstrap

\* The three ways a marked entry goes on, each with the whole invariant.
LEMMA ConcludeStep ==
  ASSUME JournalInv, UNCHANGED <<github, disk, history>>, NEW status \in Statuses,
         Conclude(status), faults' \in Nat
  PROVE  JournalInv'
<1>1. CommandType'
  BY ConcludeType DEF JournalInv, TypeOK, CommandType
<1>2. TypeOK'
  BY <1>1, TypeFromParts DEF JournalInv, TypeOK, github
<1>. QED  BY <1>2, ConcludeKeeps DEF JournalInv

LEMMA ListStep ==
  ASSUME JournalInv, UNCHANGED <<github, disk, history, mode, cur, todo, repo, report, faults>>,
         pc # "next", NEW label \in PCs \ {"putClassic"}, pc' = label, seen' = remote[repo].gate,
         Marked(cur, repo), label \in ApplySteps => mode = "apply"
  PROVE  JournalInv'
<1>1. seen' \in Gate \cup {None}
  BY EntryFacts, ProtectionParts
<1>2. CommandType'
  BY <1>1 DEF JournalInv, TypeOK, CommandType
<1>3. TypeOK'
  BY <1>2, TypeFromParts DEF JournalInv, TypeOK, github
<1>. QED  BY <1>3, GotoKeeps DEF JournalInv

LEMMA WriteStep ==
  ASSUME JournalInv, UNCHANGED <<booted, disk, history>>, ids' \in [Repos -> Nat],
         pc \in MarkedSteps, NEW p \in Protection,
         NEW label \in MarkedSteps \ {"putClassic"}, NEW onError \in Statuses,
         label \in ApplySteps => mode = "apply",
         Write(p, label, onError)
  PROVE  JournalInv'
<1>1. label \in PCs /\ repo \in Repos /\ TypeOK
  BY EntryFacts DEF MarkedSteps, PCs, JournalInv
<1>2. remote' \in [Repos -> Protection] /\ CommandType'
  BY <1>1, WriteType
<1>3. TypeOK'
  BY <1>1, <1>2, TypeFromParts DEF TypeOK
<1>. QED  BY <1>3, WriteKeeps DEF JournalInv

LEMMA RejectedStep ==
  ASSUME JournalInv, UNCHANGED <<ids, booted, disk, history>>, NEW onError \in Statuses,
         Rejected(onError)
  PROVE  JournalInv'
  BY ConcludeStep DEF Rejected, github, JournalInv, TypeOK

LEMMA MarkKeeps == JournalInv /\ Mark => JournalInv'
<1> SUFFICES ASSUME JournalInv, Mark PROVE JournalInv'
  OBVIOUS
<1> DEFINE label == IF HasRulesets(plan[repo]) THEN "list" ELSE "putClassic"
<1>1. /\ pc = "mark" /\ Goto(label)
      /\ backups' = [backups EXCEPT ![cur][repo].started = TRUE]
      /\ UNCHANGED <<github, plan, confirmed, runs, faults, history>>
  BY DEF Mark
<1>2. TypeOK /\ OnDisk /\ InUse /\ mode = "apply" /\ repo \in Planned /\ ~Skips(repo, plan[repo])
  BY <1>1 DEF JournalInv, AtEntry, ApplySteps
<1>3. repo \in Repos /\ cur \in 1..MaxApplies /\ cur \in 1..runs /\ backups[cur][repo] \in Backup
  BY <1>1, EntryFacts
<1>4. /\ backups' \in [1..MaxApplies -> [Repos -> Backup \cup {None}]]
      /\ backups'[cur][repo] = [backups[cur][repo] EXCEPT !.started = TRUE]
      /\ \A k \in 1..MaxApplies, r \in Repos :
           k # cur \/ r # repo => backups'[k][r] = backups[k][r]
  BY <1>1, <1>2, <1>3 DEF TypeOK, Backup
<1>5. backups'[cur][repo] \in Backup /\ Marked(cur, repo)'
      /\ backups'[cur][repo].before = backups[cur][repo].before
  BY <1>1, <1>3, <1>4, NoneAssumption DEF Marked, Backup, Goto
<1>6. TypeOK'
  <2>1. CommandType'
    BY <1>1, <1>2, GotoType DEF TypeOK, CommandType, PCs
  <2>. QED  BY <1>1, <1>2, <1>4, <2>1 DEF TypeOK, CommandType, github, history
<1>7. AtEntry'
  BY <1>1, <1>2, <1>3, <1>5, NoneAssumption
  DEF AtEntry, Goto, Planned, ApplySteps
<1>8. InUse'
  <2>1. ASSUME NEW r \in Planned, ~Skips(r, plan[r])
        PROVE  backups'[cur][r] # None /\ backups'[cur][r].before = plan[r]
    <3>1. backups[cur][r] # None /\ backups[cur][r].before = plan[r] /\ r \in Repos
      BY <1>2, <2>1 DEF InUse, Planned
    <3>. QED  BY <1>3, <1>4, <1>5, <3>1, NoneAssumption
  <2>. QED  BY <1>1, <1>2, <2>1 DEF InUse, Goto, Planned
<1>9. OnDisk'
  <2> SUFFICES ASSUME NEW k \in 1..MaxApplies, NEW r \in Repos, backups'[k][r] # None
               PROVE  k \in 1..runs /\ r \in Scope \cap Admin
    BY <1>1, <1>2 DEF OnDisk
  <2>1. backups[k][r] # None
    BY <1>3, <1>4, NoneAssumption
  <2>. QED  BY <1>2, <2>1 DEF OnDisk
<1>. QED  BY <1>6, <1>7, <1>8, <1>9 DEF JournalInv

LEMMA PutClassicKeeps == JournalInv /\ PutClassic => JournalInv'
<1> SUFFICES ASSUME JournalInv, PutClassic PROVE JournalInv'
  OBVIOUS
<1> DEFINE p == [remote[repo] EXCEPT !.classic = Configured(plan[repo].classic)]
<1>1. pc = "putClassic" /\ Write(p, "verify", "failed")
      /\ UNCHANGED <<ids, booted, disk, history>>
  BY DEF PutClassic
<1>2. /\ mode = "apply" /\ ~HasRulesets(plan[repo]) /\ ~Skips(repo, plan[repo])
      /\ plan[repo] \in Protection
  BY <1>1, EntryFacts DEF JournalInv, AtEntry, ApplySteps
<1>3. Configured(plan[repo].classic) \in Classic
  BY <1>2, ProtectionParts, PayloadType DEF Skips
<1>4. p \in Protection
  BY <1>1, <1>3, EntryFacts, ProtectionParts
<1>5. "verify" \in MarkedSteps \ {"putClassic"} /\ pc \in MarkedSteps /\ "failed" \in Statuses
  BY <1>1 DEF MarkedSteps, Statuses
<1> HIDE DEF p
<1>. QED  BY <1>1, <1>2, <1>4, <1>5, WriteStep DEF JournalInv, TypeOK

LEMMA ListGateKeeps == JournalInv /\ ListGate => JournalInv'
<1> SUFFICES ASSUME JournalInv, ListGate PROVE JournalInv'
  OBVIOUS
<1>1. pc = "list" /\ UNCHANGED <<github, disk, history>>
  BY DEF ListGate
<1>2. mode = "apply" /\ Marked(cur, repo)
  BY <1>1 DEF JournalInv, AtEntry, ApplySteps, MarkedSteps
<1>3. CASE Fault /\ Conclude("failed")
  <2>1. faults' \in Nat /\ "failed" \in Statuses
    BY <1>3 DEF Fault, Statuses, JournalInv, TypeOK
  <2>. QED  BY <1>1, <1>3, <2>1, ConcludeStep
<1>4. CASE /\ seen' = remote[repo].gate
           /\ pc' = "writeGate"
           /\ UNCHANGED <<mode, cur, todo, repo, report, faults>>
  BY <1>1, <1>2, <1>4, ListStep DEF PCs
<1>. QED  BY <1>3, <1>4 DEF ListGate

\* A gate ruleset whose body is replaced.
LEMMA BodyType ==
  ASSUME NEW p \in Protection, p.gate # None, NEW b \in Bodies
  PROVE  [p EXCEPT !.gate.body = b] \in Protection
  BY DEF Protection, Gate

LEMMA UpdateGateKeeps == JournalInv /\ UpdateGate => JournalInv'
<1> SUFFICES ASSUME JournalInv, UpdateGate PROVE JournalInv'
  OBVIOUS
<1> DEFINE p == [remote[repo] EXCEPT !.gate.body = "configured"]
<1>1. pc = "writeGate" /\ UNCHANGED <<ids, booted, disk, history>>
  BY DEF UpdateGate
<1>2. mode = "apply"
  BY <1>1 DEF JournalInv, AtEntry, ApplySteps
<1>3. "verify" \in MarkedSteps \ {"putClassic"} /\ pc \in MarkedSteps /\ "failed" \in Statuses
  BY <1>1 DEF MarkedSteps, Statuses
<1>4. CASE Rejected("failed")
  BY <1>1, <1>3, <1>4, RejectedStep
<1>5. CASE remote[repo].gate # None /\ Write(p, "verify", "failed")
  <2>1. p \in Protection
    BY <1>1, <1>5, EntryFacts, BodyType DEF Bodies
  <2> HIDE DEF p
  <2>. QED  BY <1>1, <1>2, <1>3, <1>5, <2>1, WriteStep DEF JournalInv, TypeOK
<1>. QED  BY <1>4, <1>5 DEF UpdateGate

LEMMA CreateGateKeeps == JournalInv /\ CreateGate => JournalInv'
<1> SUFFICES ASSUME JournalInv, CreateGate PROVE JournalInv'
  OBVIOUS
<1> DEFINE g == [id |-> ids[repo] + 1, body |-> "configured"]
           p == [remote[repo] EXCEPT !.gate = g]
<1>1. pc = "writeGate" /\ UNCHANGED <<booted, disk, history>>
  BY DEF CreateGate
<1>2. mode = "apply" /\ repo \in Repos /\ ids[repo] \in Nat
  BY <1>1, EntryFacts DEF JournalInv, AtEntry, ApplySteps, TypeOK
<1>3. "verify" \in MarkedSteps \ {"putClassic"} /\ pc \in MarkedSteps /\ "failed" \in Statuses
  BY <1>1 DEF MarkedSteps, Statuses
<1>4. CASE Rejected("failed") /\ UNCHANGED ids
  BY <1>1, <1>3, <1>4, RejectedStep
<1>5. CASE Write(p, "verify", "failed") /\ ids' = [ids EXCEPT ![repo] = @ + 1]
  <2>1. g \in Gate
    BY <1>2 DEF Gate, Bodies
  <2>2. p \in Protection
    BY <1>1, <2>1, EntryFacts, ProtectionParts
  <2>3. ids' \in [Repos -> Nat]
    BY <1>2, <1>5 DEF JournalInv, TypeOK
  <2> HIDE DEF p
  <2>. QED  BY <1>1, <1>2, <1>3, <1>5, <2>2, <2>3, WriteStep
<1>. QED  BY <1>4, <1>5 DEF CreateGate

LEMMA VerifyKeeps == JournalInv /\ Verify => JournalInv'
<1> SUFFICES ASSUME JournalInv, Verify PROVE JournalInv'
  OBVIOUS
<1>1. pc = "verify" /\ UNCHANGED <<github, disk, history>>
  BY DEF Verify
<1>2. faults' \in Nat
  BY DEF Verify, Fault, JournalInv, TypeOK
<1>3. ASSUME NEW status \in Statuses, Conclude(status) PROVE JournalInv'
  BY <1>1, <1>2, <1>3, ConcludeStep
<1>4. CASE Goto("undo")
  <2>1. CommandType'
    BY <1>2, <1>4, GotoType DEF PCs, JournalInv, TypeOK, CommandType
  <2>2. AtEntry' /\ InUse' /\ OnDisk'
    BY <1>1, <1>4, GotoKeeps DEF Goto, PCs, MarkedSteps, ApplySteps
  <2>. QED  BY <1>1, <2>1, <2>2, TypeFromParts DEF JournalInv, TypeOK, github
<1>. QED  BY <1>3, <1>4 DEF Verify, Statuses

LEMMA NextBackupKeeps ==
  ASSUME JournalInv, NEW r \in Repos, NextBackup(r)
  PROVE  JournalInv'
<1>1. /\ mode = "rollback" /\ pc = "next" /\ r \in todo /\ todo' = todo \ {r}
      /\ repo' = r /\ pc' = "undo"
      /\ UNCHANGED <<github, disk, mode, cur, seen, report, faults, history>>
  BY DEF NextBackup
<1>2. CommandType'
  BY <1>1 DEF JournalInv, TypeOK, CommandType, PCs
<1>3. TypeOK'
  BY <1>1, <1>2, TypeFromParts DEF JournalInv, TypeOK, github
<1>4. InUse' /\ OnDisk'
  BY <1>1, DiskKept DEF JournalInv, InUse, disk
<1>5. AtEntry'
  BY <1>1 DEF JournalInv, InUse, AtEntry, ApplySteps, MarkedSteps, disk
<1>. QED  BY <1>3, <1>4, <1>5 DEF JournalInv

LEMMA CompareKeeps ==
  ASSUME JournalInv, Compare, UNCHANGED <<github, disk, history>>
  PROVE  JournalInv'
<1>1. faults' \in Nat
  BY DEF Compare, Fault, JournalInv, TypeOK
<1>2. \E status \in Statuses : Conclude(status)
  BY DEF Compare, Statuses
<1>. QED  BY <1>1, <1>2, ConcludeStep

LEMMA UndoListKeeps == JournalInv /\ UndoList => JournalInv'
<1> SUFFICES ASSUME JournalInv, UndoList PROVE JournalInv'
  OBVIOUS
<1>1. pc = "undo" /\ backups[cur][repo].started /\ UNCHANGED <<github, disk, history>>
  BY DEF UndoList
<1>2. Marked(cur, repo)
  BY <1>1 DEF JournalInv, AtEntry, Marked
<1>3. CASE Fault /\ Conclude("unrestored")
  <2>1. faults' \in Nat
    BY <1>3 DEF Fault, JournalInv, TypeOK
  <2>2. "unrestored" \in Statuses
    BY DEF Statuses
  <2>. QED  BY <1>1, <1>3, <2>1, <2>2, ConcludeStep
<1>4. CASE /\ seen' = remote[repo].gate
           /\ pc' = "undoGate"
           /\ UNCHANGED <<mode, cur, todo, repo, report, faults>>
  BY <1>1, <1>2, <1>4, ListStep DEF PCs, ApplySteps
<1>. QED  BY <1>3, <1>4 DEF UndoList

LEMMA UndoGateKeeps == JournalInv /\ UndoGate => JournalInv'
<1> SUFFICES ASSUME JournalInv, UndoGate PROVE JournalInv'
  OBVIOUS
<1> DEFINE p == [remote[repo] EXCEPT !.gate = Before.gate]
<1>1. pc = "undoGate" /\ UNCHANGED <<ids, booted, disk, history>>
  BY DEF UndoGate
<1>2. Marked(cur, repo)
  BY <1>1 DEF JournalInv, AtEntry, MarkedSteps
<1>3. /\ "undoClassic" \in MarkedSteps \ {"putClassic"} /\ "undoClassic" \notin ApplySteps
      /\ "undoClassic" \in PCs /\ pc \in MarkedSteps /\ "unrestored" \in Statuses
  BY <1>1 DEF MarkedSteps, Statuses, ApplySteps, PCs
<1>4. CASE Rejected("unrestored")
  BY <1>1, <1>3, <1>4, RejectedStep
<1>5. CASE Goto("undoClassic") /\ UNCHANGED <<remote, faults>>
  <2>1. CommandType'
    BY <1>3, <1>5, GotoType DEF JournalInv, TypeOK, CommandType
  <2>2. AtEntry' /\ InUse' /\ OnDisk'
    BY <1>1, <1>2, <1>3, <1>5, GotoKeeps DEF Goto, PCs
  <2>. QED  BY <1>1, <1>5, <2>1, <2>2, TypeFromParts DEF JournalInv, TypeOK
<1>6. CASE Write(p, "undoClassic", "unrestored")
  <2>1. p \in Protection
    BY <1>1, EntryFacts, ProtectionParts
  <2> HIDE DEF p
  <2>. QED  BY <1>1, <1>3, <1>6, <2>1, WriteStep DEF JournalInv, TypeOK
<1>. QED  BY <1>4, <1>5, <1>6 DEF UndoGate

LEMMA UndoClassicKeeps == JournalInv /\ UndoClassic => JournalInv'
<1> SUFFICES ASSUME JournalInv, UndoClassic PROVE JournalInv'
  OBVIOUS
<1> DEFINE p == [remote[repo] EXCEPT !.classic = Renormalize(Before.classic)]
<1>1. pc = "undoClassic" /\ UNCHANGED <<ids, booted, disk, history>>
      /\ Write(p, "undoVerify", "unrestored")
  BY DEF UndoClassic
<1>2. p \in Protection
  BY <1>1, EntryFacts, ProtectionParts, PayloadType
<1>3. /\ "undoVerify" \in MarkedSteps \ {"putClassic"} /\ "undoVerify" \notin ApplySteps
      /\ pc \in MarkedSteps /\ "unrestored" \in Statuses
  BY <1>1 DEF MarkedSteps, Statuses, ApplySteps
<1> HIDE DEF p
<1>. QED  BY <1>1, <1>2, <1>3, WriteStep DEF JournalInv, TypeOK

\* The end of a command, printed or not.
LEMMA IdleKeeps ==
  ASSUME JournalInv, UNCHANGED <<github, disk, cur, faults, history>>,
         mode' = "idle", pc' = "next", todo' \subseteq Repos, repo' \in Repos \cup {None},
         seen' \in Gate \cup {None}, report' \in [Repos -> Statuses]
  PROVE  JournalInv'
<1>1. CommandType'
  BY DEF JournalInv, TypeOK, CommandType, PCs
<1>2. TypeOK'
  BY <1>1, TypeFromParts DEF JournalInv, TypeOK, github
<1>3. AtEntry' /\ InUse' /\ OnDisk'
  BY DiskKept DEF AtEntry, InUse, JournalInv
<1>. QED  BY <1>2, <1>3 DEF JournalInv

LEMMA FinishKeeps == JournalInv /\ Finish => JournalInv'
  BY IdleKeeps DEF Finish, JournalInv, TypeOK

LEMMA CrashKeeps == JournalInv /\ Crash => JournalInv'
<1> SUFFICES ASSUME JournalInv, Crash PROVE JournalInv'
  OBVIOUS
<1>1. report' \in [Repos -> Statuses]
  BY DEF Crash, Statuses
<1>. QED  BY <1>1, IdleKeeps DEF Crash

LEMMA OwnerEditsKeeps ==
  ASSUME JournalInv, NEW r \in Repos, OwnerEdits(r)
  PROVE  JournalInv'
<1>1. PICK p \in Profiles :
        LET fresh == p.gate # None /\ remote[r].gate = None
            id    == IF fresh THEN ids[r] + 1 ELSE remote[r].gate.id
            gate  == IF p.gate = None THEN None ELSE [id |-> id, body |-> p.gate.body]
        IN  /\ remote' = [remote EXCEPT ![r].classic = p.classic, ![r].gate = gate]
            /\ ids' = [ids EXCEPT ![r] = IF fresh THEN @ + 1 ELSE @]
  BY DEF OwnerEdits
<1>2. UNCHANGED <<booted, disk, command, initial, applied, holed, lost>>
      /\ edits' = [edits EXCEPT ![r] = @ + 1]
  BY DEF OwnerEdits
<1> DEFINE fresh == p.gate # None /\ remote[r].gate = None
           id    == IF fresh THEN ids[r] + 1 ELSE remote[r].gate.id
           gate  == IF p.gate = None THEN None ELSE [id |-> id, body |-> p.gate.body]
           new   == [remote[r] EXCEPT !.classic = p.classic, !.gate = gate]
<1>3. p \in Protection /\ remote[r] \in Protection /\ ids[r] \in Nat
  BY ProfilesAssumption DEF JournalInv, TypeOK
<1>4. gate \in Gate \cup {None}
  <2>1. CASE p.gate = None
    BY <2>1
  <2>2. CASE p.gate # None
    <3>1. p.gate.body \in Bodies /\ (remote[r].gate # None => remote[r].gate.id \in Nat)
      BY <1>3, <2>2, ProtectionParts DEF Gate
    <3>2. id \in Nat
      BY <1>3, <2>2, <3>1
    <3>. QED  BY <2>2, <3>1, <3>2 DEF Gate
  <2>. QED  BY <2>1, <2>2
<1>5. new \in Protection
  BY <1>3, <1>4, ProtectionParts
<1>6. remote' = [remote EXCEPT ![r] = new]
  BY <1>1 DEF JournalInv, TypeOK
<1>7. remote' \in [Repos -> Protection] /\ ids' \in [Repos -> Nat] /\ edits' \in [Repos -> Nat]
  BY <1>1, <1>2, <1>3, <1>5, <1>6 DEF JournalInv, TypeOK
<1>8. TypeOK'
  BY <1>2, <1>7 DEF JournalInv, TypeOK, disk, command
<1>9. AtEntry' /\ InUse' /\ OnDisk'
  BY <1>2, DiskKept, InUseKept DEF JournalInv, AtEntry, Marked, Planned, disk, command
<1>. QED  BY <1>8, <1>9 DEF JournalInv

LEMMA NextJournalInv == JournalInv /\ [Next]_vars => JournalInv'
<1> SUFFICES ASSUME JournalInv, [Next]_vars PROVE JournalInv'
  OBVIOUS
<1>1. CASE Apply
  BY <1>1, NextEntryKeeps, BootstrapKeeps, MarkKeeps, PutClassicKeeps, ListGateKeeps,
     UpdateGateKeeps, CreateGateKeeps, VerifyKeeps DEF Apply
<1>2. CASE Undo
  <2>1. ASSUME UndoUnmarked \/ UndoVerify PROVE JournalInv'
    BY <2>1, CompareKeeps DEF UndoUnmarked, UndoVerify
  <2>. QED  BY <1>2, <2>1, NextBackupKeeps, UndoListKeeps, UndoGateKeeps, UndoClassicKeeps
            DEF Undo
<1>3. CASE Operator
  BY <1>3, BuildPlanKeeps, ConfirmKeeps, ApplyStartKeeps, DryRunStartKeeps, RollbackStartKeeps
  DEF Operator
<1>4. CASE Owner
  BY <1>4, OwnerEditsKeeps DEF Owner
<1>5. CASE UNCHANGED vars
  <2>1. UNCHANGED <<github, disk, command, history>>
    BY <1>5 DEF vars
  <2>2. CommandType'
    BY <2>1 DEF JournalInv, TypeOK, CommandType, command
  <2>3. TypeOK'
    BY <2>1, <2>2, TypeFromParts DEF JournalInv, TypeOK, github
  <2>4. AtEntry' /\ InUse' /\ OnDisk'
    BY <2>1, DiskKept, InUseKept DEF JournalInv, AtEntry, Marked, Planned, disk, command
  <2>. QED  BY <2>3, <2>4 DEF JournalInv
<1>. QED  BY <1>1, <1>2, <1>3, <1>4, <1>5, FinishKeeps, CrashKeeps DEF Next, Step

\* The journal invariant holds throughout: control, memory and files agree on
\* which entry is being changed and which backup entry undoes it.
THEOREM JournalInvariant == Spec => []JournalInv
  BY InitJournalInv, NextJournalInv, PTL DEF Spec

\* Every variable keeps its type, for any repositories and any bounds.
THEOREM TypeCorrect == Spec => []TypeOK
<1>1. JournalInv => TypeOK
  BY DEF JournalInv
<1>. QED  BY <1>1, JournalInvariant, PTL

-----------------------------------------------------------------------------
(* The journal is written ahead of every change.                            *)

\* Only the current repository is written to, and only at a marked step.
LEMMA WritesAreMarked ==
  ASSUME JournalInv, [Next]_vars, NEW r \in Repos, Changes(r)
  PROVE  r = repo /\ pc \in MarkedSteps
<1>0. remote' # remote /\ remote \in [Repos -> Protection]
  BY DEF Changes, JournalInv, TypeOK
<1>1. ASSUME NEW p, NEW label, NEW onError, Write(p, label, onError) PROVE r = repo
  BY <1>0, <1>1 DEF Write, Changes
<1>2. CASE Apply
  <2>1. PutClassic \/ UpdateGate \/ CreateGate
    BY <1>0, <1>2 DEF Apply, NextEntry, Bootstrap, Mark, ListGate, Verify, github
  <2>2. pc \in MarkedSteps
    BY <2>1 DEF PutClassic, UpdateGate, CreateGate, MarkedSteps
  <2>3. \E p, label, onError : Write(p, label, onError)
    BY <2>1, <1>0 DEF PutClassic, UpdateGate, CreateGate, Rejected
  <2>. QED  BY <1>1, <2>2, <2>3
<1>3. CASE Undo
  <2>1. UndoGate \/ UndoClassic
    BY <1>0, <1>3 DEF Undo, NextBackup, UndoUnmarked, UndoList, UndoVerify, github
  <2>2. pc \in MarkedSteps
    BY <2>1 DEF UndoGate, UndoClassic, MarkedSteps
  <2>3. \E p, label, onError : Write(p, label, onError)
    BY <2>1, <1>0 DEF UndoGate, UndoClassic, Rejected
  <2>. QED  BY <1>1, <2>2, <2>3
<1>4. CASE Operator
  BY <1>0, <1>4 DEF Operator, BuildPlan, Confirm, ApplyStart, DryRunStart, RollbackStart, github
<1>5. CASE Owner
  BY <1>5 DEF Owner, OwnerEdits, Changes, JournalInv, TypeOK
<1>6. CASE Finish \/ Crash \/ UNCHANGED vars
  BY <1>0, <1>6 DEF Finish, Crash, vars, github
<1>. QED  BY <1>2, <1>3, <1>4, <1>5, <1>6 DEF Next, Step

\* Whatever a command alters is marked in the backup file in use before it is
\* altered, and apply alters only what the confirmed plan holds.
THEOREM WrittenAhead == Spec => WriteAhead
<1>1. ASSUME JournalInv, [Next]_vars, NEW r \in Repos, Changes(r)
      PROVE  /\ cur # 0 /\ Marked(cur, r)
             /\ r \in Scope \cap Admin
             /\ mode = "apply" => backups[cur][r].before = confirmed[r]
  <2>1. r = repo /\ pc \in MarkedSteps /\ pc # "next"
    BY <1>1, WritesAreMarked DEF MarkedSteps
  <2>2. Marked(cur, r) /\ cur \in 1..MaxApplies /\ cur # 0
    BY <1>1, <2>1, EntryFacts DEF JournalInv, AtEntry
  <2>3. r \in Scope \cap Admin
    BY <1>1, <2>2 DEF JournalInv, OnDisk, Marked
  <2>4. mode = "apply" => backups[cur][r].before = confirmed[r]
    BY <1>1, <2>1 DEF JournalInv, AtEntry, InUse
  <2>. QED  BY <2>2, <2>3, <2>4
<1>2. JournalInv /\ [Next]_vars =>
        [\A r \in Repos : Changes(r) =>
           /\ cur # 0 /\ Marked(cur, r)
           /\ r \in Scope \cap Admin
           /\ mode = "apply" => backups[cur][r].before = confirmed[r]]_vars
  BY <1>1
<1>. QED  BY <1>2, JournalInvariant, PTL DEF Spec, WriteAhead

-----------------------------------------------------------------------------
(* Every changed repository is recoverable.                                 *)

\* A step that begins no apply keeps every entry on disk: only Mark touches
\* one, to mark it.
LEMMA EntriesKept ==
  ASSUME JournalInv, [Next]_vars, ~ApplyStart,
         NEW k \in 1..MaxApplies, NEW r \in Repos, backups[k][r] # None
  PROVE  /\ backups'[k][r] # None
         /\ backups'[k][r].before = backups[k][r].before
         /\ Marked(k, r) => Marked(k, r)'
<1>0. TypeOK /\ OnDisk
  BY DEF JournalInv
<1>1. CASE Mark
  <2>1. pc = "mark" /\ backups' = [backups EXCEPT ![cur][repo].started = TRUE]
    BY <1>1 DEF Mark
  <2>2. repo \in Repos /\ cur \in 1..MaxApplies /\ backups[cur][repo] \in Backup
    BY <2>1, EntryFacts
  <2>3. CASE k = cur /\ r = repo
    <3>1. backups'[k][r] = [backups[k][r] EXCEPT !.started = TRUE]
      BY <1>0, <2>1, <2>2, <2>3 DEF TypeOK, Backup
    <3>2. backups'[k][r] \in Backup /\ backups'[k][r].started
          /\ backups'[k][r].before = backups[k][r].before
      BY <2>2, <2>3, <3>1 DEF Backup
    <3>. QED  BY <3>2, NoneAssumption DEF Marked
  <2>4. CASE ~(k = cur /\ r = repo)
    <3>1. backups'[k][r] = backups[k][r]
      BY <1>0, <2>1, <2>2, <2>4 DEF TypeOK
    <3>. QED  BY <3>1 DEF Marked
  <2>. QED  BY <2>3, <2>4
<1>3. CASE UNCHANGED backups
  BY <1>3 DEF Marked
<1>4. [Next]_vars => Mark \/ ApplyStart \/ UNCHANGED backups
  <2>1. Apply => Mark \/ UNCHANGED backups
    BY DEF Apply, NextEntry, Bootstrap, PutClassic, ListGate, UpdateGate, CreateGate, Verify, disk
  <2>2. Undo => UNCHANGED backups
    BY DEF Undo, NextBackup, UndoUnmarked, UndoList, UndoGate, UndoClassic, UndoVerify, disk
  <2>3. Operator => ApplyStart \/ UNCHANGED backups
    BY DEF Operator, BuildPlan, Confirm, DryRunStart, RollbackStart, disk
  <2>4. Finish \/ Crash \/ Owner => UNCHANGED backups
    BY DEF Finish, Crash, Owner, OwnerEdits, disk
  <2>. QED  BY <2>1, <2>2, <2>3, <2>4 DEF Next, Step, vars, disk
<1>. QED  BY <1>1, <1>3, <1>4

LEMMA BackupsChange ==
  ASSUME [Next]_vars
  PROVE  Mark \/ ApplyStart \/ UNCHANGED <<backups, runs>>
<1>1. Apply => Mark \/ UNCHANGED <<backups, runs>>
  BY DEF Apply, NextEntry, Bootstrap, PutClassic, ListGate, UpdateGate, CreateGate, Verify, disk
<1>2. Undo => UNCHANGED <<backups, runs>>
  BY DEF Undo, NextBackup, UndoUnmarked, UndoList, UndoGate, UndoClassic, UndoVerify, disk
<1>3. Operator => ApplyStart \/ UNCHANGED <<backups, runs>>
  BY DEF Operator, BuildPlan, Confirm, DryRunStart, RollbackStart, disk
<1>4. Finish \/ Crash \/ Owner => UNCHANGED <<backups, runs>>
  BY DEF Finish, Crash, Owner, OwnerEdits, disk
<1>. QED  BY <1>1, <1>2, <1>3, <1>4 DEF Next, Step, vars, disk

\* A marked entry stays as it is unless an apply of its second replaces it.
LEMMA MarksKept ==
  ASSUME JournalInv, [Next]_vars, NEW k \in 1..runs, NEW r \in Repos,
         Marked(k, r), r \notin lost'
  PROVE  k \in 1..runs' /\ Marked(k, r)' /\ backups'[k][r].before = backups[k][r].before
<1>0. TypeOK /\ k \in 1..MaxApplies /\ backups[k][r] # None
  BY ConstantsAssumption DEF JournalInv, TypeOK, Marked
<1>1. CASE ApplyStart
  <2>1. PICK e \in {runs, runs + 1} \cap 1..MaxApplies :
          /\ runs' = e
          /\ backups' = [backups EXCEPT ![e] = CollectBackup]
          /\ lost' = lost \cup {q \in Repos : Marked(e, q)}
    BY <1>1 DEF ApplyStart
  <2>2. k # e
    BY <2>1
  <2>3. backups'[k] = backups[k] /\ k \in 1..runs'
    BY <1>0, <2>1, <2>2 DEF TypeOK
  <2>. QED  BY <2>3 DEF Marked
<1>2. CASE ~ApplyStart
  <2>1. runs' = runs
    BY <1>2, BackupsChange DEF Mark
  <2>. QED  BY <1>0, <1>2, <2>1, EntriesKept
<1>. QED  BY <1>1, <1>2

\* A mark that a step leaves was there before, or Mark has just made it.
LEMMA NewMarks ==
  ASSUME JournalInv, [Next]_vars, NEW r \in Repos, NEW k \in 1..runs', Marked(k, r)'
  PROVE  \/ k \in 1..runs /\ Marked(k, r)
         \/ Mark /\ k = cur /\ r = repo
<1>0. TypeOK /\ OnDisk
  BY DEF JournalInv
<1>1. CASE Mark
  <2>1. pc = "mark" /\ backups' = [backups EXCEPT ![cur][repo].started = TRUE] /\ runs' = runs
    BY <1>1 DEF Mark
  <2>2. repo \in Repos /\ cur \in 1..MaxApplies
    BY <2>1, EntryFacts
  <2>3. k \in 1..MaxApplies
    BY <1>0, <2>1, ConstantsAssumption DEF TypeOK
  <2>4. CASE ~(k = cur /\ r = repo)
    <3>1. backups'[k][r] = backups[k][r]
      BY <1>0, <2>1, <2>2, <2>3, <2>4 DEF TypeOK
    <3>. QED  BY <2>1, <3>1 DEF Marked
  <2>. QED  BY <1>1, <2>4
<1>2. CASE ApplyStart
  <2>1. PICK e \in {runs, runs + 1} \cap 1..MaxApplies :
          runs' = e /\ backups' = [backups EXCEPT ![e] = CollectBackup]
    BY <1>2 DEF ApplyStart
  <2>2. CASE k = e
    <3>1. backups'[k][r] = CollectBackup[r]
      BY <1>0, <2>1, <2>2 DEF TypeOK
    <3>. QED  BY <1>0, <3>1, CollectBackupFacts DEF Marked
  <2>3. CASE k # e
    <3>1. backups'[k][r] = backups[k][r] /\ k \in 1..runs
      BY <1>0, <2>1, <2>3 DEF TypeOK
    <3>. QED  BY <3>1 DEF Marked
  <2>. QED  BY <2>2, <2>3
<1>3. CASE UNCHANGED <<backups, runs>>
  BY <1>3 DEF Marked
<1>. QED  BY <1>1, <1>2, <1>3, BackupsChange

\* The owner's edits are counted, the starting point is never rewritten, and
\* the exceptions only grow.
LEMMA HistoryGrows ==
  ASSUME TypeOK, [Next]_vars, NEW r \in Repos, edits'[r] = 0
  PROVE  /\ edits[r] = 0 /\ initial' = initial
         /\ holed \subseteq holed' /\ lost \subseteq lost'
         /\ remote'[r] # remote[r] => Changes(r)
<1>1. CASE Owner
  <2>1. PICK o \in Repos : OwnerEdits(o)
    BY <1>1 DEF Owner
  <2>2. edits' = [edits EXCEPT ![o] = @ + 1] /\ UNCHANGED <<initial, holed, lost>>
    BY <2>1 DEF OwnerEdits
  <2>3. o # r /\ edits[r] = 0
    BY <2>2 DEF TypeOK
  <2>4. remote'[r] = remote[r]
    BY <2>1, <2>3 DEF OwnerEdits, TypeOK
  <2>. QED  BY <2>2, <2>3, <2>4
<1>2. CASE UNCHANGED <<initial, edits>> /\ holed \subseteq holed' /\ lost \subseteq lost'
  BY <1>2 DEF Changes
<1>3. Next => \/ Owner
              \/ UNCHANGED <<initial, edits>> /\ holed \subseteq holed' /\ lost \subseteq lost'
  <2>1. ASSUME NEW e \in Repos, NextEntry(e)
        PROVE  UNCHANGED <<initial, edits>> /\ holed \subseteq holed' /\ lost \subseteq lost'
    BY <2>1 DEF NextEntry
  <2>2. Apply => \/ \E e \in Repos : NextEntry(e)
                 \/ UNCHANGED history
    BY DEF Apply, Bootstrap, Mark, PutClassic, ListGate, UpdateGate, CreateGate, Verify
  <2>3. Undo => UNCHANGED history
    BY DEF Undo, NextBackup, UndoUnmarked, UndoList, UndoGate, UndoClassic, UndoVerify
  <2>4. Operator => UNCHANGED <<initial, edits>> /\ holed \subseteq holed' /\ lost \subseteq lost'
    BY DEF Operator, BuildPlan, Confirm, ApplyStart, DryRunStart, RollbackStart, history
  <2>5. Finish \/ Crash => UNCHANGED history
    BY DEF Finish, Crash
  <2>. QED  BY <2>1, <2>2, <2>3, <2>4, <2>5 DEF Next, Step, history
<1>. QED  BY <1>1, <1>2, <1>3 DEF vars, history

\* The window between the drift check and the mark.
LEMMA UndriftedKept ==
  ASSUME JournalInv, Undrifted, [Next]_vars
  PROVE  Undrifted'
<1> SUFFICES ASSUME pc' \in {"bootstrap", "mark"}, edits'[repo'] = 0, repo' \notin holed'
             PROVE  plan'[repo'] = remote'[repo']
  BY DEF Undrifted
<1>0. TypeOK
  BY DEF JournalInv
<1>1. ASSUME NEW r \in Repos, NextEntry(r) PROVE plan'[repo'] = remote'[repo']
  <2>1. pc = "next" /\ UNCHANGED <<github, disk>>
    BY <1>1 DEF NextEntry
  <2>2. repo' = r /\ holed' = IF plan[r] = remote[r] THEN holed ELSE holed \cup {r}
    BY <1>1, <2>1 DEF NextEntry
  <2>3. plan[r] = remote[r]
    BY <2>2
  <2>. QED  BY <2>1, <2>2, <2>3 DEF github, disk
<1>2. CASE Bootstrap
  BY <1>2 DEF Bootstrap, Goto, Conclude, Undrifted, disk, history
<1>3. CASE Owner
  <2>1. PICK o \in Repos : OwnerEdits(o)
    BY <1>3 DEF Owner
  <2>2. UNCHANGED <<pc, repo, plan, holed>>
    BY <2>1 DEF OwnerEdits, command, disk
  <2>3. repo \in Repos
    BY <2>2, EntryFacts
  <2>4. edits[repo] = 0 /\ ~Changes(repo) /\ (remote'[repo] # remote[repo] => Changes(repo))
    <3>1. edits' # edits
      BY <1>0, <2>1 DEF OwnerEdits, TypeOK
    <3>. QED  BY <1>0, <2>2, <2>3, <3>1, HistoryGrows DEF Changes
  <2>. QED  BY <2>2, <2>4 DEF Undrifted
<1>4. CASE UNCHANGED vars
  BY <1>4 DEF vars, command, github, disk, history, Undrifted
<1>5. Next => Bootstrap \/ Owner \/ \E r \in Repos : NextEntry(r)
  <2>1. ASSUME Apply PROVE Bootstrap \/ \E r \in Repos : NextEntry(r)
    BY <2>1 DEF Apply, Mark, PutClassic, ListGate, UpdateGate, CreateGate, Verify,
       Write, Rejected, Goto, Conclude
  <2>2. ~Undo
    BY DEF Undo, NextBackup, UndoUnmarked, UndoList, UndoGate, UndoClassic, UndoVerify,
       Compare, Write, Rejected, Goto, Conclude
  <2>3. ~Operator
    BY DEF Operator, BuildPlan, Confirm, ApplyStart, DryRunStart, RollbackStart, Begin,
       command, JournalInv, AtEntry
  <2>4. ~Finish /\ ~Crash
    BY DEF Finish, Crash
  <2>. QED  BY <2>1, <2>2, <2>3, <2>4 DEF Next, Step
<1>. QED  BY <1>1, <1>2, <1>3, <1>4, <1>5

\* A backup entry that records the starting point stays on disk.
LEMMA FirstMarkKept ==
  ASSUME JournalInv, Undrifted, FirstMark, [Next]_vars
  PROVE  FirstMark'
<1> SUFFICES ASSUME NEW r \in Repos \ (holed' \cup lost'), edits'[r] = 0
             PROVE  \/ remote'[r] = initial'[r] /\ \A k \in 1..runs' : ~Marked(k, r)'
                    \/ \E k \in 1..runs' : Marked(k, r)' /\ backups'[k][r].before = initial'[r]
  BY DEF FirstMark, Marked
<1>0. /\ TypeOK /\ r \in Repos \ (holed \cup lost) /\ r \notin lost'
      /\ edits[r] = 0 /\ initial' = initial
  BY HistoryGrows DEF JournalInv
<1>1. CASE \E k \in 1..runs : Marked(k, r) /\ backups[k][r].before = initial[r]
  BY <1>0, <1>1, MarksKept
<1>2. CASE remote[r] = initial[r] /\ \A k \in 1..runs : ~Marked(k, r)
  <2>1. remote'[r] = remote[r]
    <3>1. ASSUME Changes(r) PROVE FALSE
      <4>1. r = repo /\ pc \in MarkedSteps /\ pc # "next"
        BY <3>1, WritesAreMarked DEF MarkedSteps
      <4>2. Marked(cur, r) /\ cur \in 1..runs
        BY <4>1, EntryFacts DEF JournalInv, AtEntry
      <4>. QED  BY <1>2, <4>2
    <3>. QED  BY <1>0, <3>1, HistoryGrows
  <2>2. CASE \A k \in 1..runs' : ~Marked(k, r)'
    BY <1>0, <1>2, <2>1, <2>2
  <2>3. CASE \E k \in 1..runs' : Marked(k, r)'
    <3>1. PICK k \in 1..runs' : Marked(k, r)'
      BY <2>3
    <3>2. Mark /\ k = cur /\ r = repo
      BY <1>2, <3>1, NewMarks
    <3>3. pc = "mark" /\ mode = "apply" /\ repo \in Planned /\ ~Skips(repo, plan[repo])
      BY <3>2 DEF Mark, JournalInv, AtEntry, ApplySteps
    <3>4. backups[cur][r].before = plan[r] /\ backups[cur][r] # None
      BY <3>2, <3>3 DEF JournalInv, InUse
    <3>5. plan[r] = remote[r]
      BY <1>0, <3>2, <3>3 DEF Undrifted
    <3>6. cur \in 1..MaxApplies /\ ~ApplyStart
      BY <3>3, EntryFacts DEF ApplyStart, Begin
    <3>7. backups'[k][r].before = initial'[r]
      BY <1>0, <1>2, <3>2, <3>4, <3>5, <3>6, EntriesKept
    <3>. QED  BY <3>1, <3>7
  <2>. QED  BY <2>2, <2>3
<1>. QED  BY <1>0, <1>1, <1>2 DEF FirstMark

\* Whatever was applied, rolled back, lost or interrupted, each repository the
\* owner left alone is as it was or has a marked backup of its first state;
\* but for those whose snapshot missed a ruleset or whose mark was replaced.
THEOREM ChangedIsRecoverable == Spec => []Recoverable
<1>1. Init => Undrifted /\ FirstMark
  BY DEF Init, Undrifted, FirstMark
<1>2. JournalInv /\ Undrifted /\ FirstMark /\ [Next]_vars => Undrifted' /\ FirstMark'
  BY UndriftedKept, FirstMarkKept
<1>3. FirstMark => Recoverable
  BY DEF FirstMark, Recoverable
<1>. QED  BY <1>1, <1>2, <1>3, JournalInvariant, PTL DEF Spec

-----------------------------------------------------------------------------
(* No branch requires a check that was never published there.               *)

\* A repository is marked after its bootstrap check is on GitHub.
MarkedIsBooted ==
  /\ pc = "mark" => repo \in booted
  /\ \A k \in 1..runs, r \in Repos : Marked(k, r) => r \in booted

\* A published check is not taken back.
LEMMA BootedGrows == [Next]_vars => booted \subseteq booted'
<1>1. Apply => booted \subseteq booted'
  BY DEF Apply, NextEntry, Bootstrap, Mark, PutClassic, ListGate, UpdateGate, CreateGate, Verify,
     github
<1>2. Undo => booted' = booted
  BY DEF Undo, NextBackup, UndoUnmarked, UndoList, UndoGate, UndoClassic, UndoVerify, github
<1>3. Operator => booted' = booted
  BY DEF Operator, BuildPlan, Confirm, ApplyStart, DryRunStart, RollbackStart, github
<1>4. Finish \/ Crash \/ Owner => booted' = booted
  BY DEF Finish, Crash, Owner, OwnerEdits, github
<1>. QED  BY <1>1, <1>2, <1>3, <1>4 DEF Next, Step, vars, github

\* Only a successful bootstrap leads to the mark.
LEMMA MarkIsReached ==
  ASSUME JournalInv, [Next]_vars, pc' = "mark"
  PROVE  \/ booted' = booted \cup {repo} /\ repo' = repo
         \/ UNCHANGED <<pc, repo>>
<1>1. CASE Apply
  <2>1. Bootstrap
    BY <1>1 DEF Apply, NextEntry, Mark, PutClassic, ListGate, UpdateGate, CreateGate, Verify,
       Write, Rejected, Goto, Conclude
  <2>. QED  BY <2>1 DEF Bootstrap, Goto, Conclude
<1>2. ~Undo
  BY DEF Undo, NextBackup, UndoUnmarked, UndoList, UndoGate, UndoClassic, UndoVerify,
     Compare, Write, Rejected, Goto, Conclude
<1>3. CASE Operator
  BY <1>3 DEF Operator, BuildPlan, Confirm, ApplyStart, DryRunStart, RollbackStart, Begin, command
<1>4. CASE Finish \/ Crash \/ Owner \/ UNCHANGED vars
  BY <1>4 DEF Finish, Crash, Owner, OwnerEdits, vars, command
<1>. QED  BY <1>1, <1>2, <1>3, <1>4 DEF Next, Step

LEMMA BootedKept ==
  ASSUME JournalInv, MarkedIsBooted, [Next]_vars
  PROVE  MarkedIsBooted'
<1>1. pc' = "mark" => repo' \in booted'
  BY MarkIsReached, BootedGrows DEF MarkedIsBooted
<1>2. ASSUME NEW r \in Repos, NEW k \in 1..runs', Marked(k, r)' PROVE r \in booted'
  <2>1. CASE k \in 1..runs /\ Marked(k, r)
    BY <2>1, BootedGrows DEF MarkedIsBooted
  <2>2. CASE Mark /\ k = cur /\ r = repo
    BY <2>2, BootedGrows DEF Mark, MarkedIsBooted
  <2>. QED  BY <1>2, <2>1, <2>2, NewMarks
<1>. QED  BY <1>1, <1>2 DEF MarkedIsBooted, Marked

LEMMA BootedFirst ==
  ASSUME JournalInv, MarkedIsBooted, BootstrapFirst, [Next]_vars
  PROVE  BootstrapFirst'
<1> SUFFICES ASSUME NEW r \in Repos, remote'[r] # initial'[r], edits'[r] = 0
             PROVE  r \in booted'
  BY DEF BootstrapFirst
<1>1. edits[r] = 0 /\ initial' = initial /\ (remote'[r] # remote[r] => Changes(r))
  BY HistoryGrows DEF JournalInv
<1>2. CASE remote'[r] = remote[r]
  BY <1>1, <1>2, BootedGrows DEF BootstrapFirst
<1>3. CASE Changes(r)
  <2>1. r = repo /\ pc \in MarkedSteps /\ pc # "next"
    BY <1>3, WritesAreMarked DEF MarkedSteps
  <2>2. Marked(cur, r) /\ cur \in 1..runs
    BY <2>1, EntryFacts DEF JournalInv, AtEntry
  <2>. QED  BY <2>2, BootedGrows DEF MarkedIsBooted
<1>. QED  BY <1>1, <1>2, <1>3

\* Every branch the tool changed carries the Gate App's bootstrap check.
THEOREM BootstrapComesFirst == Spec => []BootstrapFirst
<1>1. Init => MarkedIsBooted /\ BootstrapFirst
  BY DEF Init, MarkedIsBooted, BootstrapFirst
<1>2. JournalInv /\ MarkedIsBooted /\ BootstrapFirst /\ [Next]_vars
        => MarkedIsBooted' /\ BootstrapFirst'
  BY BootedKept, BootedFirst
<1>. QED  BY <1>1, <1>2, JournalInvariant, PTL DEF Spec

-----------------------------------------------------------------------------
(* What a report says.                                                      *)

\* A repository is reported when the loop has left it, and not before.
Reported ==
  /\ pc # "next" => repo \notin todo
  /\ \A r \in Repos : report[r] # "none" => r \notin todo /\ (pc # "next" => r # repo)

\* The shape of every step: it goes on, reports the current repository, takes
\* the next one, or begins afresh.
LEMMA CommandShape ==
  ASSUME JournalInv, [Next]_vars
  PROVE  \/ /\ UNCHANGED <<cur, todo, repo, report>>
            /\ pc' = pc \/ pc # "next"
            /\ faults' = 0 => faults = 0
         \/ /\ pc # "next"
            /\ \E s \in Statuses : Conclude(s)
            /\ faults' = 0 => faults = 0
         \/ /\ pc = "next"
            /\ \E r \in todo : /\ todo' = todo \ {r}
                               /\ \/ /\ pc' = "next"
                                     /\ \E s \in {"skipped", "failed", "dry_run"} :
                                          report' = [report EXCEPT ![r] = s]
                                  \/ repo' = r /\ UNCHANGED report
            /\ UNCHANGED cur
            /\ faults' = 0 => faults = 0
         \/ /\ pc' = "next"
            /\ report' = [r \in Repos |-> "none"]
<1> DEFINE Shape == \/ /\ UNCHANGED <<cur, todo, repo, report>>
                       /\ pc' = pc \/ pc # "next"
                       /\ faults' = 0 => faults = 0
                    \/ /\ pc # "next"
                       /\ \E s \in Statuses : Conclude(s)
                       /\ faults' = 0 => faults = 0
<1>0. faults \in Nat
  BY DEF JournalInv, TypeOK
<1>1. Fault => faults' # 0
  BY <1>0 DEF Fault
<1>2. ASSUME NEW label \in PCs, Goto(label), pc # "next", Fault \/ UNCHANGED faults
      PROVE  Shape
  BY <1>1, <1>2 DEF Goto
<1>3. ASSUME NEW s \in Statuses, Conclude(s), pc # "next", Fault \/ UNCHANGED faults
      PROVE  Shape
  BY <1>1, <1>3
<1>4. ASSUME NEW p, NEW label \in PCs, NEW s \in Statuses, Write(p, label, s), pc # "next"
      PROVE  Shape
  BY <1>2, <1>3, <1>4 DEF Write
<1>5. ASSUME NEW label \in PCs, pc # "next", pc' = label, UNCHANGED <<cur, todo, repo, report, faults>>
      PROVE  Shape
  BY <1>5
<1>6. /\ PCs = {"next", "bootstrap", "mark", "putClassic", "list", "writeGate", "verify",
                "undo", "undoGate", "undoClassic", "undoVerify"}
      /\ Statuses = {"none", "skipped", "failed", "dry_run", "configured",
                     "restored", "unrestored"}
  BY DEF PCs, Statuses
<1> HIDE DEF Shape
<1>7. Bootstrap => Shape
  BY <1>2, <1>3, <1>6 DEF Bootstrap
<1>8. Mark => Shape
  <2> SUFFICES ASSUME Mark PROVE Shape
    OBVIOUS
  <2>1. \E label \in PCs : Goto(label)
    BY <1>6 DEF Mark
  <2>. QED  BY <1>2, <2>1 DEF Mark
<1>9. PutClassic \/ UpdateGate \/ CreateGate => Shape
  <2> SUFFICES ASSUME PutClassic \/ UpdateGate \/ CreateGate PROVE Shape
    OBVIOUS
  <2>1. pc # "next"
    BY DEF PutClassic, UpdateGate, CreateGate
  <2>2. \/ \E p : Write(p, "verify", "failed")
        \/ Conclude("failed") /\ UNCHANGED faults
    BY DEF PutClassic, UpdateGate, CreateGate, Rejected
  <2>. QED  BY <1>3, <1>4, <1>6, <2>1, <2>2
<1>10. ListGate \/ UndoList => Shape
  <2> SUFFICES ASSUME ListGate \/ UndoList PROVE Shape
    OBVIOUS
  <2>1. pc # "next"
    BY DEF ListGate, UndoList
  <2>2. \/ pc' \in {"writeGate", "undoGate"} /\ UNCHANGED <<cur, todo, repo, report, faults>>
        \/ Fault /\ (Conclude("failed") \/ Conclude("unrestored"))
    BY DEF ListGate, UndoList
  <2>. QED  BY <1>3, <1>5, <1>6, <2>1, <2>2
<1>11. Verify => Shape
  <2> SUFFICES ASSUME Verify PROVE Shape
    OBVIOUS
  <2>1. pc # "next"
    BY DEF Verify
  <2>2. /\ Goto("undo") \/ Conclude("configured") \/ Conclude("failed")
        /\ Fault \/ UNCHANGED faults
    BY DEF Verify
  <2>. QED  BY <1>2, <1>3, <1>6, <2>1, <2>2
<1>12. UndoUnmarked \/ UndoVerify => Shape
  <2> SUFFICES ASSUME UndoUnmarked \/ UndoVerify PROVE Shape
    OBVIOUS
  <2>1. pc # "next"
    BY DEF UndoUnmarked, UndoVerify
  <2>2. /\ Conclude("restored") \/ Conclude("unrestored")
        /\ Fault \/ UNCHANGED faults
    BY DEF UndoUnmarked, UndoVerify, Compare
  <2>. QED  BY <1>3, <1>6, <2>1, <2>2
<1>13. UndoGate \/ UndoClassic => Shape
  <2> SUFFICES ASSUME UndoGate \/ UndoClassic PROVE Shape
    OBVIOUS
  <2>1. pc # "next"
    BY DEF UndoGate, UndoClassic
  <2>2. \/ \E p : Write(p, "undoClassic", "unrestored")
        \/ \E p : Write(p, "undoVerify", "unrestored")
        \/ Goto("undoClassic") /\ UNCHANGED faults
        \/ Conclude("unrestored") /\ UNCHANGED faults
    BY DEF UndoGate, UndoClassic, Rejected
  <2>. QED  BY <1>2, <1>3, <1>4, <1>6, <2>1, <2>2
<1>14. ASSUME NEW r \in Repos, NextEntry(r)
       PROVE  /\ pc = "next" /\ r \in todo /\ todo' = todo \ {r} /\ UNCHANGED cur
              /\ \/ /\ pc' = "next"
                    /\ \E s \in {"skipped", "failed", "dry_run"} :
                         report' = [report EXCEPT ![r] = s]
                 \/ repo' = r /\ UNCHANGED report
              /\ faults' = 0 => faults = 0
  BY <1>1, <1>14 DEF NextEntry
<1>15. ASSUME NEW r \in Repos, NextBackup(r)
       PROVE  /\ pc = "next" /\ r \in todo /\ todo' = todo \ {r} /\ repo' = r
              /\ UNCHANGED <<cur, report, faults>>
  BY <1>15 DEF NextBackup
<1>16. CASE Operator
  <2>1. BuildPlan \/ Confirm => Shape
    BY DEF BuildPlan, Confirm, command, Shape
  <2>2. ApplyStart \/ DryRunStart \/ (\E k \in 1..runs : RollbackStart(k))
          => pc' = "next" /\ report' = [r \in Repos |-> "none"]
    BY DEF ApplyStart, DryRunStart, RollbackStart, Begin
  <2>. QED  BY <1>16, <2>1, <2>2 DEF Operator, Shape
<1>17. CASE Crash
  BY <1>17 DEF Crash
<1>18. CASE Finish \/ Owner \/ UNCHANGED vars
  BY <1>18 DEF Finish, Owner, OwnerEdits, vars, command
<1>19. CASE Apply
  BY <1>7, <1>8, <1>9, <1>10, <1>11, <1>14, <1>19 DEF Apply, Shape
<1>20. CASE Undo
  BY <1>10, <1>12, <1>13, <1>15, <1>20 DEF Undo, Shape
<1>. QED  BY <1>16, <1>17, <1>18, <1>19, <1>20 DEF Next, Step

LEMMA ReportedKept ==
  ASSUME JournalInv, Reported, [Next]_vars
  PROVE  Reported'
<1>0. report \in [Repos -> Statuses] /\ todo \subseteq Repos
  BY DEF JournalInv, TypeOK
<1>1. CASE UNCHANGED <<cur, todo, repo, report>> /\ (pc' = pc \/ pc # "next")
  BY <1>1 DEF Reported
<1>2. CASE pc # "next" /\ \E s \in Statuses : Conclude(s)
  <2>1. pc' = "next" /\ todo' = todo /\ \A r \in Repos : r # repo => report'[r] = report[r]
    BY <1>0, <1>2 DEF Conclude
  <2>. QED  BY <1>2, <2>1 DEF Reported
<1>3. CASE \E r \in todo : /\ todo' = todo \ {r}
                           /\ \/ /\ pc' = "next"
                                 /\ \E s \in {"skipped", "failed", "dry_run"} :
                                      report' = [report EXCEPT ![r] = s]
                              \/ repo' = r /\ UNCHANGED report
  BY <1>0, <1>3 DEF Reported
<1>4. CASE pc' = "next" /\ report' = [r \in Repos |-> "none"]
  BY <1>4 DEF Reported
<1>. QED  BY <1>1, <1>2, <1>3, <1>4, CommandShape

LEMMA ReportedInvariant == Spec => []Reported
<1>1. Init => Reported
  BY DEF Init, Reported
<1>2. JournalInv /\ Reported /\ [Next]_vars => Reported'
  BY ReportedKept
<1>. QED  BY <1>1, <1>2, JournalInvariant, PTL DEF Spec

\* An outcome other than skipped, failed or a dry run is either an earlier
\* report of the same command or the end of the current repository's entry.
LEMMA NewReport ==
  ASSUME JournalInv, [Next]_vars, NEW r \in Repos,
         report'[r] \in {"configured", "restored", "unrestored"}
  PROVE  \/ /\ report'[r] = report[r]
            /\ UNCHANGED cur
            /\ faults' = 0 => faults = 0
         \/ /\ r = repo /\ pc # "next"
            /\ Conclude(report'[r])
            /\ faults' = 0 => faults = 0
<1>0. report \in [Repos -> Statuses] /\ todo \subseteq Repos
  BY DEF JournalInv, TypeOK
<1>1. CASE UNCHANGED <<cur, todo, repo, report>> /\ (faults' = 0 => faults = 0)
  BY <1>1
<1>2. CASE pc # "next" /\ (\E s \in Statuses : Conclude(s)) /\ (faults' = 0 => faults = 0)
  <2>1. PICK s \in Statuses : Conclude(s)
    BY <1>2
  <2>2. CASE r = repo
    <3>1. report'[r] = s
      BY <1>0, <2>1, <2>2 DEF Conclude
    <3>. QED  BY <1>2, <2>1, <2>2, <3>1
  <2>3. CASE r # repo
    BY <1>0, <1>2, <2>1, <2>3 DEF Conclude
  <2>. QED  BY <2>2, <2>3
<1>3. CASE /\ \E e \in todo : \/ \E s \in {"skipped", "failed", "dry_run"} :
                                   report' = [report EXCEPT ![e] = s]
                              \/ UNCHANGED report
           /\ UNCHANGED cur /\ (faults' = 0 => faults = 0)
  BY <1>0, <1>3
<1>4. CASE report' = [e \in Repos |-> "none"]
  BY <1>4
<1>. QED  BY <1>1, <1>2, <1>3, <1>4, CommandShape

\* A reported repository is not written to until the command is over.
LEMMA ReportedIsLeftAlone ==
  ASSUME JournalInv, Reported, [Next]_vars, NEW r \in Repos,
         report[r] # "none", edits'[r] = 0
  PROVE  remote'[r] = remote[r] /\ edits[r] = 0
<1>1. ASSUME Changes(r) PROVE FALSE
  BY <1>1, WritesAreMarked DEF MarkedSteps, Reported
<1>. QED  BY <1>1, HistoryGrows DEF JournalInv

\* A step that reports a success or a failed undo: which steps they are.
LEMMA ReportingStep ==
  ASSUME JournalInv, [Next]_vars, pc # "next",
         NEW s \in {"configured", "restored", "unrestored"}, Conclude(s)
  PROVE  \/ /\ s = "configured" /\ Enforced(remote[repo]) /\ pc = "verify"
            /\ UNCHANGED <<remote, backups>>
         \/ /\ s = IF MatchesBefore(remote[repo], Before) THEN "restored" ELSE "unrestored"
            /\ UndoUnmarked \/ UndoVerify
            /\ UNCHANGED <<remote, backups>>
         \/ s = "unrestored" /\ Fault
         \/ s = "unrestored" /\ UndoGate /\ Rejected("unrestored")
<1>0. /\ report' = [report EXCEPT ![repo] = s] /\ pc' = "next" /\ mode' = mode
      /\ report \in [Repos -> Statuses] /\ repo \in Repos /\ mode # "idle"
  BY EntryFacts DEF Conclude, JournalInv, TypeOK, AtEntry
<1>1. ASSUME NEW t, Conclude(t) PROVE t = s
  BY <1>0, <1>1 DEF Conclude
<1>2. ASSUME NEW p, NEW label \in PCs \ {"next"}, NEW t, Write(p, label, t)
      PROVE  t = s /\ Fault
  BY <1>0, <1>1, <1>2 DEF Write, Goto
<1>3. Verify \/ (\E r \in Repos : NextEntry(r)) \/ Bootstrap \/ Mark \/ PutClassic
        \/ ListGate \/ UpdateGate \/ CreateGate
        => /\ s = "configured" /\ Enforced(remote[repo]) /\ pc = "verify"
           /\ UNCHANGED <<remote, backups>>
  <2>1. CASE Verify
    BY <1>0, <1>1, <2>1 DEF Verify, Goto, github, disk
  <2>2. ~\E r \in Repos : NextEntry(r)
    BY DEF NextEntry
  <2>3. ~Bootstrap /\ ~Mark /\ ~ListGate
    BY <1>0, <1>1 DEF Bootstrap, Mark, ListGate, Goto
  <2>4. ~PutClassic /\ ~UpdateGate /\ ~CreateGate
    BY <1>1, <1>2 DEF PutClassic, UpdateGate, CreateGate, Rejected, PCs
  <2>. QED  BY <2>1, <2>2, <2>3, <2>4
<1>4. CASE UndoUnmarked \/ UndoVerify
  <2>1. UNCHANGED <<remote, backups>> /\ Compare
    BY <1>4 DEF UndoUnmarked, UndoVerify, github, disk
  <2>. QED  BY <1>1, <1>4, <2>1 DEF Compare
<1>5. CASE UndoList
  BY <1>0, <1>1, <1>5 DEF UndoList
<1>6. CASE UndoClassic
  BY <1>2, <1>6 DEF UndoClassic, PCs
<1>7. CASE UndoGate
  <2>1. \/ \E p : Write(p, "undoClassic", "unrestored")
        \/ Goto("undoClassic")
        \/ Rejected("unrestored")
    BY <1>7 DEF UndoGate
  <2>. QED  BY <1>0, <1>1, <1>2, <1>7, <2>1 DEF Goto, Rejected, PCs
<1>8. ~\E r \in Repos : NextBackup(r)
  BY DEF NextBackup
<1>9. ~Operator
  BY <1>0 DEF Operator, BuildPlan, Confirm, ApplyStart, DryRunStart, RollbackStart, Begin
<1>10. ~Finish /\ ~Crash /\ ~Owner /\ ~UNCHANGED vars
  BY <1>0 DEF Finish, Crash, Owner, OwnerEdits, vars, command
<1>. QED  BY <1>3, <1>4, <1>5, <1>6, <1>7, <1>8, <1>9, <1>10 DEF Next, Step, Apply, Undo

LEMMA EnforcedProtects ==
  ASSUME NEW p \in Protection, Enforced(p)
  PROVE  /\ \/ p.classic # None /\ p.classic.gate = "bound"
            \/ p.gate # None /\ p.gate.body # "unbound"
         /\ p.classic # None => p.classic.gate # "foreign" /\ p.classic.approvals = "zero"
  BY DEF Enforced, CheckBound

\* The classic protection of the current repository is the planned one until
\* apply writes, and keeps what it must afterwards.
AsPlanned ==
  pc \in ApplySteps /\ edits[repo] = 0 =>
    /\ pc # "verify" => remote[repo].classic = plan[repo].classic
    /\ pc = "verify" => ClassicKept(remote[repo], plan[repo])

\* What a step of the current entry does to its classic protection.
LEMMA ClassicStep ==
  ASSUME JournalInv, [Next]_vars, pc \in ApplySteps, pc' \in ApplySteps
  PROVE  /\ UNCHANGED <<repo, plan>> /\ repo \in Repos /\ remote[repo] \in Protection
         /\ \/ remote'[repo].classic = remote[repo].classic /\ pc # "verify"
            \/ /\ pc = "putClassic" /\ pc' = "verify"
               /\ remote'[repo].classic = Configured(plan[repo].classic)
            \/ pc' = pc /\ (Owner \/ UNCHANGED <<remote, edits>>)
<1>0. /\ pc # "next" /\ repo \in Repos /\ remote[repo] \in Protection
      /\ remote \in [Repos -> Protection] /\ mode # "idle"
      /\ pc' \notin {"next", "undo", "undoGate", "undoClassic", "undoVerify"}
      /\ pc \notin {"undo", "undoGate", "undoClassic", "undoVerify"}
  <2>1. pc # "next"
    BY DEF ApplySteps
  <2>. QED  BY <2>1, EntryFacts DEF JournalInv, TypeOK, AtEntry, ApplySteps
<1>1. ASSUME NEW p, NEW label, NEW onError, Write(p, label, onError)
      PROVE  remote'[repo] = p /\ Goto(label)
  BY <1>0, <1>1 DEF Write, Conclude
<1>2. ~ \E s : Conclude(s)
  BY <1>0 DEF Conclude
<1>3. CASE PutClassic
  <2>1. /\ pc = "putClassic" /\ pc' = "verify" /\ UNCHANGED <<repo, plan>>
        /\ remote'[repo] = [remote[repo] EXCEPT !.classic = Configured(plan[repo].classic)]
    BY <1>1, <1>3 DEF PutClassic, Goto, disk
  <2>. QED  BY <1>0, <2>1 DEF Protection
<1>4. CASE UpdateGate \/ CreateGate
  <2>1. UNCHANGED <<repo, plan>> /\ pc = "writeGate"
    BY <1>1, <1>2, <1>4 DEF UpdateGate, CreateGate, Rejected, Goto, disk
  <2>2. \/ remote'[repo] = [remote[repo] EXCEPT !.gate.body = "configured"]
        \/ remote'[repo] = [remote[repo] EXCEPT !.gate = [id |-> ids[repo] + 1,
                                                         body |-> "configured"]]
    BY <1>1, <1>2, <1>4 DEF UpdateGate, CreateGate, Rejected
  <2>. QED  BY <1>0, <2>1, <2>2 DEF Protection
<1>5. CASE Bootstrap \/ Mark \/ ListGate
  BY <1>0, <1>2, <1>5 DEF Bootstrap, Mark, ListGate, Goto, github, disk
<1>6. ~Verify /\ ~(\E r \in Repos : NextEntry(r)) /\ ~Undo
  BY <1>0, <1>2 DEF Verify, NextEntry, Goto, Undo, NextBackup, UndoUnmarked, UndoList, UndoGate,
     UndoClassic, UndoVerify
<1>7. ~Operator /\ ~Finish /\ ~Crash
  BY <1>0 DEF Operator, BuildPlan, Confirm, ApplyStart, DryRunStart, RollbackStart, Begin,
     Finish, Crash
<1>8. CASE Owner
  BY <1>0, <1>8 DEF Owner, OwnerEdits, disk, command
<1>9. CASE UNCHANGED vars
  BY <1>0, <1>9 DEF vars, github, disk, command, history
<1>. QED  BY <1>3, <1>4, <1>5, <1>6, <1>7, <1>8, <1>9 DEF Next, Step, Apply

\* The three ways a classic protection is kept.
LEMMA ClassicKeptFacts ==
  ASSUME NEW p \in Protection, NEW b \in Protection
  PROVE  /\ p.classic = b.classic => ClassicKept(p, b)
         /\ b.classic # None /\ ~HasRulesets(b) /\ p.classic = Configured(b.classic)
              => ClassicKept(p, b)
<1>1. p.classic = b.classic => ClassicKept(p, b)
  BY DEF ClassicKept
<1>2. ASSUME b.classic # None, ~HasRulesets(b), p.classic = Configured(b.classic)
      PROVE  ClassicKept(p, b)
  <2>1. b.classic \in Classic
    BY <1>2, ProtectionParts
  <2>2. p.classic \in Classic /\ p.classic # None /\ p.classic.people = b.classic.people
    BY <1>2, <2>1, NoneAssumption DEF Configured, Classic
  <2>. QED  BY <1>2, <2>2 DEF ClassicKept
<1>. QED  BY <1>1, <1>2

LEMMA AsPlannedKept ==
  ASSUME JournalInv, AsPlanned, [Next]_vars
  PROVE  AsPlanned'
<1> SUFFICES ASSUME pc' \in ApplySteps, edits'[repo'] = 0
             PROVE  /\ pc' # "verify" => remote'[repo'].classic = plan'[repo'].classic
                    /\ pc' = "verify" => ClassicKept(remote'[repo'], plan'[repo'])
  BY DEF AsPlanned, ClassicKept, HasRulesets
<1>0. TypeOK
  BY DEF JournalInv
<1>1. CASE pc \notin ApplySteps
  <2>1. PICK r \in Repos : NextEntry(r) /\ pc' = "bootstrap"
    <3>1. Apply => \E r \in Repos : NextEntry(r) /\ pc' = "bootstrap"
      BY <1>1 DEF Apply, NextEntry, Bootstrap, Mark, PutClassic, ListGate, UpdateGate, CreateGate,
         Verify, ApplySteps
    <3>2. ~Undo
      BY DEF Undo, NextBackup, UndoUnmarked, UndoList, UndoGate, UndoClassic, UndoVerify,
         Compare, Write, Rejected, Goto, Conclude, ApplySteps
    <3>3. ~Operator /\ ~Finish /\ ~Crash /\ ~Owner /\ ~UNCHANGED vars
      BY <1>1 DEF Operator, BuildPlan, Confirm, ApplyStart, DryRunStart, RollbackStart, Begin,
         Finish, Crash, Owner, OwnerEdits, vars, command, ApplySteps
    <3>. QED  BY <3>1, <3>2, <3>3 DEF Next, Step
  <2>2. repo' = r /\ UNCHANGED <<remote, plan>>
        /\ \E listed \in BOOLEAN : View(remote[r], listed) = plan[r]
    BY <2>1 DEF NextEntry, github, disk
  <2>3. remote[r] \in Protection
    BY <1>0 DEF TypeOK
  <2>4. plan[r].classic = remote[r].classic
    BY <2>2, <2>3 DEF View, Protection
  <2>. QED  BY <2>1, <2>2, <2>4
<1>2. CASE pc \in ApplySteps
  <2>0. /\ UNCHANGED <<repo, plan>> /\ repo \in Repos /\ remote[repo] \in Protection
        /\ mode = "apply" /\ plan[repo] \in Protection /\ ~Skips(repo, plan[repo])
        /\ pc = "putClassic" => ~HasRulesets(plan[repo])
    <3>1. pc # "next"
      BY <1>2 DEF ApplySteps
    <3>. QED  BY <1>2, <3>1, ClassicStep, EntryFacts DEF JournalInv, AtEntry
  <2>1. edits[repo] = 0 /\ (remote'[repo] # remote[repo] => Changes(repo))
        /\ remote'[repo] \in Protection
    <3>1. TypeOK'
      BY NextJournalInv DEF JournalInv
    <3>. QED  BY <1>0, <2>0, <3>1, HistoryGrows DEF TypeOK
  <2>2. CASE remote'[repo].classic = remote[repo].classic /\ pc # "verify"
    BY <1>2, <2>0, <2>1, <2>2, ClassicKeptFacts DEF AsPlanned
  <2>3. CASE /\ pc = "putClassic" /\ pc' = "verify"
             /\ remote'[repo].classic = Configured(plan[repo].classic)
    <3>1. plan[repo].classic # None
      BY <2>0, <2>3 DEF Skips
    <3>. QED  BY <2>0, <2>1, <2>3, <3>1, ClassicKeptFacts
  <2>4. CASE pc' = pc /\ (Owner \/ UNCHANGED <<remote, edits>>)
    <3>1. Owner => edits' # edits
      BY <1>0 DEF Owner, OwnerEdits, TypeOK
    <3>2. remote'[repo] = remote[repo]
      BY <2>1, <2>4, <3>1 DEF Changes
    <3>. QED  BY <1>2, <2>0, <2>1, <2>4, <3>2 DEF AsPlanned
  <2>. QED  BY <1>2, <2>2, <2>3, <2>4, ClassicStep
<1>. QED  BY <1>1, <1>2

\* A repository reported as configured has its entry in the file in use.
ConfiguredInFile ==
  \A r \in Repos : report[r] = "configured" => cur \in 1..MaxApplies /\ backups[cur][r] # None

\* A repository reported as configured requires the App's check and no human
\* approval in its classic protection, and that protection is otherwise the
\* one of the snapshot, as long as the owner leaves it alone.
THEOREM ConfiguredMeansEnforced == Spec => []ConfiguredIsEnforced
<1>1. Init => AsPlanned /\ ConfiguredInFile /\ ConfiguredIsEnforced
  BY DEF Init, AsPlanned, ApplySteps, ConfiguredInFile, ConfiguredIsEnforced
<1>2. ASSUME JournalInv, Reported, AsPlanned, ConfiguredInFile, ConfiguredIsEnforced, [Next]_vars
      PROVE  ConfiguredInFile' /\ ConfiguredIsEnforced'
  <2> DEFINE Fine(p, b) ==
        /\ \/ p.classic # None /\ p.classic.gate = "bound"
           \/ p.gate # None /\ p.gate.body # "unbound"
        /\ p.classic # None => p.classic.gate # "foreign" /\ p.classic.approvals = "zero"
        /\ ClassicKept(p, b)
  <2> SUFFICES ASSUME NEW r \in Repos, report'[r] = "configured"
               PROVE  /\ cur' \in 1..MaxApplies /\ backups'[cur'][r] # None
                      /\ edits'[r] = 0 => Fine(remote'[r], backups'[cur'][r].before)
    BY DEF ConfiguredInFile, ConfiguredIsEnforced, ClassicKept, HasRulesets
  <2>0. ~ApplyStart
    BY DEF ApplyStart, Begin
  <2>1. CASE report[r] = "configured" /\ cur' = cur
    <3>1. cur \in 1..MaxApplies /\ backups[cur][r] # None
      BY <1>2, <2>1 DEF ConfiguredInFile
    <3>2. backups'[cur][r] # None /\ backups'[cur][r].before = backups[cur][r].before
      BY <1>2, <2>0, <3>1, EntriesKept
    <3>3. edits'[r] = 0 => remote'[r] = remote[r] /\ edits[r] = 0
      BY <1>2, <2>1, ReportedIsLeftAlone
    <3>4. edits[r] = 0 => Fine(remote[r], backups[cur][r].before)
      BY <1>2, <2>1 DEF ConfiguredIsEnforced
    <3> HIDE DEF Fine
    <3>. QED  BY <2>1, <3>1, <3>2, <3>3, <3>4
  <2>2. CASE r = repo /\ pc # "next" /\ Conclude("configured")
    <3>1. /\ Enforced(remote[r]) /\ UNCHANGED <<remote, backups, cur>>
          /\ pc = "verify"
      BY <1>2, <2>2, ReportingStep DEF Conclude
    <3>2. /\ remote[r] \in Protection /\ cur \in 1..MaxApplies /\ backups[cur][r] # None
          /\ mode = "apply" /\ backups[cur][r].before = plan[r]
      BY <1>2, <2>2, <3>1, EntryFacts DEF JournalInv, AtEntry, InUse, ApplySteps
    <3>3. edits'[r] = 0 => ClassicKept(remote[r], plan[r])
      <4>1. edits'[r] = 0 => edits[r] = 0
        BY <1>2, HistoryGrows DEF JournalInv
      <4>. QED  BY <1>2, <2>2, <3>1, <4>1 DEF AsPlanned, ApplySteps
    <3>4. edits'[r] = 0 => Fine(remote[r], plan[r])
      BY <3>1, <3>2, <3>3, EnforcedProtects
    <3> HIDE DEF Fine
    <3>. QED  BY <3>1, <3>2, <3>4
  <2>. QED  BY <1>2, <2>1, <2>2, NewReport
<1>3. JournalInv /\ AsPlanned /\ [Next]_vars => AsPlanned'
  BY AsPlannedKept
<1>. QED  BY <1>1, <1>2, <1>3, JournalInvariant, ReportedInvariant, PTL DEF Spec

-----------------------------------------------------------------------------
(* What "restored" says.                                                    *)

\* A repository reported as restored has its entry in the file in use.
InFile ==
  \A r \in Repos : report[r] = "restored" => cur \in 1..MaxApplies /\ backups[cur][r] # None

\* The payload written back differs in the names of its lists only.
LEMMA NamesOnly ==
  ASSUME NEW c \in Classic \cup {None}
  PROVE  ForgetPeople(Renormalize(c)) = ForgetPeople(c)
<1>1. CASE c = None
  BY <1>1 DEF ForgetPeople, Renormalize
<1>2. CASE c # None
  <2>1. Renormalize(c) \in Classic /\ Renormalize(c) # None
    BY <1>2, NoneAssumption DEF Renormalize, Classic
  <2>. QED  BY <1>2, <2>1 DEF ForgetPeople, Renormalize, Classic
<1>. QED  BY <1>1, <1>2

LEMMA RestoredKept ==
  ASSUME JournalInv, Reported, InFile, RestoredIsBefore, [Next]_vars
  PROVE  InFile' /\ RestoredIsBefore'
<1> SUFFICES ASSUME NEW r \in Repos, report'[r] = "restored"
             PROVE  /\ cur' \in 1..MaxApplies /\ backups'[cur'][r] # None
                    /\ edits'[r] = 0 =>
                         /\ SameGate(remote'[r].gate, backups'[cur'][r].before.gate)
                         /\ ForgetPeople(remote'[r].classic)
                              = ForgetPeople(backups'[cur'][r].before.classic)
  BY DEF InFile, RestoredIsBefore
<1>1. CASE report[r] = "restored" /\ cur' = cur
  <2>1. cur \in 1..MaxApplies /\ backups[cur][r] # None
    BY <1>1 DEF InFile
  <2>2. backups'[cur][r] # None /\ backups'[cur][r].before = backups[cur][r].before
    <3>1. ~ApplyStart
      BY DEF ApplyStart, Begin
    <3>. QED  BY <2>1, <3>1, EntriesKept
  <2>3. edits'[r] = 0 => remote'[r] = remote[r] /\ edits[r] = 0
    BY <1>1, ReportedIsLeftAlone
  <2>. QED  BY <1>1, <2>1, <2>2, <2>3 DEF RestoredIsBefore
<1>2. CASE r = repo /\ pc # "next" /\ Conclude("restored")
  <2>1. MatchesBefore(remote[r], backups[cur][r].before) /\ UNCHANGED <<remote, backups, cur>>
    BY <1>2, ReportingStep DEF Before, Conclude
  <2>2. cur \in 1..MaxApplies /\ backups[cur][r] # None
        /\ backups[cur][r].before \in Protection
    BY <1>2, EntryFacts DEF JournalInv, AtEntry, Before
  <2>3. backups[cur][r].before.classic \in Classic \cup {None}
    BY <2>2, ProtectionParts
  <2>. QED  BY <2>1, <2>2, <2>3, NamesOnly DEF MatchesBefore
<1>. QED  BY <1>1, <1>2, NewReport

\* A repository reported as restored is as the backup recorded it, but for
\* the names in its lists.
THEOREM RestoredMeansBefore == Spec => []RestoredIsBefore
<1>1. Init => InFile /\ RestoredIsBefore
  BY DEF Init, InFile, RestoredIsBefore
<1>2. JournalInv /\ Reported /\ InFile /\ RestoredIsBefore /\ [Next]_vars
        => InFile' /\ RestoredIsBefore'
  BY RestoredKept
<1>. QED  BY <1>1, <1>2, JournalInvariant, ReportedInvariant, PTL DEF Spec

-----------------------------------------------------------------------------
(* A rollback that meets no failed call completes.  All of it is about a     *)
(* history with one file, which holds the protections the first command      *)
(* found, and about repositories without a hole or a replaced mark.          *)

Whole == Repos \ (holed \cup lost)

\* While nothing is marked the plan is the starting point; the only file
\* records it; and the gate ruleset it names is still there, under its id.
FirstFile ==
  \A r \in Whole : edits[r] = 0 =>
    /\ (\A k \in 1..runs : ~Marked(k, r)) => plan[r] \in {None, initial[r]}
    /\ runs = 1 /\ backups[1][r] # None => backups[1][r].before = initial[r]
    /\ runs \in {0, 1} /\ initial[r].gate # None
         => remote[r].gate # None /\ remote[r].gate.id = initial[r].gate.id

\* What an undo has achieved at each of its steps.
Undoing ==
  pc # "next" /\ repo \in Whole /\ edits[repo] = 0 /\ runs = 1 =>
    /\ pc = "undoGate" => seen = remote[repo].gate
    /\ pc \in {"undoClassic", "undoVerify"} => SameGate(remote[repo].gate, initial[repo].gate)
    /\ pc = "undoVerify" => remote[repo].classic = Renormalize(initial[repo].classic)

\* RollbackCompletes, for the reports of an apply too.
Completes ==
  \A r \in Whole : runs = 1 /\ faults = 0 /\ edits[r] = 0 /\ Lossless(initial[r])
    => report[r] # "unrestored"

\* What a write does to the gate ruleset of the current repository.
LEMMA GateRewritten ==
  ASSUME JournalInv, [Next]_vars, NEW r \in Repos, Changes(r)
  PROVE  /\ r = repo
         /\ \/ remote'[r].gate = remote[r].gate
            \/ /\ remote[r].gate # None /\ remote'[r].gate # None
               /\ remote'[r].gate.id = remote[r].gate.id
            \/ remote[r].gate = None
            \/ remote'[r].gate = Before.gate
<1>0. r = repo /\ pc # "next" /\ remote' # remote
  BY WritesAreMarked DEF MarkedSteps, Changes
<1>1. remote \in [Repos -> Protection] /\ remote[r] \in Protection /\ Before \in Protection
      /\ edits' = edits
  BY <1>0, EntryFacts DEF JournalInv, TypeOK, Changes
<1>2. ASSUME NEW p, NEW label, NEW s, Write(p, label, s)
      PROVE  remote'[r] = p
  BY <1>0, <1>1, <1>2 DEF Write
<1>3. /\ \A c : [remote[r] EXCEPT !.classic = c].gate = remote[r].gate
      /\ \A g : [remote[r] EXCEPT !.gate = g].gate = g
  BY <1>1 DEF Protection
<1>4. CASE PutClassic \/ UndoClassic
  <2>1. \E c : remote'[r] = [remote[r] EXCEPT !.classic = c]
    BY <1>0, <1>2, <1>4 DEF PutClassic, UndoClassic
  <2>. QED  BY <1>0, <1>3, <2>1
<1>5. CASE UpdateGate
  <2>1. remote[r].gate # None /\ remote'[r] = [remote[r] EXCEPT !.gate.body = "configured"]
    BY <1>0, <1>2, <1>5 DEF UpdateGate, Rejected
  <2>2. remote[r].gate \in Gate
    BY <1>1, <2>1, ProtectionParts
  <2>3. remote'[r].gate = [remote[r].gate EXCEPT !.body = "configured"]
    BY <1>1, <2>1 DEF Protection
  <2>4. remote'[r].gate \in Gate /\ remote'[r].gate.id = remote[r].gate.id
    BY <2>2, <2>3 DEF Gate, Bodies
  <2>. QED  BY <1>0, <2>1, <2>4, NoneAssumption
<1>6. CASE CreateGate
  <2>1. remote[r].gate = None
    BY <1>0, <1>6 DEF CreateGate, Rejected
  <2>. QED  BY <1>0, <1>6, <2>1
<1>7. CASE UndoGate
  <2>1. remote'[r] = [remote[r] EXCEPT !.gate = Before.gate]
    BY <1>0, <1>2, <1>7 DEF UndoGate, Rejected
  <2>. QED  BY <1>0, <1>3, <2>1
<1>8. CASE ~(PutClassic \/ UpdateGate \/ CreateGate \/ UndoGate \/ UndoClassic)
  <2>1. ~(Apply \/ Undo)
    BY <1>0, <1>8 DEF Apply, NextEntry, Bootstrap, Mark, ListGate, Verify, github,
       Undo, NextBackup, UndoUnmarked, UndoList, UndoVerify
  <2>2. ~Operator /\ ~Finish /\ ~Crash /\ ~UNCHANGED vars
    BY <1>0 DEF Operator, BuildPlan, Confirm, ApplyStart, DryRunStart, RollbackStart, github,
       Finish, Crash, vars
  <2>3. ~Owner
    BY <1>1 DEF Owner, OwnerEdits, JournalInv, TypeOK
  <2>. QED  BY <2>1, <2>2, <2>3 DEF Next, Step
<1>. QED  BY <1>4, <1>5, <1>6, <1>7, <1>8

\* Only a new plan changes the plan.
LEMMA PlanChange == [Next]_vars => BuildPlan \/ UNCHANGED plan
<1>1. Apply => UNCHANGED plan
  BY DEF Apply, NextEntry, Bootstrap, Mark, PutClassic, ListGate, UpdateGate, CreateGate, Verify,
     disk
<1>2. Undo => UNCHANGED plan
  BY DEF Undo, NextBackup, UndoUnmarked, UndoList, UndoGate, UndoClassic, UndoVerify, disk
<1>3. Operator => BuildPlan \/ UNCHANGED plan
  BY DEF Operator, Confirm, ApplyStart, DryRunStart, RollbackStart, disk
<1>4. Finish \/ Crash \/ Owner => UNCHANGED plan
  BY DEF Finish, Crash, Owner, OwnerEdits, disk
<1>. QED  BY <1>1, <1>2, <1>3, <1>4 DEF Next, Step, vars, disk

\* A repository that is whole after a step was whole before it, and what
\* happens to it then.
LEMMA WholeShrinks ==
  ASSUME TypeOK, [Next]_vars, NEW r \in Whole', edits'[r] = 0
  PROVE  /\ r \in Whole /\ r \in Repos /\ r \notin holed' /\ r \notin lost'
         /\ edits[r] = 0 /\ initial' = initial
         /\ remote'[r] # remote[r] => Changes(r)
<1>1. r \in Repos /\ r \notin holed' /\ r \notin lost'
  BY DEF Whole
<1>. QED  BY <1>1, HistoryGrows DEF Whole

\* What an apply puts in its file, seen from the only file there is.
LEMMA OnlyFile ==
  ASSUME TypeOK, ApplyStart, runs' = 1
  PROVE  /\ runs \in {0, 1} /\ 1 \in 1..MaxApplies /\ backups'[1] = CollectBackup
         /\ \A r \in Repos \ lost' : ~Marked(1, r)
<1>1. PICK k \in {runs, runs + 1} \cap 1..MaxApplies :
        /\ runs' = k
        /\ backups' = [backups EXCEPT ![k] = CollectBackup]
        /\ lost' = lost \cup {r \in Repos : Marked(k, r)}
  BY DEF ApplyStart
<1>2. k = 1 /\ runs \in {0, 1} /\ 1 \in 1..MaxApplies
  BY <1>1 DEF TypeOK
<1>. QED  BY <1>1, <1>2 DEF TypeOK

LEMMA FirstFileKept ==
  ASSUME JournalInv, FirstMark, FirstFile, [Next]_vars
  PROVE  FirstFile'
<1> SUFFICES ASSUME NEW r \in Whole', edits'[r] = 0
             PROVE  /\ (\A k \in 1..runs' : ~Marked(k, r)') => plan'[r] \in {None, initial'[r]}
                    /\ runs' = 1 /\ backups'[1][r] # None => backups'[1][r].before = initial'[r]
                    /\ runs' \in {0, 1} /\ initial'[r].gate # None
                         => /\ remote'[r].gate # None
                            /\ remote'[r].gate.id = initial'[r].gate.id
  BY DEF FirstFile, Marked
<1>0. /\ TypeOK /\ r \in Whole /\ r \in Repos /\ r \notin holed' /\ r \notin lost'
      /\ edits[r] = 0 /\ initial' = initial /\ runs \in 0..MaxApplies
      /\ remote'[r] # remote[r] => Changes(r)
      /\ MaxApplies \in Nat
  BY WholeShrinks, ConstantsAssumption DEF JournalInv, TypeOK
<1>1. (\A k \in 1..runs : ~Marked(k, r)) => remote[r] = initial[r]
  BY <1>0 DEF FirstMark, Whole
<1>2. (\A k \in 1..runs' : ~Marked(k, r)') => plan'[r] \in {None, initial'[r]}
  <2> SUFFICES ASSUME \A k \in 1..runs' : ~Marked(k, r)' PROVE plan'[r] \in {None, initial[r]}
    BY <1>0
  <2>1. \A k \in 1..runs : ~Marked(k, r)
    BY <1>0, MarksKept
  <2>2. CASE BuildPlan
    <3>1. /\ plan'[r] = None \/ r \in Scope
          /\ holed' = holed \cup {e \in Scope : plan'[e] # remote[e]}
      BY <1>0, <2>2 DEF BuildPlan
    <3>2. plan'[r] = None \/ plan'[r] = remote[r]
      BY <1>0, <3>1
    <3>. QED  BY <1>1, <2>1, <3>2
  <2>3. CASE UNCHANGED plan
    BY <1>0, <2>1, <2>3 DEF FirstFile
  <2>. QED  BY <2>2, <2>3, PlanChange
<1>3. runs' = 1 /\ backups'[1][r] # None => backups'[1][r].before = initial'[r]
  <2> SUFFICES ASSUME runs' = 1, backups'[1][r] # None PROVE backups'[1][r].before = initial[r]
    BY <1>0
  <2>1. CASE ApplyStart
    <3>1. runs \in {0, 1} /\ backups'[1] = CollectBackup /\ ~Marked(1, r)
      BY <1>0, <2>1, OnlyFile
    <3>2. plan[r] # None /\ CollectBackup[r] = [before |-> plan[r], started |-> FALSE]
      BY <1>0, <3>1 DEF CollectBackup
    <3>3. plan[r] = initial[r]
      <4>1. \A k \in 1..runs : ~Marked(k, r)
        BY <3>1
      <4>. QED  BY <1>0, <3>2, <4>1 DEF FirstFile
    <3>. QED  BY <3>1, <3>2, <3>3
  <2>2. CASE ~ApplyStart
    <3>1. runs = 1 /\ 1 \in 1..MaxApplies
      BY <1>0, <2>2, BackupsChange DEF Mark
    <3>2. backups[1][r] # None
      <4>1. CASE Mark /\ cur = 1 /\ repo = r
        BY <4>1 DEF Mark, JournalInv, AtEntry
      <4>2. CASE Mark /\ ~(cur = 1 /\ repo = r)
        <5>1. repo \in Repos /\ cur \in 1..MaxApplies
          BY <4>2, EntryFacts DEF Mark
        <5>2. backups' = [backups EXCEPT ![cur][repo].started = TRUE]
          BY <4>2 DEF Mark
        <5>3. backups'[1][r] = backups[1][r]
          BY <1>0, <3>1, <4>2, <5>1, <5>2 DEF TypeOK
        <5>. QED  BY <5>3
      <4>3. CASE UNCHANGED backups
        BY <4>3
      <4>. QED  BY <2>2, <4>1, <4>2, <4>3, BackupsChange
    <3>3. backups'[1][r].before = backups[1][r].before
      BY <1>0, <2>2, <3>1, <3>2, EntriesKept
    <3>. QED  BY <1>0, <3>1, <3>2, <3>3 DEF FirstFile
  <2>. QED  BY <2>1, <2>2
<1>4. runs' \in {0, 1} /\ initial'[r].gate # None
        => remote'[r].gate # None /\ remote'[r].gate.id = initial'[r].gate.id
  <2> SUFFICES ASSUME runs' \in {0, 1}, initial[r].gate # None
               PROVE  remote'[r].gate # None /\ remote'[r].gate.id = initial[r].gate.id
    BY <1>0
  <2>1. runs \in {0, 1}
    <3>1. CASE ApplyStart
      BY <1>0, <3>1 DEF ApplyStart
    <3>2. CASE ~ApplyStart
      BY <3>2, BackupsChange DEF Mark
    <3>. QED  BY <3>1, <3>2
  <2>2. remote[r].gate # None /\ remote[r].gate.id = initial[r].gate.id
    BY <1>0, <2>1 DEF FirstFile
  <2>3. CASE Changes(r)
    <3>1. r = repo /\ pc # "next" /\ cur \in 1..runs /\ backups[cur][r] # None
      BY <1>0, <2>3, WritesAreMarked, EntryFacts DEF MarkedSteps, JournalInv, AtEntry
    <3>2. runs = 1 /\ cur = 1
      BY <2>1, <3>1
    <3>3. Before.gate = initial[r].gate
      BY <1>0, <3>1, <3>2 DEF FirstFile, Before
    <3>. QED  BY <1>0, <2>2, <2>3, <3>3, GateRewritten
  <2>. QED  BY <1>0, <2>2, <2>3
<1>. QED  BY <1>2, <1>3, <1>4

\* The step that leads to each label of an undo.
LEMMA UndoStep ==
  ASSUME JournalInv, [Next]_vars, pc' \in {"undoGate", "undoClassic", "undoVerify"}
  PROVE  /\ pc # "next" /\ UNCHANGED <<repo, runs, initial>>
         /\ \/ /\ pc' = "undoGate" /\ seen' = remote[repo].gate
               /\ UNCHANGED <<remote, edits>>
            \/ /\ pc = "undoGate" /\ pc' = "undoClassic" /\ UNCHANGED edits
               /\ \/ remote' = [remote EXCEPT ![repo].gate = Before.gate]
                  \/ UNCHANGED remote /\ Before.gate = None /\ seen = None
            \/ /\ pc = "undoClassic" /\ pc' = "undoVerify" /\ UNCHANGED edits
               /\ remote' = [remote EXCEPT ![repo].classic = Renormalize(Before.classic)]
            \/ UNCHANGED <<pc, seen>> /\ (Owner \/ UNCHANGED <<remote, edits>>)
<1>0. remote \in [Repos -> Protection]
  BY DEF JournalInv, TypeOK
<1>1. CASE Apply
  BY <1>1 DEF Apply, NextEntry, Bootstrap, Mark, PutClassic, ListGate, UpdateGate, CreateGate,
     Verify, Write, Rejected, Goto, Conclude
<1>2. CASE UndoList
  BY <1>2 DEF UndoList, Conclude, github, disk, history
<1>3. CASE UndoGate
  <2>1. pc = "undoGate" /\ UNCHANGED <<disk, history>>
    BY <1>3 DEF UndoGate
  <2>2. \/ Write([remote[repo] EXCEPT !.gate = Before.gate], "undoClassic", "unrestored")
        \/ /\ Goto("undoClassic") /\ UNCHANGED remote
           /\ (IF Before.gate # None THEN Before.gate ELSE seen) = None
        \/ Conclude("unrestored")
    BY <1>3 DEF UndoGate, Rejected
  <2>3. \/ /\ Goto("undoClassic")
           /\ remote' = [remote EXCEPT ![repo] = [remote[repo] EXCEPT !.gate = Before.gate]]
        \/ /\ Goto("undoClassic") /\ UNCHANGED remote
           /\ Before.gate = None /\ seen = None
    BY <2>2 DEF Write, Conclude
  <2>. QED  BY <2>1, <2>3 DEF Goto, disk, history
<1>4. CASE UndoClassic
  <2>1. pc = "undoClassic" /\ UNCHANGED <<disk, history>>
    BY <1>4 DEF UndoClassic
  <2>2. /\ Goto("undoVerify")
        /\ remote' = [remote EXCEPT ![repo] = [remote[repo] EXCEPT
                                                 !.classic = Renormalize(Before.classic)]]
    BY <1>4 DEF UndoClassic, Write, Conclude
  <2>. QED  BY <2>1, <2>2 DEF Goto, disk, history
<1>5. ~((\E r \in Repos : NextBackup(r)) \/ UndoUnmarked \/ UndoVerify)
  BY DEF NextBackup, UndoUnmarked, UndoVerify, Compare, Conclude
<1>6. CASE Operator
  BY <1>6 DEF Operator, BuildPlan, Confirm, ApplyStart, DryRunStart, RollbackStart, Begin,
     command, JournalInv, AtEntry
<1>7. CASE Owner
  <2>1. UNCHANGED <<disk, command, initial>>
    BY <1>7 DEF Owner, OwnerEdits
  <2>. QED  BY <1>7, <2>1 DEF disk, command
<1>8. CASE UNCHANGED vars
  BY <1>8 DEF vars, github, disk, command, history
<1>9. ~Finish /\ ~Crash
  BY DEF Finish, Crash
<1>. QED  BY <1>1, <1>2, <1>3, <1>4, <1>5, <1>6, <1>7, <1>8, <1>9 DEF Next, Step, Undo

LEMMA UndoingKept ==
  ASSUME JournalInv, FirstFile, Undoing, [Next]_vars
  PROVE  Undoing'
<1> SUFFICES ASSUME pc' \in {"undoGate", "undoClassic", "undoVerify"},
                    repo' \in Whole', edits'[repo'] = 0, runs' = 1
             PROVE  /\ pc' = "undoGate" => seen' = remote'[repo'].gate
                    /\ pc' \in {"undoClassic", "undoVerify"}
                         => SameGate(remote'[repo'].gate, initial'[repo'].gate)
                    /\ pc' = "undoVerify"
                         => remote'[repo'].classic = Renormalize(initial'[repo'].classic)
  BY DEF Undoing, Whole
<1>0. /\ pc # "next" /\ UNCHANGED <<repo, runs, initial>> /\ runs = 1
      /\ repo \in Repos /\ cur = 1 /\ backups[1][repo] # None
      /\ remote \in [Repos -> Protection] /\ remote[repo] \in Protection
  BY UndoStep, EntryFacts DEF JournalInv, AtEntry, TypeOK
<1>1. repo \in Whole /\ edits[repo] = 0 /\ (remote'[repo] # remote[repo] => Changes(repo))
  BY <1>0, WholeShrinks DEF JournalInv
<1>2. Before = initial[repo]
  BY <1>0, <1>1 DEF FirstFile, Before
<1>4. CASE pc' = "undoGate" /\ seen' = remote[repo].gate /\ UNCHANGED remote
  BY <1>0, <1>4
<1>5. CASE /\ pc = "undoGate" /\ pc' = "undoClassic"
           /\ \/ remote' = [remote EXCEPT ![repo].gate = Before.gate]
              \/ UNCHANGED remote /\ Before.gate = None /\ seen = None
  <2>1. CASE remote' = [remote EXCEPT ![repo].gate = Before.gate]
    <3>1. remote'[repo].gate = initial[repo].gate
      BY <1>0, <1>2, <2>1 DEF Protection
    <3>. QED  BY <1>0, <1>5, <3>1 DEF SameGate
  <2>2. CASE UNCHANGED remote /\ Before.gate = None /\ seen = None
    <3>1. remote'[repo].gate = None /\ initial[repo].gate = None
      BY <1>0, <1>1, <1>2, <1>5, <2>2 DEF Undoing
    <3>. QED  BY <1>0, <1>5, <3>1 DEF SameGate
  <2>. QED  BY <1>5, <2>1, <2>2
<1>6. CASE /\ pc = "undoClassic" /\ pc' = "undoVerify"
           /\ remote' = [remote EXCEPT ![repo].classic = Renormalize(Before.classic)]
  <2>1. remote'[repo].gate = remote[repo].gate
        /\ remote'[repo].classic = Renormalize(initial[repo].classic)
    BY <1>0, <1>2, <1>6 DEF Protection
  <2>2. SameGate(remote[repo].gate, initial[repo].gate)
    BY <1>0, <1>1, <1>6 DEF Undoing
  <2>. QED  BY <1>0, <1>6, <2>1, <2>2
<1>7. CASE UNCHANGED <<pc, seen>> /\ (Owner \/ UNCHANGED <<remote, edits>>)
  <2>1. remote'[repo] = remote[repo]
    <3>1. Owner => edits' # edits
      BY DEF Owner, OwnerEdits, JournalInv, TypeOK
    <3>. QED  BY <1>1, <1>7, <3>1 DEF Changes
  <2>. QED  BY <1>0, <1>1, <1>7, <2>1 DEF Undoing
<1>. QED  BY <1>4, <1>5, <1>6, <1>7, UndoStep

\* With no failed call, an undo that reports at all reports a success.
LEMMA CompletesKept ==
  ASSUME JournalInv, FirstMark, FirstFile, Undoing, Completes, [Next]_vars
  PROVE  Completes'
<1> SUFFICES ASSUME NEW r \in Whole', runs' = 1, faults' = 0, edits'[r] = 0,
                    Lossless(initial'[r]), report'[r] = "unrestored"
             PROVE  FALSE
  BY DEF Completes, Whole
<1>0. /\ r \in Whole /\ r \in Repos /\ edits[r] = 0 /\ initial' = initial
      /\ TypeOK /\ initial[r] \in Protection
      /\ remote \in [Repos -> Protection] /\ faults \in Nat
  BY WholeShrinks DEF JournalInv, TypeOK
<1>1. runs = 1
  <2>1. ~ApplyStart
    BY <1>0 DEF ApplyStart, Begin
  <2>. QED  BY <2>1, BackupsChange DEF Mark
<1>2. faults = 0 => report[r] # "unrestored"
  BY <1>0, <1>1 DEF Completes
<1>3. r = repo /\ pc # "next" /\ Conclude("unrestored")
  BY <1>0, <1>2, NewReport
<1>4. cur = 1 /\ backups[1][r] # None /\ Before = initial[r]
  <2>1. cur = 1 /\ backups[1][r] # None
    BY <1>1, <1>3, EntryFacts DEF JournalInv, AtEntry
  <2>. QED  BY <1>0, <1>1, <1>3, <2>1 DEF FirstFile, Before
<1>5. CASE ~MatchesBefore(remote[repo], Before) /\ UndoUnmarked
  <2>1. ~Marked(1, r)
    BY <1>3, <1>4, <1>5 DEF UndoUnmarked, Marked
  <2>2. remote[r] = initial[r]
    BY <1>0, <1>1, <2>1 DEF FirstMark, Whole
  <2>3. Renormalize(initial[r].classic) = initial[r].classic
    <3>1. initial[r].classic \in Classic \cup {None}
      BY <1>0, ProtectionParts
    <3>2. CASE initial[r].classic # None
      <4>1. initial[r].classic.people \in {None, {}}
        BY <1>0, <3>2 DEF Lossless
      <4>2. Renormalize(initial[r].classic)
              = [initial[r].classic EXCEPT !.people = initial[r].classic.people]
        BY <3>2, <4>1 DEF Renormalize
      <4>. QED  BY <3>1, <3>2, <4>2 DEF Classic
    <3>. QED  BY <3>2 DEF Renormalize
  <2>4. SameGate(initial[r].gate, initial[r].gate)
    BY DEF SameGate
  <2>. QED  BY <1>3, <1>4, <1>5, <2>2, <2>3, <2>4 DEF MatchesBefore
<1>6. CASE ~MatchesBefore(remote[repo], Before) /\ UndoVerify
  <2>1. pc = "undoVerify"
    BY <1>6 DEF UndoVerify
  <2>2. SameGate(remote[r].gate, initial[r].gate)
        /\ remote[r].classic = Renormalize(initial[r].classic)
    BY <1>0, <1>1, <1>3, <2>1 DEF Undoing
  <2>. QED  BY <1>3, <1>4, <1>6, <2>2 DEF MatchesBefore
<1>7. CASE Fault
  BY <1>0, <1>7 DEF Fault
<1>8. CASE UndoGate /\ Rejected("unrestored")
  <2> DEFINE target == IF initial[r].gate # None THEN initial[r].gate ELSE seen
  <2>1. pc = "undoGate" /\ pc' = "next" /\ faults' = faults
    BY <1>8 DEF UndoGate, Rejected, Conclude
  <2>2. seen = remote[r].gate
    BY <1>0, <1>1, <1>3, <2>1 DEF Undoing
  <2>3. target # None => remote[r].gate # None /\ remote[r].gate.id = target.id
    BY <1>0, <1>1, <2>2 DEF FirstFile
  <2>4. \/ target = None /\ Goto("undoClassic")
        \/ Write([remote[r] EXCEPT !.gate = Before.gate], "undoClassic", "unrestored")
    BY <1>3, <1>4, <1>8, <2>3 DEF UndoGate
  <2>5. faults' # faults + 1
    BY <1>0, <2>1
  <2>. QED  BY <2>1, <2>4, <2>5 DEF Goto, Write, Fault
<1>. QED  BY <1>3, <1>5, <1>6, <1>7, <1>8, ReportingStep

\* A rollback that meets no failed call restores every repository the owner
\* left alone, while there is one backup file, wherever its applies stopped
\* and however often the rollback itself was cut short.
THEOREM RollbackIsComplete == Spec => []RollbackCompletes
<1>1. Init => Undrifted /\ FirstMark /\ FirstFile /\ Undoing /\ Completes
  <2> SUFFICES ASSUME Init PROVE Undrifted /\ FirstMark /\ FirstFile /\ Undoing /\ Completes
    OBVIOUS
  <2>1. runs = 0 /\ pc = "next" /\ initial = remote /\ plan = [r \in Repos |-> None]
        /\ report = [r \in Repos |-> "none"]
    BY DEF Init
  <2>. QED  BY <2>1 DEF Undrifted, FirstMark, FirstFile, Undoing, Completes, Whole
<1>2. JournalInv /\ Undrifted /\ FirstMark /\ FirstFile /\ Undoing /\ Completes /\ [Next]_vars
        => Undrifted' /\ FirstMark' /\ FirstFile' /\ Undoing' /\ Completes'
  BY UndriftedKept, FirstMarkKept, FirstFileKept, UndoingKept, CompletesKept
<1>3. Completes => RollbackCompletes
  BY DEF Completes, RollbackCompletes, Whole
<1>. QED  BY <1>1, <1>2, <1>3, JournalInvariant, PTL DEF Spec
=============================================================================
