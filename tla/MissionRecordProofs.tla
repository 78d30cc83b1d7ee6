------------------------- MODULE MissionRecordProofs -------------------------
(***************************************************************************)
(* Proofs about MissionRecord for any signals, missions, runs, branches,   *)
(* proposals and closing dispositions.  The argument has three parts: a    *)
(* tree that is sound stays so under each author's change; a patch that    *)
(* fits main still fits after the merge of one it does not clash with; and *)
(* the combination of two such patches is sound, because every verdict is  *)
(* written together with the ledger item of its mission.                   *)
(***************************************************************************)
EXTENDS MissionRecord, FiniteSetTheorems, TLAPS

\* The first signal of a mission, whose ledger item carries its verdict.
First(tree, m) == tree.packages[m].signals[1]

\* The mission was assessed or rejected.
HasVerdict(tree, m) ==
  \/ tree.rejected[m]
  \/ \E r \in Runs : Assessed(tree, r) /\ tree.runs[r].mission = m

-----------------------------------------------------------------------------
(* A sound tree: what stays true of main whatever races happened.           *)

RunsSound(tree) ==
  \A r \in Runs : tree.runs[r] # None =>
    /\ tree.packages[tree.runs[r].mission] # None
    /\ tree.runs[r].bundle =>
         /\ Admitted(tree, tree.runs[r].mission)
         /\ tree.runs[r].closed => tree.runs[r].assessment # None
    /\ tree.runs[r].assessment # None => tree.runs[r].closed

PackagesSound(tree) ==
  \A m \in Missions : tree.packages[m] # None =>
    Coherent(tree.packages[m]) /\ tree.packages[m].signals # <<>>

AssessmentsSound(tree) ==
  \A r \in Runs : Assessed(tree, r) => AssessmentOK(tree, r)

VerdictsSound(tree) ==
  /\ AssessedOncePerMission(tree)
  /\ \A r \in Runs : Assessed(tree, r) => ~tree.rejected[tree.runs[r].mission]

RejectionsSound(tree) ==
  \A m \in Missions : tree.rejected[m] =>
    /\ tree.packages[m] # None
    /\ ItemOf(tree, m) # None
    /\ ItemOf(tree, m).mission = m => ItemOf(tree, m).disposition = "rejected"

\* An item lists assessed runs only, is about a mission main has, and is
\* terminal only when that mission got its verdict.
ItemSound(tree, s) ==
  tree.ledger[s] # None =>
    /\ \A r \in tree.ledger[s].runs : Assessed(tree, r)
    /\ tree.ledger[s].mission # None =>
         /\ tree.packages[tree.ledger[s].mission] # None
         /\ tree.ledger[s].disposition \in Terminal => HasVerdict(tree, tree.ledger[s].mission)

LedgerSound(tree) == \A s \in Signals : ItemSound(tree, s)

\* The ledger a package was decided on speaks of assessments that still stand.
BasisSound(tree, basis) ==
  \A s \in Signals : basis[s] # None =>
    \A q \in basis[s].runs :
      /\ Assessed(tree, q)
      /\ First(tree, tree.runs[q].mission) = s /\ basis[s].mission = tree.runs[q].mission
           => basis[s].disposition = tree.runs[q].assessment

BasesSound(tree) ==
  \A m \in Missions : tree.packages[m] # None => BasisSound(tree, tree.packages[m].basis)

Sound(tree) ==
  /\ RunsSound(tree) /\ PackagesSound(tree) /\ AssessmentsSound(tree) /\ VerdictsSound(tree)
  /\ RejectionsSound(tree) /\ LedgerSound(tree) /\ BasesSound(tree)

\* A patch that fits a tree: what it changes is new there, and a verdict or a
\* package comes with the ledger item of its mission.
Fits(tree, patch) ==
  /\ \A s \in Signals : patch.ledger[s] # None => patch.ledger[s] # tree.ledger[s]
  /\ \A m \in Missions : patch.packages[m] # None =>
       /\ tree.packages[m] = None
       /\ patch.packages[m].signals # <<>>
       /\ patch.ledger[patch.packages[m].signals[1]] # None
  /\ \A m \in Missions : patch.rejected[m] =>
       /\ ~tree.rejected[m] /\ tree.packages[m] # None
       /\ patch.ledger[First(tree, m)] # None
  /\ \A r \in Runs : patch.runs[r] \notin {None, Removed} =>
       /\ tree.packages[patch.runs[r].mission] # None
       /\ patch.runs[r].assessment # None
            => patch.ledger[First(tree, patch.runs[r].mission)] # None
  /\ \A r \in Runs : Assessed(tree, r) => patch.runs[r] = None

\* The inductive invariant.
RecordInv ==
  /\ TypeOK
  /\ Sound(main)
  /\ \A b \in Branches : branch[b] # None =>
       Fits(main, branch[b]) /\ Sound(Merged(branch[b]))

-----------------------------------------------------------------------------
(* Trees, patches and what a merge makes of them.                           *)

\* The entries of a tree.
LEMMA TreeParts ==
  ASSUME NEW t \in Tree
  PROVE  /\ t.ledger \in Ledger /\ \A s \in Signals : t.ledger[s] \in Item \cup {None}
         /\ t.packages \in [Missions -> Package \cup {None}]
         /\ \A m \in Missions : t.packages[m] \in Package \cup {None}
         /\ t.runs \in [Runs -> Run \cup {None}]
         /\ \A r \in Runs : t.runs[r] \in Run \cup {None}
         /\ t.rejected \in [Missions -> BOOLEAN]
         /\ \A m \in Missions : t.rejected[m] \in BOOLEAN
<1>1. /\ t.ledger \in Ledger /\ t.packages \in [Missions -> Package \cup {None}]
      /\ t.runs \in [Runs -> Run \cup {None}] /\ t.rejected \in [Missions -> BOOLEAN]
  BY DEF Tree
<1>. QED  BY <1>1 DEF Ledger

\* The entries of a patch.
LEMMA PatchParts ==
  ASSUME NEW p \in Patch
  PROVE  /\ \A s \in Signals : p.ledger[s] \in Item \cup {None}
         /\ \A m \in Missions : p.packages[m] \in Package \cup {None}
         /\ \A r \in Runs : p.runs[r] \in Run \cup {None, Removed}
         /\ \A m \in Missions : p.rejected[m] \in BOOLEAN
<1>1. /\ p.ledger \in Ledger /\ p.packages \in [Missions -> Package \cup {None}]
      /\ p.runs \in [Runs -> Run \cup {None, Removed}] /\ p.rejected \in [Missions -> BOOLEAN]
  BY DEF Patch
<1>. QED  BY <1>1 DEF Ledger

\* The fields of a ledger item.
LEMMA ItemParts ==
  ASSUME NEW i \in Item
  PROVE  i.disposition \in Dispositions /\ i.mission \in Missions \cup {None} /\ i.runs \subseteq Runs
  BY DEF Item

\* The fields of a run.
LEMMA RunParts ==
  ASSUME NEW run \in Run
  PROVE  /\ run.mission \in Missions /\ run.closed \in BOOLEAN /\ run.bundle \in BOOLEAN
         /\ run.assessment \in Terminal \cup {None}
  BY DEF Run

\* A package's first signal is one of its signals.
LEMMA FirstSignal ==
  ASSUME NEW package \in Package, package.signals # <<>>
  PROVE  package.signals[1] \in Signals /\ package.signals[1] \in SignalsOf(package)
<1>1. package.signals \in Seq(Signals)
  BY DEF Package
<1>2. Len(package.signals) \in Nat /\ 1 \in 1..Len(package.signals)
  BY <1>1
<1>. QED  BY <1>1, <1>2 DEF SignalsOf

\* A merge, entry by entry.
LEMMA PatchedParts ==
  ASSUME NEW t \in Tree, NEW p \in Patch
  PROVE  /\ Patched(t, p) \in Tree
         /\ \A s \in Signals :
              Patched(t, p).ledger[s] = IF p.ledger[s] = None THEN t.ledger[s] ELSE p.ledger[s]
         /\ \A m \in Missions :
              Patched(t, p).packages[m] = IF p.packages[m] = None THEN t.packages[m] ELSE p.packages[m]
         /\ \A r \in Runs : p.runs[r] = None => Patched(t, p).runs[r] = t.runs[r]
         /\ \A r \in Runs : p.runs[r] = Removed => Patched(t, p).runs[r] = None
         /\ \A r \in Runs : p.runs[r] \notin {None, Removed} => Patched(t, p).runs[r] = p.runs[r]
         /\ \A m \in Missions : Patched(t, p).rejected[m] <=> t.rejected[m] \/ p.rejected[m]
<1>1. /\ Patched(t, p).ledger = [s \in Signals |-> Taken(t.ledger[s], p.ledger[s])]
      /\ Patched(t, p).packages = [m \in Missions |-> Taken(t.packages[m], p.packages[m])]
      /\ Patched(t, p).runs = [r \in Runs |-> Taken(t.runs[r], p.runs[r])]
      /\ Patched(t, p).rejected = [m \in Missions |-> t.rejected[m] \/ p.rejected[m]]
  BY DEF Patched
<1>2. \A s \in Signals :
        Taken(t.ledger[s], p.ledger[s]) = IF p.ledger[s] = None THEN t.ledger[s] ELSE p.ledger[s]
  BY PatchParts, NoneAssumption DEF Taken
<1>3. \A m \in Missions :
        Taken(t.packages[m], p.packages[m])
          = IF p.packages[m] = None THEN t.packages[m] ELSE p.packages[m]
  BY PatchParts, NoneAssumption DEF Taken
<1>4. \A r \in Runs : /\ p.runs[r] = None => Taken(t.runs[r], p.runs[r]) = t.runs[r]
                      /\ p.runs[r] = Removed => Taken(t.runs[r], p.runs[r]) = None
                      /\ p.runs[r] \notin {None, Removed} => Taken(t.runs[r], p.runs[r]) = p.runs[r]
  BY NoneAssumption DEF Taken
<1>5. Patched(t, p) \in Tree
  <2>1. [s \in Signals |-> Taken(t.ledger[s], p.ledger[s])] \in Ledger
    BY <1>2, TreeParts, PatchParts DEF Ledger
  <2>2. [m \in Missions |-> Taken(t.packages[m], p.packages[m])] \in [Missions -> Package \cup {None}]
    BY <1>3, TreeParts, PatchParts
  <2>3. [r \in Runs |-> Taken(t.runs[r], p.runs[r])] \in [Runs -> Run \cup {None}]
    BY <1>4, TreeParts, PatchParts
  <2>4. [m \in Missions |-> t.rejected[m] \/ p.rejected[m]] \in [Missions -> BOOLEAN]
    OBVIOUS
  <2>. QED  BY <2>1, <2>2, <2>3, <2>4 DEF Patched, Tree
<1>6. \A s \in Signals :
        Patched(t, p).ledger[s] = IF p.ledger[s] = None THEN t.ledger[s] ELSE p.ledger[s]
  BY <1>1, <1>2
<1>7. \A m \in Missions :
        Patched(t, p).packages[m] = IF p.packages[m] = None THEN t.packages[m] ELSE p.packages[m]
  BY <1>1, <1>3
<1>8. \A r \in Runs : Patched(t, p).runs[r] = Taken(t.runs[r], p.runs[r])
  BY <1>1
<1>9. \A m \in Missions : Patched(t, p).rejected[m] <=> t.rejected[m] \/ p.rejected[m]
  BY <1>1
<1>. QED  BY <1>4, <1>5, <1>6, <1>7, <1>8, <1>9

\* A run of a merge.
LEMMA PatchedRun ==
  ASSUME NEW t \in Tree, NEW p \in Patch, NEW r \in Runs
  PROVE  /\ p.runs[r] = None => Patched(t, p).runs[r] = t.runs[r]
         /\ p.runs[r] = Removed => Patched(t, p).runs[r] = None
         /\ p.runs[r] \notin {None, Removed} => Patched(t, p).runs[r] = p.runs[r]
  BY PatchedParts

-----------------------------------------------------------------------------
(* Two patches that do not clash.                                           *)

\* w is put together from p and q: each of its packages and runs is found in
\* one of them, and so is each ledger item, with the verdicts it belongs to.
Join(w, p, q) ==
  /\ \A u \in {p, q}, m \in Missions : u.packages[m] # None => w.packages[m] = u.packages[m]
  /\ \A m \in Missions : w.packages[m] # None =>
       \E u \in {p, q} : u.packages[m] # None /\ u.packages[m] = w.packages[m]
  /\ \A r \in Runs : \E u \in {p, q} : u.runs[r] = w.runs[r]
  /\ \A u \in {p, q}, r \in Runs : Assessed(u, r) => w.runs[r] = u.runs[r]
  /\ \A u \in {p, q}, m \in Missions : u.rejected[m] => w.rejected[m]
  /\ \A m \in Missions : w.rejected[m] => \E u \in {p, q} : u.rejected[m]
  /\ \A s \in Signals : \E u \in {p, q} :
       /\ u.ledger[s] = w.ledger[s]
       /\ \A m \in Missions : w.rejected[m] /\ First(w, m) = s => u.rejected[m]
       /\ \A r \in Runs : Assessed(w, r) /\ First(w, w.runs[r].mission) = s
                            => u.runs[r] = w.runs[r]

\* What is put together from two sound trees is sound.
LEMMA JoinSound ==
  ASSUME NEW w \in Tree, NEW p \in Tree, NEW q \in Tree, Join(w, p, q), Sound(p), Sound(q)
  PROVE  Sound(w)
<1>0. \A u \in {p, q} : u \in Tree /\ Sound(u)
  OBVIOUS
<1>1. RunsSound(w)
  <2> SUFFICES ASSUME NEW r \in Runs, w.runs[r] # None
               PROVE  /\ w.packages[w.runs[r].mission] # None
                      /\ w.runs[r].bundle =>
                           /\ Admitted(w, w.runs[r].mission)
                           /\ w.runs[r].closed => w.runs[r].assessment # None
                      /\ w.runs[r].assessment # None => w.runs[r].closed
    BY DEF RunsSound
  <2>1. PICK u \in {p, q} : u.runs[r] = w.runs[r]
    BY DEF Join
  <2>2. w.runs[r].mission \in Missions
    BY TreeParts, RunParts
  <2>3. /\ u.packages[w.runs[r].mission] # None
        /\ w.runs[r].bundle =>
             /\ Admitted(u, w.runs[r].mission)
             /\ w.runs[r].closed => w.runs[r].assessment # None
        /\ w.runs[r].assessment # None => w.runs[r].closed
    BY <1>0, <2>1 DEF Sound, RunsSound
  <2>4. w.packages[w.runs[r].mission] = u.packages[w.runs[r].mission]
    BY <2>2, <2>3 DEF Join
  <2>. QED  BY <2>3, <2>4 DEF Admitted
<1>2. PackagesSound(w)
  <2> SUFFICES ASSUME NEW m \in Missions, w.packages[m] # None
               PROVE  Coherent(w.packages[m]) /\ w.packages[m].signals # <<>>
    BY DEF PackagesSound
  <2>1. PICK u \in {p, q} : u.packages[m] # None /\ u.packages[m] = w.packages[m]
    BY DEF Join
  <2>. QED  BY <1>0, <2>1 DEF Sound, PackagesSound
<1>3. ASSUME NEW m \in Missions, w.packages[m] # None
      PROVE  First(w, m) \in Signals
  BY <1>2, <1>3, TreeParts, FirstSignal DEF PackagesSound, First
<1>4. ASSUME NEW r \in Runs, Assessed(w, r)
      PROVE  /\ w.runs[r] # None /\ w.runs[r].assessment # None
             /\ w.runs[r].mission \in Missions /\ w.packages[w.runs[r].mission] # None
             /\ First(w, w.runs[r].mission) \in Signals
  BY <1>1, <1>3, <1>4, TreeParts, RunParts DEF RunsSound, Assessed
\* Where a package of p or q is known, its first signal is that of w.
<1>5. ASSUME NEW u \in {p, q}, NEW m \in Missions, u.packages[m] # None
      PROVE  w.packages[m] = u.packages[m] /\ First(u, m) = First(w, m)
  BY <1>5 DEF Join, First
<1>6. ASSUME NEW u \in {p, q}, NEW r \in Runs, Assessed(u, r)
      PROVE  /\ w.runs[r] = u.runs[r] /\ Assessed(w, r)
             /\ u.runs[r].mission \in Missions /\ u.packages[u.runs[r].mission] # None
  BY <1>0, <1>6, TreeParts, RunParts DEF Join, Assessed, Sound, RunsSound
<1>7. AssessmentsSound(w)
  <2> SUFFICES ASSUME NEW r \in Runs, Assessed(w, r)
               PROVE  AssessmentOK(w, r)
    BY DEF AssessmentsSound
  <2> DEFINE m == w.runs[r].mission
  <2>1. PICK u \in {p, q} : /\ u.ledger[First(w, m)] = w.ledger[First(w, m)]
                            /\ u.runs[r] = w.runs[r]
    BY <1>4 DEF Join
  <2>2. Assessed(u, r)
    BY <2>1 DEF Assessed
  <2>3. AssessmentOK(u, r) /\ u.packages[m] # None /\ m \in Missions
    BY <1>0, <1>6, <2>1, <2>2 DEF Sound, AssessmentsSound
  <2>4. ItemOf(u, m) = ItemOf(w, m) /\ w.packages[m] = u.packages[m]
    BY <1>5, <2>1, <2>3 DEF ItemOf, First
  <2>. QED  BY <2>1, <2>3, <2>4 DEF AssessmentOK
<1>8. VerdictsSound(w)
  <2>1. ASSUME NEW r \in Runs, NEW s \in Runs, Assessed(w, r), Assessed(w, s), r # s,
               w.runs[r].mission = w.runs[s].mission
        PROVE  FALSE
    <3>1. PICK u \in {p, q} : u.runs[r] = w.runs[r] /\ u.runs[s] = w.runs[s]
      BY <1>4, <2>1 DEF Join
    <3>2. Assessed(u, r) /\ Assessed(u, s)
      BY <2>1, <3>1 DEF Assessed
    <3>. QED  BY <1>0, <2>1, <3>1, <3>2 DEF Sound, VerdictsSound, AssessedOncePerMission
  <2>2. ASSUME NEW r \in Runs, Assessed(w, r), w.rejected[w.runs[r].mission]
        PROVE  FALSE
    <3>1. PICK u \in {p, q} : u.runs[r] = w.runs[r] /\ u.rejected[w.runs[r].mission]
      BY <1>4, <2>2 DEF Join
    <3>2. Assessed(u, r)
      BY <2>2, <3>1 DEF Assessed
    <3>. QED  BY <1>0, <3>1, <3>2 DEF Sound, VerdictsSound
  <2>. QED  BY <2>1, <2>2 DEF VerdictsSound, AssessedOncePerMission
<1>9. RejectionsSound(w)
  <2> SUFFICES ASSUME NEW m \in Missions, w.rejected[m]
               PROVE  /\ w.packages[m] # None
                      /\ ItemOf(w, m) # None
                      /\ ItemOf(w, m).mission = m => ItemOf(w, m).disposition = "rejected"
    BY DEF RejectionsSound
  <2>1. w.packages[m] # None /\ First(w, m) \in Signals
    <3>1. PICK u \in {p, q} : u.rejected[m]
      BY DEF Join
    <3>. QED  BY <1>0, <1>3, <1>5, <3>1 DEF Sound, RejectionsSound
  <2>2. PICK u \in {p, q} : u.ledger[First(w, m)] = w.ledger[First(w, m)] /\ u.rejected[m]
    BY <2>1 DEF Join
  <2>3. ItemOf(u, m) = ItemOf(w, m)
    BY <1>0, <1>5, <2>2 DEF Sound, RejectionsSound, ItemOf, First
  <2>. QED  BY <1>0, <2>1, <2>2, <2>3 DEF Sound, RejectionsSound
<1>10. LedgerSound(w)
  <2> SUFFICES ASSUME NEW s \in Signals, w.ledger[s] # None
               PROVE  /\ \A r \in w.ledger[s].runs : Assessed(w, r)
                      /\ w.ledger[s].mission # None =>
                           /\ w.packages[w.ledger[s].mission] # None
                           /\ w.ledger[s].disposition \in Terminal
                                => HasVerdict(w, w.ledger[s].mission)
    BY DEF LedgerSound, ItemSound
  <2>1. PICK u \in {p, q} : u.ledger[s] = w.ledger[s]
    BY DEF Join
  <2>2. w.ledger[s].runs \subseteq Runs /\ w.ledger[s].mission \in Missions \cup {None}
    BY TreeParts, ItemParts
  <2>3. /\ \A r \in w.ledger[s].runs : Assessed(u, r)
        /\ w.ledger[s].mission # None =>
             /\ u.packages[w.ledger[s].mission] # None
             /\ w.ledger[s].disposition \in Terminal
                  => HasVerdict(u, w.ledger[s].mission)
    BY <1>0, <2>1 DEF Sound, LedgerSound, ItemSound
  <2>4. ASSUME NEW m \in Missions, HasVerdict(u, m) PROVE HasVerdict(w, m)
    <3>1. u.rejected[m] => w.rejected[m]
      BY DEF Join
    <3>2. ASSUME NEW r \in Runs, Assessed(u, r), u.runs[r].mission = m
          PROVE  Assessed(w, r) /\ w.runs[r].mission = m
      BY <1>6, <3>2
    <3>. QED  BY <2>4, <3>1, <3>2 DEF HasVerdict
  <2>. QED  BY <1>5, <1>6, <2>2, <2>3, <2>4
<1>11. BasesSound(w)
  <2> SUFFICES ASSUME NEW m \in Missions, NEW s \in Signals, w.packages[m] # None,
                      w.packages[m].basis[s] # None, NEW z \in w.packages[m].basis[s].runs
               PROVE  /\ Assessed(w, z)
                      /\ First(w, w.runs[z].mission) = s
                           /\ w.packages[m].basis[s].mission = w.runs[z].mission
                           => w.packages[m].basis[s].disposition = w.runs[z].assessment
    BY DEF BasesSound, BasisSound
  <2>1. PICK u \in {p, q} : u.packages[m] # None /\ u.packages[m] = w.packages[m]
    BY DEF Join
  <2>2. z \in Runs
    BY TreeParts, ItemParts DEF Package, Ledger
  <2>3. /\ Assessed(u, z)
        /\ First(u, u.runs[z].mission) = s /\ w.packages[m].basis[s].mission = u.runs[z].mission
             => w.packages[m].basis[s].disposition = u.runs[z].assessment
    <3>1. BasisSound(u, w.packages[m].basis)
      BY <1>0, <2>1 DEF Sound, BasesSound
    <3>. QED  BY <3>1 DEF BasisSound
  <2>4. w.runs[z] = u.runs[z] /\ Assessed(w, z)
        /\ First(u, u.runs[z].mission) = First(w, w.runs[z].mission)
    BY <1>5, <1>6, <2>2, <2>3
  <2>. QED  BY <2>3, <2>4
<1>. QED  BY <1>1, <1>2, <1>7, <1>8, <1>9, <1>10, <1>11 DEF Sound

\* What is known of two patches of one tree that do not clash.
Compatible(t, p, q) ==
  /\ Sound(t) /\ Sound(Patched(t, p)) /\ Sound(Patched(t, q))
  /\ Fits(t, p) /\ Fits(t, q)
  /\ ~Clash(p, q)

\* Such patches do not formulate, reject or assess the same mission.
LEMMA Apart ==
  ASSUME NEW t \in Tree, NEW p \in Patch, NEW q \in Patch, Compatible(t, p, q)
  PROVE  /\ \A s \in Signals : p.ledger[s] = None \/ q.ledger[s] = None
         /\ \A m \in Missions : p.packages[m] = None \/ q.packages[m] = None
         /\ \A m \in Missions : ~(p.rejected[m] /\ q.rejected[m])
         /\ \A r \in Runs : p.runs[r] = None \/ q.runs[r] = None \/ p.runs[r] = q.runs[r]
         /\ \A r \in Runs : Assessed(Patched(t, p), r) => q.runs[r] = None
         /\ \A r \in Runs : Assessed(Patched(t, q), r) => p.runs[r] = None
<1>1. \A s \in Signals : p.ledger[s] = None \/ q.ledger[s] = None
  BY DEF Compatible, Clash
<1>2. \A r \in Runs : p.runs[r] = None \/ q.runs[r] = None \/ p.runs[r] = q.runs[r]
  BY DEF Compatible, Clash
<1>3. \A m \in Missions : p.packages[m] = None \/ q.packages[m] = None
  <2> SUFFICES ASSUME NEW m \in Missions, p.packages[m] # None, q.packages[m] # None
               PROVE  FALSE
    OBVIOUS
  <2>1. p.packages[m] = q.packages[m]
    BY DEF Compatible, Clash
  <2>2. /\ p.packages[m].signals # <<>> /\ p.ledger[p.packages[m].signals[1]] # None
        /\ q.ledger[q.packages[m].signals[1]] # None
    BY DEF Compatible, Fits
  <2>3. p.packages[m].signals[1] \in Signals
    BY <2>2, PatchParts, FirstSignal
  <2>. QED  BY <1>1, <2>1, <2>2, <2>3
<1>4. ASSUME NEW m \in Missions, t.packages[m] # None PROVE First(t, m) \in Signals
  BY <1>4, TreeParts, FirstSignal DEF Compatible, Sound, PackagesSound, First
<1>5. \A m \in Missions : ~(p.rejected[m] /\ q.rejected[m])
  BY <1>1, <1>4 DEF Compatible, Fits
<1>6. ASSUME NEW r \in Runs, p.runs[r] = q.runs[r], p.runs[r] \notin {None, Removed}
      PROVE  p.runs[r].assessment = None
  <2>1. p.runs[r].mission \in Missions
    BY <1>6, PatchParts, RunParts
  <2>2. t.packages[p.runs[r].mission] # None
    BY <1>6 DEF Compatible, Fits
  <2>. QED  BY <1>1, <1>4, <1>6, <2>1, <2>2 DEF Compatible, Fits
<1>7. ASSUME NEW a \in Patch, NEW b \in Patch, Fits(t, a), Fits(t, b), NEW r \in Runs,
             Assessed(Patched(t, a), r),
             a.runs[r] = None \/ b.runs[r] = None \/ a.runs[r] = b.runs[r],
             a.runs[r] = b.runs[r] /\ a.runs[r] \notin {None, Removed}
               => a.runs[r].assessment = None
      PROVE  b.runs[r] = None
  <2>0. /\ Patched(t, a).runs[r] # None /\ Patched(t, a).runs[r].assessment # None
        /\ a.runs[r] = None => Patched(t, a).runs[r] = t.runs[r]
        /\ a.runs[r] = Removed => Patched(t, a).runs[r] = None
        /\ a.runs[r] \notin {None, Removed} => Patched(t, a).runs[r] = a.runs[r]
    <3>1. Patched(t, a).runs[r] # None /\ Patched(t, a).runs[r].assessment # None
      BY <1>7 DEF Assessed
    <3>2. /\ a.runs[r] = None => Patched(t, a).runs[r] = t.runs[r]
          /\ a.runs[r] = Removed => Patched(t, a).runs[r] = None
          /\ a.runs[r] \notin {None, Removed} => Patched(t, a).runs[r] = a.runs[r]
      BY PatchedRun
    <3>. QED  BY <3>1, <3>2
  <2>1. CASE a.runs[r] = None
    <3>1. Assessed(t, r)
      BY <2>0, <2>1 DEF Assessed
    <3>. QED  BY <1>7, <3>1 DEF Fits
  <2>2. CASE a.runs[r] # None
    BY <1>7, <2>0, <2>2
  <2>. QED  BY <2>1, <2>2
<1>8. \A r \in Runs : Assessed(Patched(t, p), r) => q.runs[r] = None
  BY <1>2, <1>6, <1>7 DEF Compatible
<1>9. \A r \in Runs : Assessed(Patched(t, q), r) => p.runs[r] = None
  BY <1>2, <1>6, <1>7 DEF Compatible
<1>. QED  BY <1>1, <1>2, <1>3, <1>5, <1>8, <1>9

\* The combination of two patches that do not clash is found in the two trees
\* they make on their own: a change of a verdict changes the item of its
\* mission, so the patch that has the item has all of the mission's verdicts.
LEMMA PatchesJoin ==
  ASSUME NEW t \in Tree, NEW p \in Patch, NEW q \in Patch, Compatible(t, p, q)
  PROVE  Join(Patched(Patched(t, q), p), Patched(t, p), Patched(t, q))
<1> DEFINE tp == Patched(t, p)
           tq == Patched(t, q)
           w  == Patched(tq, p)
<1>0. tp \in Tree /\ tq \in Tree /\ w \in Tree
  BY PatchedParts
\* The entries of the three trees.
<1>1. \A s \in Signals : /\ tp.ledger[s] = IF p.ledger[s] = None THEN t.ledger[s] ELSE p.ledger[s]
                         /\ w.ledger[s] = IF p.ledger[s] = None THEN tq.ledger[s] ELSE p.ledger[s]
  BY <1>0, PatchedParts
<1>2. \A m \in Missions :
        /\ tp.packages[m] = IF p.packages[m] = None THEN t.packages[m] ELSE p.packages[m]
        /\ tq.packages[m] = IF q.packages[m] = None THEN t.packages[m] ELSE q.packages[m]
        /\ w.packages[m] = IF p.packages[m] = None THEN tq.packages[m] ELSE p.packages[m]
  BY <1>0, PatchedParts
<1>3. \A r \in Runs :
        /\ p.runs[r] = None => tp.runs[r] = t.runs[r] /\ w.runs[r] = tq.runs[r]
        /\ p.runs[r] = Removed => tp.runs[r] = None /\ w.runs[r] = None
        /\ p.runs[r] \notin {None, Removed} => tp.runs[r] = p.runs[r] /\ w.runs[r] = p.runs[r]
        /\ q.runs[r] = None => tq.runs[r] = t.runs[r]
        /\ q.runs[r] = Removed => tq.runs[r] = None
        /\ q.runs[r] \notin {None, Removed} => tq.runs[r] = q.runs[r]
  BY <1>0, PatchedParts
<1>4. \A m \in Missions : /\ tp.rejected[m] <=> t.rejected[m] \/ p.rejected[m]
                          /\ tq.rejected[m] <=> t.rejected[m] \/ q.rejected[m]
                          /\ w.rejected[m] <=> t.rejected[m] \/ q.rejected[m] \/ p.rejected[m]
  BY <1>0, PatchedParts
<1>5. /\ \A s \in Signals : p.ledger[s] = None \/ q.ledger[s] = None
      /\ \A m \in Missions : p.packages[m] = None \/ q.packages[m] = None
      /\ \A r \in Runs : Assessed(tp, r) => q.runs[r] = None
      /\ \A r \in Runs : Assessed(tq, r) => p.runs[r] = None
  BY Apart
<1>6. Fits(t, p) /\ Fits(t, q) /\ Sound(t)
  BY DEF Compatible
<1> HIDE DEF tp, tq, w
<1>7. ASSUME NEW m \in Missions
      PROVE  /\ tp.packages[m] # None => w.packages[m] = tp.packages[m]
             /\ tq.packages[m] # None => w.packages[m] = tq.packages[m]
             /\ w.packages[m] # None => \/ tp.packages[m] # None /\ tp.packages[m] = w.packages[m]
                                        \/ tq.packages[m] # None /\ tq.packages[m] = w.packages[m]
             /\ t.packages[m] # None => w.packages[m] = t.packages[m]
  <2>1. p.packages[m] # None => t.packages[m] = None
    BY <1>6 DEF Fits
  <2>2. q.packages[m] # None => t.packages[m] = None
    BY <1>6 DEF Fits
  <2>. QED  BY <1>2, <1>5, <2>1, <2>2
<1>8. ASSUME NEW r \in Runs
      PROVE  /\ w.runs[r] = tp.runs[r] \/ w.runs[r] = tq.runs[r]
             /\ Assessed(tp, r) => w.runs[r] = tp.runs[r]
             /\ Assessed(tq, r) => w.runs[r] = tq.runs[r]
  <2>1. w.runs[r] = tp.runs[r] \/ w.runs[r] = tq.runs[r]
    BY <1>3
  <2>2. ASSUME Assessed(tp, r) PROVE w.runs[r] = tp.runs[r]
    <3>1. q.runs[r] = None
      BY <1>5, <2>2
    <3>. QED  BY <1>3, <3>1
  <2>3. ASSUME Assessed(tq, r) PROVE w.runs[r] = tq.runs[r]
    BY <1>3, <1>5, <2>3
  <2>. QED  BY <2>1, <2>2, <2>3
\* The verdicts of a patch come with the item of their mission.
<1>9. ASSUME NEW a \in {p, q}, NEW m \in Missions, a.rejected[m]
      PROVE  t.packages[m] # None /\ a.ledger[First(t, m)] # None
  BY <1>6, <1>9 DEF Fits
<1>10. ASSUME NEW a \in {p, q}, NEW r \in Runs, a.runs[r] \notin {None, Removed},
              a.runs[r].assessment # None
       PROVE  /\ a.runs[r].mission \in Missions /\ t.packages[a.runs[r].mission] # None
              /\ a.ledger[First(t, a.runs[r].mission)] # None
  <2>1. a.runs[r].mission \in Missions
    BY <1>10, PatchParts, RunParts
  <2>. QED  BY <1>6, <1>10, <2>1 DEF Fits
<1>11. \A m \in Missions : t.packages[m] # None => First(w, m) = First(t, m)
  BY <1>7 DEF First
<1>12. \A s \in Signals : \E u \in {tp, tq} :
         /\ u.ledger[s] = w.ledger[s]
         /\ \A m \in Missions : w.rejected[m] /\ First(w, m) = s => u.rejected[m]
         /\ \A r \in Runs : Assessed(w, r) /\ First(w, w.runs[r].mission) = s
                              => u.runs[r] = w.runs[r]
  <2> SUFFICES ASSUME NEW s \in Signals
               PROVE  \E u \in {tp, tq} :
                        /\ u.ledger[s] = w.ledger[s]
                        /\ \A m \in Missions : w.rejected[m] /\ First(w, m) = s => u.rejected[m]
                        /\ \A r \in Runs : Assessed(w, r) /\ First(w, w.runs[r].mission) = s
                                             => u.runs[r] = w.runs[r]
    OBVIOUS
  <2>1. CASE p.ledger[s] # None
    <3>1. q.ledger[s] = None /\ tp.ledger[s] = w.ledger[s]
      BY <1>1, <1>5, <2>1
    <3>2. ASSUME NEW m \in Missions, w.rejected[m], First(w, m) = s PROVE tp.rejected[m]
      <4>1. ~q.rejected[m]
        BY <1>9, <1>11, <3>1, <3>2
      <4>. QED  BY <1>4, <3>2, <4>1
    <3>3. ASSUME NEW r \in Runs, Assessed(w, r), First(w, w.runs[r].mission) = s
          PROVE  tp.runs[r] = w.runs[r]
      <4>1. CASE p.runs[r] = None /\ q.runs[r] \notin {None, Removed}
        <5>1. w.runs[r] = q.runs[r]
          BY <1>3, <4>1
        <5>2. q.runs[r].assessment # None
          BY <3>3, <5>1 DEF Assessed
        <5>. QED  BY <1>10, <1>11, <3>1, <3>3, <4>1, <5>1, <5>2
      <4>2. CASE p.runs[r] = None /\ q.runs[r] = Removed
        BY <1>3, <3>3, <4>2 DEF Assessed
      <4>3. CASE p.runs[r] # None \/ q.runs[r] = None
        BY <1>3, <4>3
      <4>. QED  BY <4>1, <4>2, <4>3
    <3>. QED  BY <3>1, <3>2, <3>3
  <2>2. CASE p.ledger[s] = None
    <3>1. tq.ledger[s] = w.ledger[s]
      BY <1>1, <2>2
    <3>2. ASSUME NEW m \in Missions, w.rejected[m], First(w, m) = s PROVE tq.rejected[m]
      <4>1. ~p.rejected[m]
        BY <1>9, <1>11, <2>2, <3>2
      <4>. QED  BY <1>4, <3>2, <4>1
    <3>3. ASSUME NEW r \in Runs, Assessed(w, r), First(w, w.runs[r].mission) = s
          PROVE  tq.runs[r] = w.runs[r]
      <4>1. CASE p.runs[r] \notin {None, Removed}
        <5>1. w.runs[r] = p.runs[r]
          BY <1>3, <4>1
        <5>2. p.runs[r].assessment # None
          BY <3>3, <5>1 DEF Assessed
        <5>. QED  BY <1>10, <1>11, <2>2, <3>3, <4>1, <5>1, <5>2
      <4>2. CASE p.runs[r] = Removed
        BY <1>3, <3>3, <4>2 DEF Assessed
      <4>3. CASE p.runs[r] = None
        BY <1>3, <4>3
      <4>. QED  BY <4>1, <4>2, <4>3
    <3>. QED  BY <3>1, <3>2, <3>3
  <2>. QED  BY <2>1, <2>2
<1>13. Join(w, tp, tq)
  <2>1. \A u \in {tp, tq}, m \in Missions : u.packages[m] # None => w.packages[m] = u.packages[m]
    BY <1>7
  <2>2. \A m \in Missions : w.packages[m] # None =>
          \E u \in {tp, tq} : u.packages[m] # None /\ u.packages[m] = w.packages[m]
    BY <1>7
  <2>3. \A r \in Runs : \E u \in {tp, tq} : u.runs[r] = w.runs[r]
    BY <1>8
  <2>4. \A u \in {tp, tq}, r \in Runs : Assessed(u, r) => w.runs[r] = u.runs[r]
    BY <1>8
  <2>5. /\ \A u \in {tp, tq}, m \in Missions : u.rejected[m] => w.rejected[m]
        /\ \A m \in Missions : w.rejected[m] => \E u \in {tp, tq} : u.rejected[m]
    BY <1>4
  <2>. QED  BY <1>12, <2>1, <2>2, <2>3, <2>4, <2>5 DEF Join
<1>. QED  BY <1>13 DEF tp, tq, w

\* A patch still fits after the merge of one it does not clash with, and what
\* it makes of the new tree is sound.
LEMMA StillFits ==
  ASSUME NEW t \in Tree, NEW p \in Patch, NEW q \in Patch, Compatible(t, p, q)
  PROVE  Fits(Patched(t, q), p) /\ Sound(Patched(Patched(t, q), p))
<1> DEFINE tq == Patched(t, q)
<1>0. tq \in Tree /\ Patched(t, p) \in Tree /\ Patched(tq, p) \in Tree
  BY PatchedParts
<1>1. Sound(Patched(tq, p))
  BY <1>0, PatchesJoin, JoinSound DEF Compatible
<1>2. /\ \A s \in Signals : tq.ledger[s] = IF q.ledger[s] = None THEN t.ledger[s] ELSE q.ledger[s]
      /\ \A m \in Missions :
           tq.packages[m] = IF q.packages[m] = None THEN t.packages[m] ELSE q.packages[m]
      /\ \A m \in Missions : tq.rejected[m] <=> t.rejected[m] \/ q.rejected[m]
  BY PatchedParts
<1>3. /\ \A s \in Signals : p.ledger[s] = None \/ q.ledger[s] = None
      /\ \A m \in Missions : p.packages[m] = None \/ q.packages[m] = None
      /\ \A m \in Missions : ~(p.rejected[m] /\ q.rejected[m])
      /\ \A r \in Runs : Assessed(tq, r) => p.runs[r] = None
  BY Apart
<1>4. Fits(t, p) /\ Fits(t, q)
  BY DEF Compatible
<1> HIDE DEF tq
<1>5. ASSUME NEW m \in Missions, t.packages[m] # None
      PROVE  tq.packages[m] # None /\ First(tq, m) = First(t, m)
  <2>1. q.packages[m] = None
    BY <1>4, <1>5 DEF Fits
  <2>. QED  BY <1>2, <1>5, <2>1 DEF First
<1>6. \A s \in Signals : p.ledger[s] # None => p.ledger[s] # tq.ledger[s]
  BY <1>2, <1>3, <1>4 DEF Fits
<1>7. \A m \in Missions : p.packages[m] # None =>
        /\ tq.packages[m] = None
        /\ p.packages[m].signals # <<>>
        /\ p.ledger[p.packages[m].signals[1]] # None
  BY <1>2, <1>3, <1>4 DEF Fits
<1>8. \A m \in Missions : p.rejected[m] =>
        /\ ~tq.rejected[m] /\ tq.packages[m] # None
        /\ p.ledger[First(tq, m)] # None
  BY <1>2, <1>3, <1>4, <1>5 DEF Fits
<1>9. ASSUME NEW r \in Runs, p.runs[r] \notin {None, Removed}
      PROVE  /\ tq.packages[p.runs[r].mission] # None
             /\ p.runs[r].assessment # None
                  => p.ledger[First(tq, p.runs[r].mission)] # None
  <2>1. p.runs[r].mission \in Missions
    BY <1>9, PatchParts, RunParts
  <2>2. /\ t.packages[p.runs[r].mission] # None
        /\ p.runs[r].assessment # None
             => p.ledger[First(t, p.runs[r].mission)] # None
    BY <1>4, <1>9 DEF Fits
  <2>. QED  BY <1>5, <2>1, <2>2
<1>10. Fits(tq, p)
  BY <1>3, <1>6, <1>7, <1>8, <1>9 DEF Fits
<1>. QED  BY <1>1, <1>10 DEF tq

-----------------------------------------------------------------------------
(* What an author does to main or to the branch.                            *)

\* Nothing that was accepted is lost from u to v.
Persists(u, v) ==
  /\ \A s \in Signals : u.ledger[s] # None => v.ledger[s] # None
  /\ \A m \in Missions : u.packages[m] # None => v.packages[m] = u.packages[m]
  /\ \A m \in Missions : u.rejected[m] => v.rejected[m]
  /\ \A r \in Runs : Assessed(u, r) => v.runs[r] = u.runs[r]

\* v goes on from u as Fits asks of the patch between them.
Continues(u, v) ==
  /\ Persists(u, v)
  /\ \A m \in Missions : u.packages[m] = None /\ v.packages[m] # None =>
       v.ledger[First(v, m)] # u.ledger[First(v, m)]
  /\ \A m \in Missions : v.rejected[m] /\ ~u.rejected[m] =>
       u.packages[m] # None /\ v.ledger[First(u, m)] # u.ledger[First(u, m)]
  /\ \A r \in Runs : v.runs[r] # None => u.packages[v.runs[r].mission] # None

\* What was sound for an item, a basis or a verdict stays so.
LEMMA PersistingParts ==
  ASSUME NEW u \in Tree, NEW v \in Tree, Sound(u), Persists(u, v)
  PROVE  /\ \A m \in Missions : HasVerdict(u, m) => HasVerdict(v, m)
         /\ \A s \in Signals : v.ledger[s] = u.ledger[s] => ItemSound(v, s)
         /\ \A l \in Ledger : BasisSound(u, l) => BasisSound(v, l)
<1>1. ASSUME NEW r \in Runs, Assessed(u, r)
      PROVE  /\ v.runs[r] = u.runs[r] /\ Assessed(v, r)
             /\ u.runs[r].mission \in Missions
             /\ First(v, u.runs[r].mission) = First(u, u.runs[r].mission)
  <2>1. v.runs[r] = u.runs[r] /\ Assessed(v, r)
    BY <1>1 DEF Persists, Assessed
  <2>2. u.runs[r].mission \in Missions /\ u.packages[u.runs[r].mission] # None
    BY <1>1, TreeParts, RunParts DEF Assessed, Sound, RunsSound
  <2>. QED  BY <2>1, <2>2 DEF Persists, First
<1>2. ASSUME NEW m \in Missions, HasVerdict(u, m) PROVE HasVerdict(v, m)
  BY <1>1, <1>2 DEF HasVerdict, Persists
<1>3. ASSUME NEW s \in Signals, v.ledger[s] = u.ledger[s] PROVE ItemSound(v, s)
  <2> SUFFICES ASSUME v.ledger[s] # None
               PROVE  /\ \A r \in v.ledger[s].runs : Assessed(v, r)
                      /\ v.ledger[s].mission # None =>
                           /\ v.packages[v.ledger[s].mission] # None
                           /\ v.ledger[s].disposition \in Terminal
                                => HasVerdict(v, v.ledger[s].mission)
    BY DEF ItemSound
  <2>1. v.ledger[s].runs \subseteq Runs /\ v.ledger[s].mission \in Missions \cup {None}
    BY TreeParts, ItemParts
  <2>2. /\ \A r \in v.ledger[s].runs : Assessed(u, r)
        /\ v.ledger[s].mission # None =>
             /\ u.packages[v.ledger[s].mission] # None
             /\ v.ledger[s].disposition \in Terminal => HasVerdict(u, v.ledger[s].mission)
    BY <1>3 DEF Sound, LedgerSound, ItemSound
  <2>. QED  BY <1>1, <1>2, <2>1, <2>2 DEF Persists
<1>4. ASSUME NEW l \in Ledger, BasisSound(u, l) PROVE BasisSound(v, l)
  <2> SUFFICES ASSUME NEW s \in Signals, l[s] # None, NEW q \in l[s].runs
               PROVE  /\ Assessed(v, q)
                      /\ First(v, v.runs[q].mission) = s /\ l[s].mission = v.runs[q].mission
                           => l[s].disposition = v.runs[q].assessment
    BY DEF BasisSound
  <2>1. q \in Runs
    BY ItemParts DEF Ledger
  <2>2. /\ Assessed(u, q)
        /\ First(u, u.runs[q].mission) = s /\ l[s].mission = u.runs[q].mission
             => l[s].disposition = u.runs[q].assessment
    BY <1>4 DEF BasisSound
  <2>. QED  BY <1>1, <2>1, <2>2
<1>. QED  BY <1>2, <1>3, <1>4

\* A package's basis is a ledger.
LEMMA BasisIsLedger ==
  ASSUME NEW t \in Tree, NEW m \in Missions, t.packages[m] # None
  PROVE  t.packages[m].basis \in Ledger
  BY TreeParts DEF Package

\* What the validator does not see of soundness.
LEMMA ValidIsSound ==
  ASSUME NEW t \in Tree, Valid(t), LedgerSound(t), BasesSound(t),
         \A r \in Runs : t.runs[r] # None =>
           /\ t.packages[t.runs[r].mission] # None
           /\ t.runs[r].assessment # None => t.runs[r].closed,
         \A m \in Missions : t.packages[m] # None => t.packages[m].signals # <<>>
  PROVE  Sound(t)
<1>1. RunsSound(t)
  BY DEF Valid, BundleOK, RunsSound
<1>2. PackagesSound(t)
  BY DEF Valid, PackagesSound
<1>3. AssessmentsSound(t)
  BY DEF Valid, AssessmentsSound
<1>4. VerdictsSound(t)
  <2>1. ASSUME NEW r \in Runs, Assessed(t, r), t.rejected[t.runs[r].mission] PROVE FALSE
    <3>1. t.runs[r] # None /\ t.runs[r].mission \in Missions
      BY <2>1, TreeParts, RunParts DEF Assessed
    <3>. QED  BY <2>1, <3>1 DEF Valid, RejectionOK
  <2>. QED  BY <2>1 DEF Valid, VerdictsSound
<1>5. RejectionsSound(t)
  BY DEF Valid, RejectionOK, RejectionsSound
<1>. QED  BY <1>1, <1>2, <1>3, <1>4, <1>5 DEF Sound

\* The patch of a push: it leads from main to the pushed tree, and it fits.
LEMMA DiffParts ==
  ASSUME main \in Tree, NEW v \in Tree, Persists(main, v)
  PROVE  /\ Diff(v) \in Patch
         /\ \A s \in Signals :
              Diff(v).ledger[s] = IF v.ledger[s] = main.ledger[s] THEN None ELSE v.ledger[s]
         /\ \A m \in Missions :
              Diff(v).packages[m]
                = IF v.packages[m] = main.packages[m] THEN None ELSE v.packages[m]
         /\ \A r \in Runs :
              Diff(v).runs[r] = IF v.runs[r] = main.runs[r] THEN None
                                ELSE IF v.runs[r] = None THEN Removed ELSE v.runs[r]
         /\ \A m \in Missions : Diff(v).rejected[m] <=> v.rejected[m] /\ ~main.rejected[m]
         /\ Merged(Diff(v)) = v
<1>1. /\ Diff(v).ledger = [s \in Signals |-> Changed(main.ledger[s], v.ledger[s])]
      /\ Diff(v).packages = [m \in Missions |-> Changed(main.packages[m], v.packages[m])]
      /\ Diff(v).runs = [r \in Runs |-> IF v.runs[r] = None /\ main.runs[r] # None THEN Removed
                                        ELSE Changed(main.runs[r], v.runs[r])]
      /\ Diff(v).rejected = [m \in Missions |-> v.rejected[m] /\ ~main.rejected[m]]
  BY DEF Diff
<1>2. \A s \in Signals :
        Diff(v).ledger[s] = IF v.ledger[s] = main.ledger[s] THEN None ELSE v.ledger[s]
  BY <1>1 DEF Changed
<1>3. \A m \in Missions :
        Diff(v).packages[m] = IF v.packages[m] = main.packages[m] THEN None ELSE v.packages[m]
  BY <1>1 DEF Changed
<1>4. \A r \in Runs :
        Diff(v).runs[r] = IF v.runs[r] = main.runs[r] THEN None
                          ELSE IF v.runs[r] = None THEN Removed ELSE v.runs[r]
  BY <1>1 DEF Changed
<1>5. \A m \in Missions : Diff(v).rejected[m] <=> v.rejected[m] /\ ~main.rejected[m]
  BY <1>1
<1>6. Diff(v) \in Patch
  <2>1. Diff(v).ledger \in Ledger
    BY <1>1, <1>2, TreeParts DEF Ledger
  <2>2. Diff(v).packages \in [Missions -> Package \cup {None}]
    BY <1>1, <1>3, TreeParts
  <2>3. Diff(v).runs \in [Runs -> Run \cup {None, Removed}]
    <3>1. \A r \in Runs : Diff(v).runs[r] \in Run \cup {None, Removed}
      BY <1>4, TreeParts
    <3>. QED  BY <1>1, <3>1
  <2>4. Diff(v).rejected \in [Missions -> BOOLEAN]
    BY <1>1
  <2>5. Diff(v) = [ledger |-> Diff(v).ledger, packages |-> Diff(v).packages,
                   runs |-> Diff(v).runs, rejected |-> Diff(v).rejected]
    BY DEF Diff
  <2>. QED  BY <2>1, <2>2, <2>3, <2>4, <2>5 DEF Patch
<1>7. Merged(Diff(v)) = v
  <2> DEFINE w == Patched(main, Diff(v))
  <2>1. w \in Tree
    BY <1>6, PatchedParts
  <2>2. \A s \in Signals : w.ledger[s] = v.ledger[s]
    BY <1>2, <1>6, PatchedParts DEF Persists
  <2>3. \A m \in Missions : w.packages[m] = v.packages[m]
    BY <1>3, <1>6, PatchedParts DEF Persists
  <2>4. \A r \in Runs : w.runs[r] = v.runs[r]
    <3> SUFFICES ASSUME NEW r \in Runs PROVE w.runs[r] = v.runs[r]
      OBVIOUS
    <3>1. /\ Diff(v).runs[r] = None => w.runs[r] = main.runs[r]
          /\ Diff(v).runs[r] = Removed => w.runs[r] = None
          /\ Diff(v).runs[r] \notin {None, Removed} => w.runs[r] = Diff(v).runs[r]
      BY <1>6, PatchedParts
    <3>2. v.runs[r] # Removed
      BY TreeParts, NoneAssumption
    <3>. QED  BY <1>4, <3>1, <3>2, NoneAssumption
  <2>5. \A m \in Missions : w.rejected[m] = v.rejected[m]
    <3>1. \A m \in Missions : w.rejected[m] <=> v.rejected[m]
      BY <1>5, <1>6, PatchedParts DEF Persists
    <3>. QED  BY <2>1, <3>1, TreeParts
  <2> HIDE DEF w
  <2>6. w.ledger = v.ledger
    BY <2>1, <2>2, TreeParts DEF Ledger
  <2>7. w.packages = v.packages /\ w.runs = v.runs /\ w.rejected = v.rejected
    BY <2>1, <2>3, <2>4, <2>5, TreeParts
  <2>8. w = v
    <3>1. \A t \in Tree : t = [ledger |-> t.ledger, packages |-> t.packages,
                             runs |-> t.runs, rejected |-> t.rejected]
      BY DEF Tree
    <3>. QED  BY <2>1, <2>6, <2>7, <3>1
  <2>. QED  BY <2>8 DEF w, Merged
<1>. QED  BY <1>2, <1>3, <1>4, <1>5, <1>6, <1>7

\* A push that goes on from main leaves a patch that fits main (the pull
\* request's diff).
LEMMA DiffFits ==
  ASSUME main \in Tree, Sound(main), NEW v \in Tree, Sound(v), Continues(main, v)
  PROVE  Diff(v) \in Patch /\ Fits(main, Diff(v)) /\ Merged(Diff(v)) = v
<1>0. Persists(main, v)
  BY DEF Continues
<1>1. /\ Diff(v) \in Patch /\ Merged(Diff(v)) = v
      /\ \A s \in Signals :
           Diff(v).ledger[s] = IF v.ledger[s] = main.ledger[s] THEN None ELSE v.ledger[s]
      /\ \A m \in Missions :
           Diff(v).packages[m] = IF v.packages[m] = main.packages[m] THEN None ELSE v.packages[m]
      /\ \A r \in Runs :
           Diff(v).runs[r] = IF v.runs[r] = main.runs[r] THEN None
                             ELSE IF v.runs[r] = None THEN Removed ELSE v.runs[r]
      /\ \A m \in Missions : Diff(v).rejected[m] <=> v.rejected[m] /\ ~main.rejected[m]
  BY <1>0, DiffParts
<1>2. ASSUME NEW s \in Signals, v.ledger[s] # main.ledger[s]
      PROVE  Diff(v).ledger[s] # None
  BY <1>0, <1>1, <1>2 DEF Persists
<1>3. ASSUME NEW m \in Missions, v.packages[m] # None
      PROVE  v.packages[m].signals # <<>> /\ First(v, m) \in Signals
  BY <1>3, TreeParts, FirstSignal DEF Sound, PackagesSound, First
<1>4. ASSUME NEW m \in Missions, main.packages[m] # None
      PROVE  v.packages[m] = main.packages[m] /\ First(v, m) = First(main, m)
             /\ First(main, m) \in Signals
  BY <1>0, <1>3, <1>4 DEF Persists, First
<1>5. \A s \in Signals : Diff(v).ledger[s] # None => Diff(v).ledger[s] # main.ledger[s]
  BY <1>1
<1>6. ASSUME NEW m \in Missions, Diff(v).packages[m] # None
      PROVE  /\ main.packages[m] = None
             /\ Diff(v).packages[m].signals # <<>>
             /\ Diff(v).ledger[Diff(v).packages[m].signals[1]] # None
  <2>1. main.packages[m] = None /\ v.packages[m] # None /\ Diff(v).packages[m] = v.packages[m]
    BY <1>1, <1>4, <1>6
  <2>2. v.ledger[First(v, m)] # main.ledger[First(v, m)]
    BY <2>1 DEF Continues
  <2>. QED  BY <1>2, <1>3, <2>1, <2>2 DEF First
<1>7. ASSUME NEW m \in Missions, Diff(v).rejected[m]
      PROVE  /\ ~main.rejected[m] /\ main.packages[m] # None
             /\ Diff(v).ledger[First(main, m)] # None
  <2>1. /\ ~main.rejected[m] /\ main.packages[m] # None
        /\ v.ledger[First(main, m)] # main.ledger[First(main, m)]
    BY <1>1, <1>7 DEF Continues
  <2>. QED  BY <1>2, <1>4, <2>1
<1>8. ASSUME NEW r \in Runs, Diff(v).runs[r] \notin {None, Removed}
      PROVE  /\ main.packages[Diff(v).runs[r].mission] # None
             /\ Diff(v).runs[r].assessment # None
                  => Diff(v).ledger[First(main, Diff(v).runs[r].mission)] # None
  <2> DEFINE m == v.runs[r].mission
  <2>1. Diff(v).runs[r] = v.runs[r] /\ v.runs[r] # None /\ v.runs[r] # main.runs[r]
    BY <1>1, <1>8
  <2>2. m \in Missions /\ main.packages[m] # None
    BY <2>1, TreeParts, RunParts DEF Continues
  <2>3. ASSUME v.runs[r].assessment # None PROVE Diff(v).ledger[First(main, m)] # None
    <3> DEFINE s == First(main, m)
    <3>1. Assessed(v, r) /\ ~Assessed(main, r)
      BY <1>0, <2>1, <2>3 DEF Assessed, Persists
    <3>2. s \in Signals /\ v.packages[m] # None /\ ItemOf(v, m) = v.ledger[s]
      BY <1>4, <2>2 DEF ItemOf, First
    <3>3. v.ledger[s] # None /\ r \in v.ledger[s].runs
      BY <3>1, <3>2 DEF Sound, AssessmentsSound, AssessmentOK
    <3>4. main.ledger[s] # None => r \notin main.ledger[s].runs
      BY <3>1, <3>2 DEF Sound, LedgerSound, ItemSound
    <3>. QED  BY <1>2, <3>2, <3>3, <3>4
  <2>. QED  BY <2>1, <2>2, <2>3
<1>9. \A r \in Runs : Assessed(main, r) => Diff(v).runs[r] = None
  BY <1>0, <1>1 DEF Persists
<1>10. Fits(main, Diff(v))
  BY <1>5, <1>6, <1>7, <1>8, <1>9 DEF Fits
<1>. QED  BY <1>1, <1>10

\* A push keeps the invariant.
LEMMA PushKeeps ==
  ASSUME RecordInv, NEW b \in Branches, NEW v \in Tree, Sound(v), Continues(main, v), Push(b, v)
  PROVE  RecordInv'
<1>1. main' = main /\ branch' = [branch EXCEPT ![b] = Diff(v)]
  BY DEF Push
<1>2. Diff(v) \in Patch /\ Fits(main, Diff(v)) /\ Merged(Diff(v)) = v
  BY DiffFits DEF RecordInv, TypeOK
<1>3. TypeOK'
  BY <1>1, <1>2 DEF RecordInv, TypeOK
<1>4. ASSUME NEW c \in Branches, branch'[c] # None
      PROVE  Fits(main, branch'[c]) /\ Sound(Patched(main, branch'[c]))
  BY <1>1, <1>2, <1>4 DEF RecordInv, TypeOK, Merged
<1>. QED  BY <1>1, <1>3, <1>4 DEF RecordInv, Merged

\* A merge keeps the invariant, for the branches that it does not clash with.
LEMMA MergeKeeps ==
  ASSUME RecordInv, NEW q \in Patch, Fits(main, q), Sound(Merged(q)), main' = Merged(q),
         branch' \in [Branches -> Patch \cup {None}],
         \A c \in Branches : branch'[c] # None => branch'[c] = branch[c] /\ ~Clash(branch[c], q)
  PROVE  RecordInv'
<1>1. main \in Tree /\ main' = Patched(main, q) /\ main' \in Tree /\ Sound(main')
  BY PatchedParts DEF RecordInv, TypeOK, Merged
<1>2. ASSUME NEW c \in Branches, branch'[c] # None
      PROVE  Fits(main', branch'[c]) /\ Sound(Patched(main', branch'[c]))
  <2>1. branch[c] # None /\ branch'[c] = branch[c] /\ ~Clash(branch[c], q)
    BY <1>2
  <2>2. /\ branch[c] \in Patch /\ Sound(main)
        /\ Fits(main, branch[c]) /\ Sound(Merged(branch[c]))
    BY <2>1 DEF RecordInv, TypeOK
  <2>3. Compatible(main, branch[c], q)
    BY <2>1, <2>2 DEF Compatible, Merged
  <2>. QED  BY <1>1, <2>1, <2>2, <2>3, StillFits
<1>. QED  BY <1>1, <1>2 DEF RecordInv, TypeOK, Merged

-----------------------------------------------------------------------------
(* The steps of the authors.                                                *)

\* Nothing is lost on the way from t over u to v.
LEMMA PersistsOn ==
  ASSUME NEW t, NEW u, NEW v, Persists(t, u), Persists(u, v)
  PROVE  Persists(t, v)
<1>1. \A r \in Runs : Assessed(t, r) => v.runs[r] = t.runs[r]
  BY DEF Persists, Assessed
<1>2. \A m \in Missions : t.packages[m] # None => v.packages[m] = t.packages[m]
  BY DEF Persists
<1>. QED  BY <1>1, <1>2 DEF Persists

\* A branch as its author sees it is sound and goes on from main; a run that is
\* open there is listed by no item of main.
LEMMA ViewFacts ==
  ASSUME RecordInv, NEW b \in Branches
  PROVE  /\ View(b) \in Tree /\ Sound(View(b)) /\ Continues(main, View(b))
         /\ \A r \in Runs : Running(View(b), r) =>
              /\ View(b).runs[r] \in Run /\ ~View(b).runs[r].closed
              /\ ~Assessed(View(b), r)
              /\ \A s \in Signals : main.ledger[s] # None => r \notin main.ledger[s].runs
<1>0. main \in Tree /\ Sound(main)
  BY DEF RecordInv, TypeOK
<1>1. View(b) \in Tree /\ Sound(View(b)) /\ Continues(main, View(b))
  <2>1. CASE branch[b] = None
    <3>1. \A r \in Runs : main.runs[r] # None => main.packages[main.runs[r].mission] # None
      BY <1>0 DEF Sound, RunsSound
    <3>2. Continues(main, main)
      BY <3>1 DEF Continues, Persists
    <3>. QED  BY <1>0, <2>1, <3>2 DEF View
  <2>2. CASE branch[b] # None
    <3> DEFINE p == branch[b]
               u == Patched(main, p)
    <3>1. p \in Patch /\ Fits(main, p) /\ Sound(u) /\ View(b) = u
      BY <2>2 DEF RecordInv, TypeOK, View, Merged
    <3> HIDE DEF p
    <3>2. /\ u \in Tree
          /\ \A s \in Signals : u.ledger[s] = IF p.ledger[s] = None THEN main.ledger[s] ELSE p.ledger[s]
          /\ \A m \in Missions :
               u.packages[m] = IF p.packages[m] = None THEN main.packages[m] ELSE p.packages[m]
          /\ \A r \in Runs : /\ p.runs[r] = None => u.runs[r] = main.runs[r]
                             /\ p.runs[r] = Removed => u.runs[r] = None
                             /\ p.runs[r] \notin {None, Removed} => u.runs[r] = p.runs[r]
          /\ \A m \in Missions : u.rejected[m] <=> main.rejected[m] \/ p.rejected[m]
      BY <1>0, <3>1, PatchedParts
    <3> HIDE DEF u
    <3>3. Persists(main, u)
      <4>1. \A s \in Signals : main.ledger[s] # None => u.ledger[s] # None
        BY <3>2
      <4>2. \A m \in Missions : main.packages[m] # None => u.packages[m] = main.packages[m]
        BY <3>1, <3>2 DEF Fits
      <4>3. \A m \in Missions : main.rejected[m] => u.rejected[m]
        BY <3>2
      <4>4. \A r \in Runs : Assessed(main, r) => u.runs[r] = main.runs[r]
        BY <3>1, <3>2 DEF Fits
      <4>. QED  BY <4>1, <4>2, <4>3, <4>4 DEF Persists
    <3>4. ASSUME NEW s \in Signals, p.ledger[s] # None
          PROVE  u.ledger[s] # main.ledger[s]
      BY <3>1, <3>2, <3>4 DEF Fits
    <3>5. ASSUME NEW m \in Missions, main.packages[m] = None, u.packages[m] # None
          PROVE  u.ledger[First(u, m)] # main.ledger[First(u, m)]
      <4>1. p.packages[m] # None /\ u.packages[m] = p.packages[m]
        BY <3>2, <3>5
      <4>2. p.packages[m].signals # <<>> /\ p.ledger[p.packages[m].signals[1]] # None
        BY <3>1, <4>1 DEF Fits
      <4>3. First(u, m) \in Signals /\ p.ledger[First(u, m)] # None
        BY <3>1, <4>1, <4>2, PatchParts, FirstSignal DEF First
      <4>. QED  BY <3>4, <4>3
    <3>6. ASSUME NEW m \in Missions, u.rejected[m], ~main.rejected[m]
          PROVE  main.packages[m] # None /\ u.ledger[First(main, m)] # main.ledger[First(main, m)]
      <4>1. p.rejected[m]
        BY <3>2, <3>6
      <4>2. main.packages[m] # None /\ p.ledger[First(main, m)] # None
        BY <3>1, <4>1 DEF Fits
      <4>3. First(main, m) \in Signals
        BY <1>0, <4>2, TreeParts, FirstSignal DEF Sound, PackagesSound, First
      <4>. QED  BY <3>4, <4>2, <4>3
    <3>7. ASSUME NEW r \in Runs, u.runs[r] # None
          PROVE  main.packages[u.runs[r].mission] # None
      <4>1. CASE p.runs[r] = None
        BY <1>0, <3>2, <3>7, <4>1 DEF Sound, RunsSound
      <4>2. CASE p.runs[r] # None
        BY <3>1, <3>2, <3>7, <4>2 DEF Fits
      <4>. QED  BY <4>1, <4>2
    <3>8. Continues(main, u)
      BY <3>3, <3>5, <3>6, <3>7 DEF Continues
    <3>. QED  BY <3>1, <3>2, <3>8 DEF u
  <2>. QED  BY <2>1, <2>2
<1>2. ASSUME NEW r \in Runs, Running(View(b), r)
      PROVE  /\ View(b).runs[r] \in Run /\ ~View(b).runs[r].closed
             /\ ~Assessed(View(b), r)
             /\ \A s \in Signals : main.ledger[s] # None => r \notin main.ledger[s].runs
  <2>1. View(b).runs[r] \in Run /\ ~View(b).runs[r].closed /\ View(b).runs[r] # None
    BY <1>1, <1>2, TreeParts DEF Running
  <2>2. ~Assessed(View(b), r)
    BY <1>1, <2>1 DEF Sound, RunsSound, Assessed
  <2>3. ~Assessed(main, r)
    BY <1>1, <2>2 DEF Continues, Persists, Assessed
  <2>. QED  BY <1>0, <2>1, <2>2, <2>3 DEF Sound, LedgerSound, ItemSound
<1>. QED  BY <1>1, <1>2

\* A push that leaves packages, verdicts and the ledger alone.
LEMMA RunsPush ==
  ASSUME RecordInv, NEW b \in Branches, NEW v \in Tree, Push(b, v),
         v.ledger = View(b).ledger, v.packages = View(b).packages, v.rejected = View(b).rejected,
         \A r \in Runs : Assessed(View(b), r) => v.runs[r] = View(b).runs[r],
         \A r \in Runs : v.runs[r] # None =>
           /\ main.packages[v.runs[r].mission] # None
           /\ v.runs[r].assessment # None => v.runs[r].closed
  PROVE  RecordInv'
<1> DEFINE u == View(b)
<1>0. u \in Tree /\ Sound(u) /\ Continues(main, u) /\ main \in Tree
  BY ViewFacts DEF RecordInv, TypeOK
<1>1. /\ v.ledger = u.ledger /\ v.packages = u.packages /\ v.rejected = u.rejected
      /\ \A r \in Runs : Assessed(u, r) => v.runs[r] = u.runs[r]
      /\ Valid(v)
  BY DEF Push
<1> HIDE DEF u
<1>2. Persists(u, v)
  BY <1>1 DEF Persists
<1>3. LedgerSound(v)
  BY <1>0, <1>1, <1>2, PersistingParts DEF LedgerSound
<1>4. BasesSound(v)
  BY <1>0, <1>1, <1>2, PersistingParts, BasisIsLedger DEF BasesSound, Sound
<1>5. ASSUME NEW r \in Runs, v.runs[r] # None
      PROVE  v.packages[v.runs[r].mission] # None
  <2>1. v.runs[r].mission \in Missions /\ main.packages[v.runs[r].mission] # None
    BY <1>5, TreeParts, RunParts
  <2>. QED  BY <1>0, <1>1, <2>1 DEF Continues, Persists
<1>6. \A m \in Missions : v.packages[m] # None => v.packages[m].signals # <<>>
  BY <1>0, <1>1 DEF Sound, PackagesSound
<1>7. Sound(v)
  BY <1>1, <1>3, <1>4, <1>5, <1>6, ValidIsSound
<1>8. Continues(main, v)
  <2>1. Persists(main, v)
    BY <1>0, <1>2, PersistsOn DEF Continues
  <2>2. \A m \in Missions : main.packages[m] = None /\ v.packages[m] # None =>
          v.ledger[First(v, m)] # main.ledger[First(v, m)]
    BY <1>0, <1>1 DEF Continues, First
  <2>3. \A m \in Missions : v.rejected[m] /\ ~main.rejected[m] =>
          main.packages[m] # None /\ v.ledger[First(main, m)] # main.ledger[First(main, m)]
    BY <1>0, <1>1 DEF Continues
  <2>. QED  BY <2>1, <2>2, <2>3 DEF Continues
<1>. QED  BY <1>7, <1>8, PushKeeps

\* A tree with another run.
LEMMA WithRun ==
  ASSUME NEW u \in Tree, NEW r \in Runs, NEW x \in Run \cup {None}
  PROVE  /\ [u EXCEPT !.runs[r] = x] \in Tree
         /\ [u EXCEPT !.runs[r] = x].ledger = u.ledger
         /\ [u EXCEPT !.runs[r] = x].packages = u.packages
         /\ [u EXCEPT !.runs[r] = x].rejected = u.rejected
         /\ [u EXCEPT !.runs[r] = x].runs = [u.runs EXCEPT ![r] = x]
         /\ [u EXCEPT !.runs[r] = x].runs[r] = x
         /\ \A q \in Runs : q # r => [u EXCEPT !.runs[r] = x].runs[q] = u.runs[q]
<1>1. u.runs \in [Runs -> Run \cup {None}]
  BY TreeParts
<1>2. [u.runs EXCEPT ![r] = x] \in [Runs -> Run \cup {None}]
  BY <1>1
<1>. QED  BY <1>1, <1>2 DEF Tree

\* Opening a run.
LEMMA OpenKeeps ==
  ASSUME RecordInv, NEW b \in Branches, NEW r \in Runs, NEW m \in Missions, Open(b, r, m)
  PROVE  RecordInv'
<1> DEFINE x == [mission |-> m, closed |-> FALSE, bundle |-> FALSE, assessment |-> None]
           v == [main EXCEPT !.runs[r] = x]
<1>1. branch[b] = None /\ main.packages[m] # None /\ main.runs[r] = None /\ Push(b, v)
  BY DEF Open
<1>2. x \in Run /\ x.mission = m /\ x.assessment = None
  BY DEF Run
<1> HIDE DEF x
<1>3. main \in Tree /\ Sound(main) /\ View(b) = main
  BY <1>1 DEF RecordInv, TypeOK, View
<1>4. /\ v \in Tree /\ v.ledger = main.ledger /\ v.packages = main.packages
      /\ v.rejected = main.rejected /\ v.runs[r] = x
      /\ \A q \in Runs : q # r => v.runs[q] = main.runs[q]
  BY <1>2, <1>3, WithRun
<1> HIDE DEF v
<1>5. \A q \in Runs : Assessed(main, q) => v.runs[q] = main.runs[q]
  BY <1>1, <1>4 DEF Assessed
<1>6. ASSUME NEW q \in Runs, v.runs[q] # None
      PROVE  /\ main.packages[v.runs[q].mission] # None
             /\ v.runs[q].assessment # None => v.runs[q].closed
  BY <1>1, <1>2, <1>3, <1>4, <1>6 DEF Sound, RunsSound
<1>. QED  BY <1>1, <1>3, <1>4, <1>5, <1>6, RunsPush

\* A push that changes one open run of the branch and does not assess it.
LEMMA OneRunPush ==
  ASSUME RecordInv, NEW b \in Branches, NEW r \in Runs, Running(View(b), r),
         NEW x \in Run, x.mission = View(b).runs[r].mission, x.assessment = None,
         Push(b, [View(b) EXCEPT !.runs[r] = x])
  PROVE  RecordInv'
<1> DEFINE u == View(b)
           v == [u EXCEPT !.runs[r] = x]
<1>1. u \in Tree /\ Sound(u) /\ Continues(main, u) /\ ~Assessed(u, r) /\ u.runs[r] # None
      /\ Push(b, v)
  BY ViewFacts DEF Running
<1>2. /\ v \in Tree /\ v.ledger = u.ledger /\ v.packages = u.packages
      /\ v.rejected = u.rejected /\ v.runs[r] = x
      /\ \A q \in Runs : q # r => v.runs[q] = u.runs[q]
  BY <1>1, WithRun
<1>3. x.mission = u.runs[r].mission
  OBVIOUS
<1> HIDE DEF v, u
<1>4. \A q \in Runs : Assessed(u, q) => v.runs[q] = u.runs[q]
  BY <1>1, <1>2
<1>5. ASSUME NEW q \in Runs, v.runs[q] # None
      PROVE  /\ main.packages[v.runs[q].mission] # None
             /\ v.runs[q].assessment # None => v.runs[q].closed
  <2>1. CASE q = r
    BY <1>1, <1>2, <1>3, <2>1 DEF Continues
  <2>2. CASE q # r
    BY <1>1, <1>2, <1>5, <2>2 DEF Continues, Sound, RunsSound
  <2>. QED  BY <2>1, <2>2
<1>. QED  BY <1>1, <1>2, <1>4, <1>5, RunsPush DEF u

\* Recording an artifact of a run.
LEMMA RecordKeeps ==
  ASSUME RecordInv, NEW b \in Branches, NEW r \in Runs, Record(b, r)
  PROVE  RecordInv'
<1> DEFINE x == [View(b).runs[r] EXCEPT !.bundle = TRUE]
<1>1. Running(View(b), r) /\ Push(b, [View(b) EXCEPT !.runs[r].bundle = TRUE])
  BY DEF Record
<1>2. View(b).runs[r] \in Run /\ View(b).runs[r].assessment = None
  BY <1>1, ViewFacts, NoneAssumption DEF Assessed
<1>3. x \in Run /\ x.mission = View(b).runs[r].mission /\ x.assessment = None
  BY <1>2 DEF Run
<1>4. Push(b, [View(b) EXCEPT !.runs[r] = x])
  BY <1>1
<1>. QED  BY <1>1, <1>3, <1>4, OneRunPush

\* Closing a run and forgetting its assessment.
LEMMA CloseOnlyKeeps ==
  ASSUME RecordInv, NEW b \in Branches, NEW r \in Runs, CloseOnly(b, r)
  PROVE  RecordInv'
<1> DEFINE x == [View(b).runs[r] EXCEPT !.closed = TRUE]
<1>1. Running(View(b), r) /\ Push(b, [View(b) EXCEPT !.runs[r].closed = TRUE])
  BY DEF CloseOnly
<1>2. View(b).runs[r] \in Run /\ View(b).runs[r].assessment = None
  BY <1>1, ViewFacts, NoneAssumption DEF Assessed
<1>3. x \in Run /\ x.mission = View(b).runs[r].mission /\ x.assessment = None
  BY <1>2 DEF Run
<1>4. Push(b, [View(b) EXCEPT !.runs[r] = x])
  BY <1>1
<1>. QED  BY <1>1, <1>3, <1>4, OneRunPush

\* The runs of rejected missions carry no verdict.
LEMMA MendedParts ==
  ASSUME NEW t \in Tree, Sound(t)
  PROVE  /\ Mended(t) \in Tree
         /\ Mended(t).ledger = t.ledger /\ Mended(t).packages = t.packages
         /\ Mended(t).rejected = t.rejected
         /\ \A r \in Runs : Mended(t).runs[r] # None =>
              Mended(t).runs[r] = t.runs[r] /\ ~t.rejected[t.runs[r].mission]
         /\ \A r \in Runs : Assessed(t, r) => Mended(t).runs[r] = t.runs[r]
<1> DEFINE f == [r \in Runs |-> IF t.runs[r] = None THEN None
                                ELSE IF t.rejected[t.runs[r].mission] THEN None ELSE t.runs[r]]
<1>1. Mended(t) = [t EXCEPT !.runs = f]
  BY DEF Mended
<1>2. \A r \in Runs : f[r] \in Run \cup {None}
  BY TreeParts
<1>3. f \in [Runs -> Run \cup {None}]
  BY <1>2
<1>4. /\ \A r \in Runs : f[r] # None => f[r] = t.runs[r] /\ ~t.rejected[t.runs[r].mission]
      /\ \A r \in Runs : Assessed(t, r) => f[r] = t.runs[r]
  BY DEF Sound, VerdictsSound, Assessed
<1> HIDE DEF f
<1>5. /\ Mended(t) \in Tree
      /\ Mended(t).ledger = t.ledger /\ Mended(t).packages = t.packages
      /\ Mended(t).rejected = t.rejected /\ Mended(t).runs = f
  BY <1>1, <1>3 DEF Tree
<1>. QED  BY <1>4, <1>5

\* Taking back the runs of rejected missions.
LEMMA TakeBackKeeps ==
  ASSUME RecordInv, NEW b \in Branches, TakeBack(b)
  PROVE  RecordInv'
<1>1. main \in Tree /\ Sound(main) /\ View(b) = main /\ Push(b, Mended(main))
  BY DEF TakeBack, RecordInv, TypeOK, View
<1>2. \A r \in Runs : Mended(main).runs[r] # None =>
        /\ main.packages[Mended(main).runs[r].mission] # None
        /\ Mended(main).runs[r].assessment # None => Mended(main).runs[r].closed
  BY <1>1, MendedParts DEF Sound, RunsSound
<1>. QED  BY <1>1, <1>2, MendedParts, RunsPush

\* A ledger in which some signals have a new disposition.
LEMMA DisposedItem ==
  ASSUME NEW l, NEW S, NEW m, NEW d, NEW R, NEW s \in Signals, s \in S
  PROVE  /\ Dispose(l, S, m, d, R)[s].disposition = d
         /\ Dispose(l, S, m, d, R)[s].mission = m
         /\ Dispose(l, S, m, d, R)[s].runs = RunsOn(l, s) \cup R
<1>1. Dispose(l, S, m, d, R)[s]
        = [disposition |-> d, mission |-> m, runs |-> RunsOn(l, s) \cup R]
  BY DEF Dispose
<1>. QED  BY <1>1

\* It leaves the other items alone.
LEMMA OtherItem ==
  ASSUME NEW l, NEW S, NEW m, NEW d, NEW R, NEW s \in Signals, s \notin S
  PROVE  Dispose(l, S, m, d, R)[s] = l[s]
  BY DEF Dispose

\* It is a ledger.
LEMMA DisposedType ==
  ASSUME NEW l \in Ledger, NEW S, NEW m \in Missions \cup {None}, NEW d \in Dispositions,
         NEW R \in SUBSET Runs
  PROVE  /\ Dispose(l, S, m, d, R) \in Ledger
         /\ \A s \in S : s \in Signals => Dispose(l, S, m, d, R)[s] # None
<1>1. \A s \in Signals : RunsOn(l, s) \in SUBSET Runs
  BY ItemParts DEF RunsOn, Ledger
<1>2. \A s \in Signals :
        [disposition |-> d, mission |-> m, runs |-> RunsOn(l, s) \cup R] \in Item
  BY <1>1 DEF Item
<1>3. \A s \in Signals :
        Dispose(l, S, m, d, R)[s] =
          IF s \in S THEN [disposition |-> d, mission |-> m, runs |-> RunsOn(l, s) \cup R]
          ELSE l[s]
  BY DEF Dispose
<1>4. Dispose(l, S, m, d, R) \in Ledger
  <2>1. \A s \in Signals :
          (IF s \in S THEN [disposition |-> d, mission |-> m, runs |-> RunsOn(l, s) \cup R]
           ELSE l[s]) \in Item \cup {None}
    BY <1>2 DEF Ledger
  <2>. QED  BY <2>1 DEF Dispose, Ledger
<1>. QED  BY <1>2, <1>3, <1>4, NoneAssumption

\* New dispositions keep the ledger sound if they are about a mission with its
\* package, its verdict when they are terminal, and runs that are assessed.
LEMMA DisposedLedger ==
  ASSUME NEW u \in Tree, NEW v \in Tree, Sound(u), Persists(u, v),
         NEW S, NEW m \in Missions \cup {None}, NEW d \in Dispositions, NEW R \in SUBSET Runs,
         v.ledger = Dispose(u.ledger, S, m, d, R),
         \A r \in R : Assessed(v, r),
         m # None => v.packages[m] # None /\ (d \in Terminal => HasVerdict(v, m))
  PROVE  LedgerSound(v)
<1> SUFFICES ASSUME NEW s \in Signals PROVE ItemSound(v, s)
  BY DEF LedgerSound
<1>0. u.ledger \in Ledger
  BY TreeParts
<1>1. CASE s \notin S
  <2>1. v.ledger[s] = u.ledger[s]
    BY <1>1, OtherItem
  <2>. QED  BY <2>1, PersistingParts
<1>2. CASE s \in S
  <2>1. /\ v.ledger[s].disposition = d /\ v.ledger[s].mission = m
        /\ v.ledger[s].runs = RunsOn(u.ledger, s) \cup R
    BY <1>2, DisposedItem
  <2>2. ASSUME NEW r \in RunsOn(u.ledger, s) PROVE Assessed(v, r)
    <3>1. r \in Runs
      BY <1>0, <2>2, ItemParts DEF RunsOn, Ledger
    <3>2. Assessed(u, r)
      BY <2>2 DEF RunsOn, Sound, LedgerSound, ItemSound
    <3>. QED  BY <3>1, <3>2 DEF Persists, Assessed
  <2>. QED  BY <2>1, <2>2 DEF ItemSound
<1>. QED  BY <1>1, <1>2

\* Main's own ledger is a sound basis.
LEMMA LedgerIsBasis ==
  ASSUME NEW t \in Tree, Sound(t)
  PROVE  BasisSound(t, t.ledger)
<1> SUFFICES ASSUME NEW s \in Signals, t.ledger[s] # None, NEW q \in t.ledger[s].runs
             PROVE  /\ Assessed(t, q)
                    /\ First(t, t.runs[q].mission) = s /\ t.ledger[s].mission = t.runs[q].mission
                         => t.ledger[s].disposition = t.runs[q].assessment
  BY DEF BasisSound
<1>1. q \in Runs /\ Assessed(t, q)
  BY TreeParts, ItemParts DEF Sound, LedgerSound, ItemSound
<1>2. t.runs[q] # None /\ t.packages[t.runs[q].mission] # None /\ AssessmentOK(t, q)
  BY <1>1 DEF Assessed, Sound, RunsSound, AssessmentsSound
<1>. QED  BY <1>1, <1>2 DEF AssessmentOK, ItemOf, First

\* Runs and packages of a tree that only grows keep what the validator does
\* not see.
LEMMA GrownParts ==
  ASSUME NEW u \in Tree, NEW v \in Tree, Sound(u), Persists(u, v),
         \A r \in Runs : v.runs[r] = u.runs[r]
  PROVE  \A r \in Runs : v.runs[r] # None =>
           /\ v.packages[v.runs[r].mission] # None
           /\ v.runs[r].assessment # None => v.runs[r].closed
<1> SUFFICES ASSUME NEW r \in Runs, v.runs[r] # None
             PROVE  /\ v.packages[v.runs[r].mission] # None
                    /\ v.runs[r].assessment # None => v.runs[r].closed
  OBVIOUS
<1>1. v.runs[r].mission \in Missions /\ v.runs[r] = u.runs[r]
  BY TreeParts, RunParts
<1>. QED  BY <1>1 DEF Sound, RunsSound, Persists

\* A tree with a new package.
LEMMA FormulatedParts ==
  ASSUME NEW t \in Tree, NEW m \in Missions, NEW package \in Package
  PROVE  /\ Formulated(t, m, package) \in Tree
         /\ Formulated(t, m, package).ledger
              = Dispose(t.ledger, SignalsOf(package), m, "active", {})
         /\ Formulated(t, m, package).packages[m] = package
         /\ \A n \in Missions : n # m => Formulated(t, m, package).packages[n] = t.packages[n]
         /\ Formulated(t, m, package).runs = t.runs
         /\ Formulated(t, m, package).rejected = t.rejected
<1> DEFINE l == Dispose(t.ledger, SignalsOf(package), m, "active", {})
           g == [t.packages EXCEPT ![m] = package]
<1>1. l \in Ledger
  BY TreeParts, DisposedType DEF Dispositions
<1>2. /\ g \in [Missions -> Package \cup {None}] /\ g[m] = package
      /\ \A n \in Missions : n # m => g[n] = t.packages[n]
  BY TreeParts
<1>3. Formulated(t, m, package) = [t EXCEPT !.packages = g, !.ledger = l]
  BY DEF Formulated
<1> HIDE DEF l, g
<1>4. /\ [t EXCEPT !.packages = g, !.ledger = l] \in Tree
      /\ [t EXCEPT !.packages = g, !.ledger = l].ledger = l
      /\ [t EXCEPT !.packages = g, !.ledger = l].packages = g
      /\ [t EXCEPT !.packages = g, !.ledger = l].runs = t.runs
      /\ [t EXCEPT !.packages = g, !.ledger = l].rejected = t.rejected
  BY <1>1, <1>2 DEF Tree
<1>. QED  BY <1>2, <1>3, <1>4 DEF l

\* Formulating a mission: the package pins main's ledger, and its ledger item
\* is new.
LEMMA FormulateKeeps ==
  ASSUME RecordInv, NEW b \in Branches, NEW p \in Proposals, Formulate(b, p)
  PROVE  RecordInv'
<1> DEFINE m == p.mission
<1>0. main \in Tree /\ Sound(main) /\ main.ledger \in Ledger
  BY TreeParts DEF RecordInv, TypeOK
<1>1. p \in Proposal /\ m \in Missions /\ p.signals \in Seq(Signals) /\ p.signals # <<>>
      /\ p.contract \in SUBSET Signals
  BY ProposalsAssumption DEF Proposal
<1>2. PICK override \in Overrides({p.signals[i] : i \in 1..Len(p.signals)}) :
        Push(b, Formulated(main, m,
          [signals |-> p.signals, contract |-> p.contract, override |-> override,
           current |-> TRUE, basis |-> main.ledger]))
  BY DEF Formulate
<1>3. override \in Override \cup {None}
  <2>1. {p.signals[i] : i \in 1..Len(p.signals)} \subseteq Signals
    BY <1>1
  <2>2. \A s \in Signals : Settled(s) =>
          [signal |-> s, prior |-> main.ledger[s].disposition] \in Override
    BY DEF Settled, Override
  <2>. QED  BY <1>2, <2>1, <2>2 DEF Overrides
<1> DEFINE package == [signals |-> p.signals, contract |-> p.contract, override |-> override,
                       current |-> TRUE, basis |-> main.ledger]
           v == Formulated(main, m, package)
<1>4. package \in Package /\ package.signals # <<>> /\ package.basis = main.ledger
      /\ package # None
  <2>1. package \in Package
    BY <1>0, <1>1, <1>3 DEF Package
  <2>. QED  BY <1>1, <2>1, NoneAssumption
<1>5. Push(b, v) /\ main.packages[m] = None /\ Valid(v)
  BY <1>2 DEF Formulate, Push
<1> HIDE DEF package, m
<1>6. /\ v \in Tree /\ v.ledger = Dispose(main.ledger, SignalsOf(package), m, "active", {})
      /\ v.packages[m] = package /\ \A n \in Missions : n # m => v.packages[n] = main.packages[n]
      /\ v.runs = main.runs /\ v.rejected = main.rejected
  BY <1>0, <1>1, <1>4, FormulatedParts
<1> HIDE DEF v
<1>7. /\ \A s \in Signals : s \notin SignalsOf(package) => v.ledger[s] = main.ledger[s]
      /\ \A s \in Signals : s \in SignalsOf(package) => v.ledger[s] # None /\ v.ledger[s].mission = m
  <2>1. "active" \in Dispositions /\ m \in Missions \cup {None} /\ {} \in SUBSET Runs
    BY <1>1 DEF Dispositions
  <2>2. \A s \in Signals : s \notin SignalsOf(package) => v.ledger[s] = main.ledger[s]
    BY <1>6, OtherItem
  <2>3. \A s \in Signals : s \in SignalsOf(package) => v.ledger[s].mission = m
    BY <1>6, DisposedItem
  <2>4. \A s \in SignalsOf(package) : s \in Signals => v.ledger[s] # None
    BY <1>0, <1>6, <2>1, DisposedType
  <2>. QED  BY <2>2, <2>3, <2>4
<1>8. Persists(main, v)
  BY <1>5, <1>6, <1>7 DEF Persists
<1>9. LedgerSound(v)
  <2>1. /\ v.packages[m] # None /\ "active" \notin Terminal /\ "active" \in Dispositions
        /\ m \in Missions \cup {None} /\ {} \in SUBSET Runs /\ \A r \in {} : Assessed(v, r)
    BY <1>1, <1>4, <1>6 DEF Terminal, Dispositions
  <2>. QED  BY <1>0, <1>1, <1>6, <1>8, <2>1, DisposedLedger
<1>10. BasesSound(v)
  <2> SUFFICES ASSUME NEW n \in Missions, v.packages[n] # None
               PROVE  BasisSound(v, v.packages[n].basis)
    BY DEF BasesSound
  <2>1. CASE n = m
    <3>1. BasisSound(v, main.ledger)
      BY <1>0, <1>6, <1>8, LedgerIsBasis, PersistingParts
    <3>. QED  BY <1>4, <1>6, <2>1, <3>1
  <2>2. CASE n # m
    <3>1. v.packages[n] = main.packages[n] /\ main.packages[n].basis \in Ledger
      BY <1>0, <1>6, <2>2, BasisIsLedger
    <3>2. BasisSound(main, main.packages[n].basis)
      BY <1>0, <3>1 DEF Sound, BasesSound
    <3>. QED  BY <1>0, <1>6, <1>8, <3>1, <3>2, PersistingParts
  <2>. QED  BY <2>1, <2>2
<1>11. \A n \in Missions : v.packages[n] # None => v.packages[n].signals # <<>>
  BY <1>0, <1>4, <1>6 DEF Sound, PackagesSound
<1>12. Sound(v)
  BY <1>0, <1>5, <1>6, <1>8, <1>9, <1>10, <1>11, GrownParts, ValidIsSound
<1>13. Continues(main, v)
  <2>1. ASSUME NEW n \in Missions, main.packages[n] = None, v.packages[n] # None
        PROVE  v.ledger[First(v, n)] # main.ledger[First(v, n)]
    <3>1. n = m
      BY <1>6, <2>1
    <3>2. First(v, n) \in Signals /\ First(v, n) \in SignalsOf(package)
      BY <1>4, <1>6, <3>1, FirstSignal DEF First
    <3>3. v.ledger[First(v, n)] # None /\ v.ledger[First(v, n)].mission = m
      BY <1>7, <3>2
    <3>. QED  BY <1>0, <1>1, <1>5, <3>2, <3>3, NoneAssumption DEF Sound, LedgerSound, ItemSound
  <2>2. \A r \in Runs : v.runs[r] # None => main.packages[v.runs[r].mission] # None
    BY <1>0, <1>6 DEF Sound, RunsSound
  <2>. QED  BY <1>6, <1>8, <2>1, <2>2 DEF Continues
<1>. QED  BY <1>5, <1>6, <1>12, <1>13, PushKeeps

\* The runs of such a tree.
RunsAfter(t, r, d) ==
  [t.runs EXCEPT ![r] = [t.runs[r] EXCEPT !.closed = TRUE, !.assessment = d]]

\* A tree in which a run is closed with its assessment.
LEMMA ClosedTree ==
  ASSUME NEW t \in Tree, NEW r \in Runs, NEW d \in Terminal, t.runs[r] \in Run
  PROVE  /\ Closed(t, r, d) \in Tree
         /\ Closed(t, r, d).ledger
              = Dispose(t.ledger, SignalsOf(t.packages[t.runs[r].mission]),
                        t.runs[r].mission, d, {r})
         /\ Closed(t, r, d).packages = t.packages /\ Closed(t, r, d).rejected = t.rejected
         /\ Closed(t, r, d).runs = RunsAfter(t, r, d)
<1> DEFINE m == t.runs[r].mission
           l == Dispose(t.ledger, SignalsOf(t.packages[m]), m, d, {r})
           x == [t.runs[r] EXCEPT !.closed = TRUE, !.assessment = d]
           f == [t.runs EXCEPT ![r] = x]
<1>1. m \in Missions /\ d \in Dispositions
  BY RunParts DEF Dispositions
<1>2. l \in Ledger
  <2>1. t.ledger \in Ledger /\ m \in Missions \cup {None} /\ {r} \in SUBSET Runs
    BY <1>1, TreeParts
  <2>. QED  BY <1>1, <2>1, DisposedType
<1>3. x \in Run
  BY DEF Run
<1>4. f \in [Runs -> Run \cup {None}]
  BY <1>3, TreeParts
<1>5. Closed(t, r, d) = [t EXCEPT !.runs = f, !.ledger = l]
  <2>1. t.runs \in [Runs -> Run \cup {None}]
    BY TreeParts
  <2>. QED  BY <2>1 DEF Closed, Tree
<1> HIDE DEF l, f
<1>6. /\ [t EXCEPT !.runs = f, !.ledger = l] \in Tree
      /\ [t EXCEPT !.runs = f, !.ledger = l].ledger = l
      /\ [t EXCEPT !.runs = f, !.ledger = l].packages = t.packages
      /\ [t EXCEPT !.runs = f, !.ledger = l].runs = f
      /\ [t EXCEPT !.runs = f, !.ledger = l].rejected = t.rejected
  BY <1>2, <1>4 DEF Tree
<1>7. /\ Closed(t, r, d) \in Tree /\ Closed(t, r, d).ledger = l
      /\ Closed(t, r, d).packages = t.packages /\ Closed(t, r, d).rejected = t.rejected
      /\ Closed(t, r, d).runs = f
  BY <1>5, <1>6
<1>. QED  BY <1>7 DEF l, f, RunsAfter

\* The run that is closed, and the others.
LEMMA ClosedRun ==
  ASSUME NEW t \in Tree, NEW r \in Runs, NEW d \in Terminal, t.runs[r] \in Run
  PROVE  /\ RunsAfter(t, r, d)[r] \in Run
         /\ RunsAfter(t, r, d)[r].mission = t.runs[r].mission
         /\ RunsAfter(t, r, d)[r].closed /\ RunsAfter(t, r, d)[r].assessment = d
         /\ RunsAfter(t, r, d)[r].bundle = t.runs[r].bundle
         /\ \A q \in Runs : q # r => RunsAfter(t, r, d)[q] = t.runs[q]
<1> DEFINE x == [t.runs[r] EXCEPT !.closed = TRUE, !.assessment = d]
<1>1. /\ x \in Run /\ x.mission = t.runs[r].mission /\ x.closed /\ x.assessment = d
      /\ x.bundle = t.runs[r].bundle
  BY DEF Run
<1>2. RunsAfter(t, r, d) = [t.runs EXCEPT ![r] = x]
  BY DEF RunsAfter
<1> HIDE DEF x
<1>3. RunsAfter(t, r, d)[r] = x /\ \A q \in Runs : q # r => RunsAfter(t, r, d)[q] = t.runs[q]
  BY <1>2, TreeParts
<1>. QED  BY <1>1, <1>3

\* Closing a run with its assessment: main's items do not list it yet, so the
\* item of its mission is new to main.
LEMMA CloseKeeps ==
  ASSUME RecordInv, NEW b \in Branches, NEW r \in Runs, NEW d \in Closings, Close(b, r, d)
  PROVE  RecordInv'
<1> DEFINE u == View(b)
           m == u.runs[r].mission
           S == SignalsOf(u.packages[m])
           v == Closed(u, r, d)
<1>0. /\ u \in Tree /\ Sound(u) /\ Continues(main, u)
      /\ u.runs[r] \in Run /\ ~Assessed(u, r)
      /\ \A s \in Signals : main.ledger[s] # None => r \notin main.ledger[s].runs
      /\ Push(b, v) /\ Valid(v)
  BY ViewFacts DEF Close, Push
<1>1. main \in Tree /\ Sound(main) /\ d \in Terminal /\ d \in Dispositions /\ d # None
  BY ClosingsAssumption, NoneAssumption DEF RecordInv, TypeOK, Dispositions
<1> HIDE DEF u
<1>2. m \in Missions /\ u.packages[m] # None /\ u.runs[r] # None
  <2>1. m \in Missions /\ u.runs[r] # None
    BY <1>0, RunParts, NoneAssumption
  <2>. QED  BY <1>0, <2>1 DEF Sound, RunsSound
<1>3. /\ v \in Tree /\ v.ledger = Dispose(u.ledger, S, m, d, {r})
      /\ v.packages = u.packages /\ v.rejected = u.rejected
      /\ v.runs[r] \in Run /\ v.runs[r].mission = m /\ v.runs[r].closed /\ v.runs[r].assessment = d
      /\ \A q \in Runs : q # r => v.runs[q] = u.runs[q]
  <2>1. /\ v \in Tree /\ v.ledger = Dispose(u.ledger, S, m, d, {r})
        /\ v.packages = u.packages /\ v.rejected = u.rejected
        /\ v.runs = RunsAfter(u, r, d)
    BY <1>0, <1>1, ClosedTree
  <2>2. /\ v.runs[r] \in Run /\ v.runs[r].mission = m /\ v.runs[r].closed
        /\ v.runs[r].assessment = d
        /\ \A q \in Runs : q # r => v.runs[q] = u.runs[q]
    BY <1>0, <1>1, <2>1, ClosedRun
  <2>. QED  BY <2>1, <2>2
<1> HIDE DEF v, S, m
<1>4. /\ \A s \in Signals : s \notin S => v.ledger[s] = u.ledger[s]
      /\ \A s \in Signals : s \in S => v.ledger[s] # None /\ r \in v.ledger[s].runs
  <2>1. u.ledger \in Ledger /\ {r} \in SUBSET Runs
    BY <1>0, TreeParts
  <2>2. \A s \in Signals : s \notin S => v.ledger[s] = u.ledger[s]
    BY <1>3, OtherItem
  <2>3. \A s \in Signals : s \in S => v.ledger[s].runs = RunsOn(u.ledger, s) \cup {r}
    BY <1>3, DisposedItem
  <2>4. \A s \in S : s \in Signals => v.ledger[s] # None
    <3>1. m \in Missions \cup {None}
      BY <1>2
    <3>. QED  BY <1>1, <1>3, <2>1, <3>1, DisposedType
  <2>. QED  BY <2>2, <2>3, <2>4
<1>5. Assessed(v, r)
  BY <1>1, <1>3, NoneAssumption DEF Assessed
<1>6. Persists(u, v)
  BY <1>0, <1>3, <1>4 DEF Persists
<1>7. LedgerSound(v)
  <2>1. HasVerdict(v, m)
    BY <1>3, <1>5 DEF HasVerdict
  <2>2. {r} \in SUBSET Runs /\ \A q \in {r} : Assessed(v, q)
    BY <1>5
  <2>3. m \in Missions \cup {None} /\ v.packages[m] # None
    BY <1>2, <1>3
  <2>. QED  BY <1>0, <1>1, <1>3, <1>6, <2>1, <2>2, <2>3, DisposedLedger
<1>8. BasesSound(v)
  BY <1>0, <1>3, <1>6, PersistingParts, BasisIsLedger DEF BasesSound, Sound
<1>9. \A q \in Runs : v.runs[q] # None =>
        /\ v.packages[v.runs[q].mission] # None
        /\ v.runs[q].assessment # None => v.runs[q].closed
  BY <1>0, <1>2, <1>3 DEF Sound, RunsSound
<1>10. \A n \in Missions : v.packages[n] # None => v.packages[n].signals # <<>>
  BY <1>0, <1>3 DEF Sound, PackagesSound
<1>11. Sound(v)
  BY <1>0, <1>3, <1>7, <1>8, <1>9, <1>10, ValidIsSound
<1>12. ASSUME NEW s \in Signals, u.ledger[s] # main.ledger[s]
       PROVE  v.ledger[s] # main.ledger[s]
  BY <1>0, <1>4, <1>12
<1>13. Continues(main, v)
  <2>1. Persists(main, v)
    BY <1>0, <1>6, PersistsOn DEF Continues
  <2>2. ASSUME NEW n \in Missions, main.packages[n] = None, v.packages[n] # None
        PROVE  v.ledger[First(v, n)] # main.ledger[First(v, n)]
    <3>1. First(v, n) = First(u, n) /\ First(u, n) \in Signals
      BY <1>0, <1>3, <2>2, TreeParts, FirstSignal DEF First, Sound, PackagesSound
    <3>2. u.ledger[First(u, n)] # main.ledger[First(u, n)]
      BY <1>0, <1>3, <2>2 DEF Continues
    <3>. QED  BY <1>12, <3>1, <3>2
  <2>3. ASSUME NEW n \in Missions, v.rejected[n], ~main.rejected[n]
        PROVE  main.packages[n] # None /\ v.ledger[First(main, n)] # main.ledger[First(main, n)]
    <3>1. main.packages[n] # None /\ u.ledger[First(main, n)] # main.ledger[First(main, n)]
      BY <1>0, <1>3, <2>3 DEF Continues
    <3>2. First(main, n) \in Signals
      BY <1>1, <3>1, TreeParts, FirstSignal DEF First, Sound, PackagesSound
    <3>. QED  BY <1>12, <3>1, <3>2
  <2>4. ASSUME NEW q \in Runs, v.runs[q] # None
        PROVE  main.packages[v.runs[q].mission] # None
    <3>1. v.runs[q].mission = u.runs[q].mission /\ u.runs[q] # None
      BY <1>2, <1>3, <2>4 DEF m
    <3>. QED  BY <1>0, <3>1 DEF Continues
  <2>. QED  BY <2>1, <2>2, <2>3, <2>4 DEF Continues
<1>. QED  BY <1>0, <1>3, <1>11, <1>13, PushKeeps

\* Rejecting a mission: it had no verdict, so its ledger item is new to main.
LEMMA RejectKeeps ==
  ASSUME RecordInv, NEW b \in Branches, NEW m \in Missions, Reject(b, m)
  PROVE  RecordInv'
<1> DEFINE S == SignalsOf(main.packages[m])
           l == Dispose(main.ledger, S, m, "rejected", {})
           f == [main.rejected EXCEPT ![m] = TRUE]
           v == [main EXCEPT !.rejected = f, !.ledger = l]
<1>0. /\ main \in Tree /\ Sound(main) /\ main.ledger \in Ledger
      /\ main.packages[m] # None /\ ~main.rejected[m] /\ Push(b, v) /\ Valid(v)
      /\ \A r \in Runs : main.runs[r] # None => main.runs[r].mission # m
  <2>1. main \in Tree /\ Sound(main)
    BY DEF RecordInv, TypeOK
  <2>2. Push(b, v)
    BY DEF Reject
  <2>. QED  BY <2>1, <2>2, TreeParts DEF Reject, Push
<1>1. /\ "rejected" \in Dispositions /\ "rejected" \in Terminal
      /\ m \in Missions \cup {None} /\ {} \in SUBSET Runs
  BY DEF Dispositions, Terminal
<1>2. l \in Ledger
  BY <1>0, <1>1, DisposedType
<1>3. f \in [Missions -> BOOLEAN] /\ f[m] /\ \A n \in Missions : n # m => f[n] = main.rejected[n]
  BY <1>0, TreeParts
<1> HIDE DEF S, l, f
<1>4. /\ v \in Tree /\ v.ledger = l /\ v.packages = main.packages /\ v.runs = main.runs
      /\ v.rejected = f
  BY <1>0, <1>2, <1>3 DEF Tree
<1> HIDE DEF v
<1>5. /\ \A s \in Signals : s \notin S => v.ledger[s] = main.ledger[s]
      /\ \A s \in Signals : s \in S => /\ v.ledger[s].disposition = "rejected"
                                       /\ v.ledger[s].mission = m
      /\ \A s \in S : s \in Signals => v.ledger[s] # None
  <2>1. \A s \in Signals : s \notin S => v.ledger[s] = main.ledger[s]
    BY <1>4, OtherItem DEF l
  <2>2. \A s \in Signals : s \in S => /\ v.ledger[s].disposition = "rejected"
                                      /\ v.ledger[s].mission = m
    BY <1>4, DisposedItem DEF l
  <2>3. \A s \in S : s \in Signals => v.ledger[s] # None
    BY <1>0, <1>1, <1>4, DisposedType DEF l
  <2>. QED  BY <2>1, <2>2, <2>3
<1>6. Persists(main, v)
  BY <1>3, <1>4, <1>5 DEF Persists
<1>7. LedgerSound(v)
  <2>1. v.packages[m] # None /\ HasVerdict(v, m) /\ \A r \in {} : Assessed(v, r)
    BY <1>0, <1>3, <1>4 DEF HasVerdict
  <2>2. v.ledger = Dispose(main.ledger, S, m, "rejected", {})
    BY <1>4 DEF l
  <2>. QED  BY <1>0, <1>1, <1>4, <1>6, <2>1, <2>2, DisposedLedger
<1>8. BasesSound(v)
  BY <1>0, <1>4, <1>6, PersistingParts, BasisIsLedger DEF BasesSound, Sound
<1>9. \A n \in Missions : v.packages[n] # None => v.packages[n].signals # <<>>
  BY <1>0, <1>4 DEF Sound, PackagesSound
<1>10. Sound(v)
  BY <1>0, <1>4, <1>6, <1>7, <1>8, <1>9, GrownParts, ValidIsSound
<1>11. v.ledger[First(main, m)] # main.ledger[First(main, m)]
  <2>1. First(main, m) \in Signals /\ First(main, m) \in S
    BY <1>0, TreeParts, FirstSignal DEF First, Sound, PackagesSound, S
  <2>2. /\ v.ledger[First(main, m)] # None /\ v.ledger[First(main, m)].mission = m
        /\ v.ledger[First(main, m)].disposition \in Terminal
    BY <1>1, <1>5, <2>1
  <2>3. ~HasVerdict(main, m)
    BY <1>0 DEF HasVerdict, Assessed
  <2>4. m # None
    BY NoneAssumption
  <2>. QED  BY <1>0, <2>1, <2>2, <2>3, <2>4 DEF Sound, LedgerSound, ItemSound
<1>12. Continues(main, v)
  <2>1. \A n \in Missions : v.rejected[n] /\ ~main.rejected[n] => n = m
    BY <1>3, <1>4
  <2>2. \A r \in Runs : v.runs[r] # None => main.packages[v.runs[r].mission] # None
    BY <1>0, <1>4 DEF Sound, RunsSound
  <2>. QED  BY <1>0, <1>4, <1>6, <1>11, <2>1, <2>2 DEF Continues
<1>. QED  BY <1>0, <1>4, <1>10, <1>12, PushKeeps

-----------------------------------------------------------------------------
(* The steps of main, of the policy and of GitHub.                          *)

\* The branches a merge leaves open are those it does not clash with.
LEMMA RemainingParts ==
  ASSUME RecordInv, NEW q \in Patch
  PROVE  /\ Remaining(q) \in [Branches -> Patch \cup {None}]
         /\ \A c \in Branches : Remaining(q)[c] # None =>
              Remaining(q)[c] = branch[c] /\ ~Clash(branch[c], q)
  BY DEF Remaining, RecordInv, TypeOK

\* Disposing of a signal on main.
LEMMA DecideKeeps ==
  ASSUME RecordInv, NEW s \in Decidable, Decide(s)
  PROVE  RecordInv'
<1> DEFINE l == Dispose(main.ledger, {s}, None, "wont_fix", {})
           v == [main EXCEPT !.ledger = l]
<1>0. /\ main \in Tree /\ Sound(main) /\ main.ledger \in Ledger
      /\ Valid(v) /\ main' = v /\ branch' = Remaining(Diff(v))
  <2>1. main \in Tree /\ Sound(main)
    BY DEF RecordInv, TypeOK
  <2>. QED  BY <2>1, TreeParts DEF Decide
<1>1. "wont_fix" \in Dispositions /\ None \in Missions \cup {None} /\ {} \in SUBSET Runs
  BY DEF Dispositions, Terminal
<1>2. l \in Ledger
  BY <1>0, <1>1, DisposedType
<1> HIDE DEF l
<1>3. /\ v \in Tree /\ v.ledger = l /\ v.packages = main.packages /\ v.runs = main.runs
      /\ v.rejected = main.rejected
  BY <1>0, <1>2 DEF Tree
<1> HIDE DEF v
<1>4. Persists(main, v)
  <2>1. ASSUME NEW t \in Signals, main.ledger[t] # None PROVE v.ledger[t] # None
    <3>1. CASE t \in {s}
      BY <1>0, <1>1, <1>3, <3>1, DisposedType DEF l
    <3>2. CASE t \notin {s}
      <4>1. v.ledger[t] = main.ledger[t]
        BY <1>3, <3>2, OtherItem DEF l
      <4>. QED  BY <2>1, <4>1
    <3>. QED  BY <3>1, <3>2
  <2>. QED  BY <1>3, <2>1 DEF Persists
<1>5. LedgerSound(v)
  <2>1. v.ledger = Dispose(main.ledger, {s}, None, "wont_fix", {})
    BY <1>3 DEF l
  <2>2. \A r \in {} : Assessed(v, r)
    OBVIOUS
  <2>. QED  BY <1>0, <1>1, <1>3, <1>4, <2>1, <2>2, DisposedLedger
<1>6. BasesSound(v)
  BY <1>0, <1>3, <1>4, PersistingParts, BasisIsLedger DEF BasesSound, Sound
<1>7. \A n \in Missions : v.packages[n] # None => v.packages[n].signals # <<>>
  BY <1>0, <1>3 DEF Sound, PackagesSound
<1>8. Sound(v)
  BY <1>0, <1>3, <1>4, <1>5, <1>6, <1>7, GrownParts, ValidIsSound
<1>9. Continues(main, v)
  BY <1>0, <1>3, <1>4 DEF Continues, Sound, RunsSound
<1>10. Diff(v) \in Patch /\ Fits(main, Diff(v)) /\ Merged(Diff(v)) = v
  BY <1>0, <1>3, <1>8, <1>9, DiffFits
<1>. QED  BY <1>0, <1>8, <1>10, RemainingParts, MergeKeeps

\* Merging a branch, the others staying open unless they clash with it.
LEMMA MergeStep ==
  ASSUME RecordInv, NEW b \in Branches, Merge(b)
  PROVE  RecordInv'
<1>1. /\ branch[b] \in Patch /\ Fits(main, branch[b]) /\ Sound(Merged(branch[b]))
      /\ main' = Merged(branch[b]) /\ branch' = [Remaining(branch[b]) EXCEPT ![b] = None]
  BY DEF RecordInv, TypeOK, Merge
<1>2. /\ Remaining(branch[b]) \in [Branches -> Patch \cup {None}]
      /\ \A c \in Branches : Remaining(branch[b])[c] # None =>
           Remaining(branch[b])[c] = branch[c] /\ ~Clash(branch[c], branch[b])
  BY <1>1, RemainingParts
<1>3. /\ branch' \in [Branches -> Patch \cup {None}]
      /\ \A c \in Branches : branch'[c] # None =>
           branch'[c] = branch[c] /\ ~Clash(branch[c], branch[b])
  BY <1>1, <1>2
<1>. QED  BY <1>1, <1>3, MergeKeeps

\* A branch after the policy moved: some of its packages are overtaken.
Overtake(patch) ==
  [patch EXCEPT !.packages = [m \in Missions |->
     IF @[m] # None /\ m \in Overtaken THEN [@[m] EXCEPT !.current = FALSE] ELSE @[m]]]

\* It changes nothing but the policy that packages pin.
LEMMA OvertakeParts ==
  ASSUME NEW p \in Patch
  PROVE  /\ Overtake(p) \in Patch
         /\ Overtake(p).ledger = p.ledger /\ Overtake(p).runs = p.runs
         /\ Overtake(p).rejected = p.rejected
         /\ \A m \in Missions :
              /\ Overtake(p).packages[m] = None <=> p.packages[m] = None
              /\ p.packages[m] # None =>
                   /\ Overtake(p).packages[m].signals = p.packages[m].signals
                   /\ Overtake(p).packages[m].contract = p.packages[m].contract
                   /\ Overtake(p).packages[m].basis = p.packages[m].basis
<1> DEFINE old(m) == [p.packages[m] EXCEPT !.current = FALSE]
           g == [m \in Missions |-> IF p.packages[m] # None /\ m \in Overtaken
                                    THEN old(m) ELSE p.packages[m]]
<1>1. Overtake(p) = [p EXCEPT !.packages = g]
  BY DEF Overtake
<1>2. ASSUME NEW m \in Missions, p.packages[m] # None
      PROVE  /\ old(m) \in Package
             /\ old(m).signals = p.packages[m].signals
             /\ old(m).contract = p.packages[m].contract
             /\ old(m).basis = p.packages[m].basis
  <2>1. p.packages[m] \in Package
    BY <1>2, PatchParts
  <2>. QED  BY <2>1 DEF Package
<1>3. \A m \in Missions : g[m] = IF p.packages[m] # None /\ m \in Overtaken
                                 THEN old(m) ELSE p.packages[m]
  OBVIOUS
<1> HIDE DEF old
<1>4. g \in [Missions -> Package \cup {None}]
  <2>1. \A m \in Missions : g[m] \in Package \cup {None}
    BY <1>2, <1>3, PatchParts
  <2>. QED  BY <2>1
<1> HIDE DEF g
<1>5. /\ Overtake(p) \in Patch /\ Overtake(p).packages = g
      /\ Overtake(p).ledger = p.ledger /\ Overtake(p).runs = p.runs
      /\ Overtake(p).rejected = p.rejected
  BY <1>1, <1>4 DEF Patch
<1>6. \A m \in Missions : g[m] = None <=> p.packages[m] = None
  BY <1>2, <1>3, NoneAssumption
<1>7. \A m \in Missions : p.packages[m] # None =>
        /\ g[m].signals = p.packages[m].signals
        /\ g[m].contract = p.packages[m].contract
        /\ g[m].basis = p.packages[m].basis
  BY <1>2, <1>3
<1>. QED  BY <1>5, <1>6, <1>7

\* Two trees that differ in the policy of packages without a run are alike.
LEMMA SameButPolicy ==
  ASSUME NEW t \in Tree, NEW v \in Tree, Sound(t),
         v.runs = t.runs, \A m \in Missions : v.rejected[m] <=> t.rejected[m],
         \A s \in Signals : v.ledger[s] = t.ledger[s],
         \A m \in Missions :
           /\ v.packages[m] = None <=> t.packages[m] = None
           /\ t.packages[m] # None =>
                /\ v.packages[m].signals = t.packages[m].signals
                /\ v.packages[m].contract = t.packages[m].contract
                /\ v.packages[m].basis = t.packages[m].basis,
         \A r \in Runs : t.runs[r] # None =>
           v.packages[t.runs[r].mission] = t.packages[t.runs[r].mission]
  PROVE  Sound(v)
<1>1. ASSUME NEW m \in Missions, t.packages[m] # None
      PROVE  /\ First(v, m) = First(t, m) /\ First(t, m) \in Signals
             /\ ItemOf(v, m) = ItemOf(t, m)
  <2>1. First(v, m) = First(t, m)
    BY <1>1 DEF First
  <2>2. First(t, m) \in Signals
    BY <1>1, TreeParts, FirstSignal DEF First, Sound, PackagesSound
  <2>. QED  BY <2>1, <2>2 DEF ItemOf, First
<1>2. \A r \in Runs : Assessed(v, r) <=> Assessed(t, r)
  BY DEF Assessed
<1>3. \A r \in Runs : t.runs[r] # None =>
        t.runs[r].mission \in Missions /\ t.packages[t.runs[r].mission] # None
  BY TreeParts, RunParts DEF Sound, RunsSound
<1>4. RunsSound(v)
  <2> SUFFICES ASSUME NEW r \in Runs, t.runs[r] # None
               PROVE  /\ v.packages[t.runs[r].mission] # None
                      /\ t.runs[r].bundle =>
                           /\ Admitted(v, t.runs[r].mission)
                           /\ t.runs[r].closed => t.runs[r].assessment # None
                      /\ t.runs[r].assessment # None => t.runs[r].closed
    BY DEF RunsSound
  <2>1. Admitted(t, t.runs[r].mission) => Admitted(v, t.runs[r].mission)
    BY DEF Admitted
  <2>. QED  BY <2>1 DEF Sound, RunsSound
<1>5. PackagesSound(v)
  BY DEF Sound, PackagesSound, Coherent, SignalsOf
<1>6. AssessmentsSound(v)
  <2> SUFFICES ASSUME NEW r \in Runs, Assessed(v, r) PROVE AssessmentOK(v, r)
    BY DEF AssessmentsSound
  <2>1. Assessed(t, r) /\ AssessmentOK(t, r) /\ t.runs[r] # None
    BY <1>2 DEF Sound, AssessmentsSound, Assessed
  <2>2. ItemOf(v, t.runs[r].mission) = ItemOf(t, t.runs[r].mission)
    BY <1>1, <1>3, <2>1
  <2>. QED  BY <1>3, <2>1, <2>2 DEF AssessmentOK
<1>7. VerdictsSound(v)
  <2>1. \A r \in Runs : Assessed(v, r) => ~v.rejected[v.runs[r].mission]
    BY <1>2, <1>3 DEF Sound, VerdictsSound, Assessed
  <2>. QED  BY <1>2, <2>1 DEF Sound, VerdictsSound, AssessedOncePerMission
<1>8. RejectionsSound(v)
  BY <1>1 DEF Sound, RejectionsSound
<1>9. LedgerSound(v)
  <2> SUFFICES ASSUME NEW s \in Signals, t.ledger[s] # None
               PROVE  /\ \A r \in t.ledger[s].runs : Assessed(v, r)
                      /\ t.ledger[s].mission # None =>
                           /\ v.packages[t.ledger[s].mission] # None
                           /\ t.ledger[s].disposition \in Terminal
                                => HasVerdict(v, t.ledger[s].mission)
    BY DEF LedgerSound, ItemSound
  <2>1. t.ledger[s].runs \subseteq Runs /\ t.ledger[s].mission \in Missions \cup {None}
    BY TreeParts, ItemParts
  <2>2. \A m \in Missions : HasVerdict(t, m) => HasVerdict(v, m)
    BY <1>2 DEF HasVerdict
  <2>. QED  BY <1>2, <2>1, <2>2 DEF Sound, LedgerSound, ItemSound
<1>10. BasesSound(v)
  <2> SUFFICES ASSUME NEW m \in Missions, v.packages[m] # None, NEW s \in Signals,
                      v.packages[m].basis[s] # None, NEW q \in v.packages[m].basis[s].runs
               PROVE  /\ Assessed(v, q)
                      /\ First(v, v.runs[q].mission) = s
                           /\ v.packages[m].basis[s].mission = v.runs[q].mission
                           => v.packages[m].basis[s].disposition = v.runs[q].assessment
    BY DEF BasesSound, BasisSound
  <2>1. q \in Runs /\ t.packages[m] # None /\ v.packages[m].basis = t.packages[m].basis
    BY BasisIsLedger, ItemParts DEF Ledger
  <2>2. /\ Assessed(t, q)
        /\ First(t, t.runs[q].mission) = s /\ v.packages[m].basis[s].mission = t.runs[q].mission
             => v.packages[m].basis[s].disposition = t.runs[q].assessment
    BY <2>1 DEF Sound, BasesSound, BasisSound
  <2>3. First(v, v.runs[q].mission) = First(t, t.runs[q].mission)
    BY <1>1, <1>3, <2>1, <2>2 DEF Assessed
  <2>. QED  BY <1>2, <2>1, <2>2, <2>3
<1>. QED  BY <1>4, <1>5, <1>6, <1>7, <1>8, <1>9, <1>10 DEF Sound

\* A new policy: no run stands on a package that it overtakes.
LEMMA NewPolicyKeeps ==
  ASSUME RecordInv, NewPolicy
  PROVE  RecordInv'
<1>0. main \in Tree /\ main' = main
  BY DEF RecordInv, TypeOK, NewPolicy
<1>1. /\ branch' = [b \in Branches |-> IF branch[b] = None THEN None ELSE Overtake(branch[b])]
  BY DEF NewPolicy, Overtake
<1>2. ASSUME NEW b \in Branches, branch[b] # None
      PROVE  /\ Overtake(branch[b]) \in Patch /\ Fits(main, Overtake(branch[b]))
             /\ Sound(Patched(main, Overtake(branch[b])))
  <2> DEFINE p == branch[b]
             q == Overtake(p)
             t == Patched(main, p)
             v == Patched(main, q)
  <2>1. /\ p \in Patch /\ Fits(main, p) /\ t \in Tree /\ Sound(t) /\ Continues(main, t)
    BY <1>2, ViewFacts DEF RecordInv, TypeOK, View, Merged
  <2> HIDE DEF p
  <2>2. /\ q \in Patch /\ q.ledger = p.ledger /\ q.runs = p.runs /\ q.rejected = p.rejected
        /\ \A m \in Missions :
             /\ q.packages[m] = None <=> p.packages[m] = None
             /\ p.packages[m] # None =>
                  /\ q.packages[m].signals = p.packages[m].signals
                  /\ q.packages[m].contract = p.packages[m].contract
                  /\ q.packages[m].basis = p.packages[m].basis
    BY <2>1, OvertakeParts
  <2> HIDE DEF q
  <2>3. Fits(main, q)
    BY <2>1, <2>2 DEF Fits
  <2>4. /\ v \in Tree
        /\ \A s \in Signals : v.ledger[s] = t.ledger[s]
        /\ \A m \in Missions : v.rejected[m] <=> t.rejected[m]
    BY <1>0, <2>1, <2>2, PatchedParts
  <2>5. v.runs = t.runs
    BY <2>2 DEF Patched
  <2>6. \A m \in Missions :
          /\ t.packages[m] = IF p.packages[m] = None THEN main.packages[m] ELSE p.packages[m]
          /\ v.packages[m] = IF q.packages[m] = None THEN main.packages[m] ELSE q.packages[m]
    BY <1>0, <2>1, <2>2, PatchedParts
  <2> HIDE DEF t, v
  <2>7. \A m \in Missions :
          /\ v.packages[m] = None <=> t.packages[m] = None
          /\ t.packages[m] # None =>
               /\ v.packages[m].signals = t.packages[m].signals
               /\ v.packages[m].contract = t.packages[m].contract
               /\ v.packages[m].basis = t.packages[m].basis
    BY <2>2, <2>6
  <2>8. ASSUME NEW r \in Runs, t.runs[r] # None
        PROVE  v.packages[t.runs[r].mission] = t.packages[t.runs[r].mission]
    <3>1. t.runs[r].mission \in Missions /\ main.packages[t.runs[r].mission] # None
      BY <2>1, <2>8, TreeParts, RunParts DEF Continues
    <3>2. p.packages[t.runs[r].mission] = None
      BY <2>1, <3>1 DEF Fits
    <3>. QED  BY <2>2, <2>6, <3>1, <3>2
  <2>9. Sound(v)
    BY <2>1, <2>4, <2>5, <2>7, <2>8, SameButPolicy
  <2>. QED  BY <2>2, <2>3, <2>9 DEF p, q, v
<1>3. branch' \in [Branches -> Patch \cup {None}]
  BY <1>1, <1>2
<1>4. ASSUME NEW b \in Branches, branch'[b] # None
      PROVE  Fits(main, branch'[b]) /\ Sound(Patched(main, branch'[b]))
  BY <1>1, <1>2, <1>4
<1>. QED  BY <1>0, <1>3, <1>4 DEF RecordInv, TypeOK, Merged

\* Giving up a branch.
LEMMA AbandonKeeps ==
  ASSUME RecordInv, NEW b \in Branches, Abandon(b)
  PROVE  RecordInv'
<1>1. main' = main /\ branch' = [branch EXCEPT ![b] = None]
  BY DEF Abandon
<1>2. TypeOK'
  BY <1>1 DEF RecordInv, TypeOK
<1>3. ASSUME NEW c \in Branches, branch'[c] # None PROVE branch'[c] = branch[c]
  BY <1>1, <1>3 DEF RecordInv, TypeOK
<1>. QED  BY <1>1, <1>2, <1>3 DEF RecordInv, Merged

\* What was accepted stays sound, on main and in every open branch with the
\* main of the day.
LEMMA RecordInvariant == Spec => []RecordInv
<1>1. Init => RecordInv
  <2> SUFFICES ASSUME Init PROVE RecordInv
    OBVIOUS
  <2>1. main \in Tree
    BY DEF Init, Tree, Ledger
  <2>2. /\ \A s \in Signals : main.ledger[s] = None
        /\ \A m \in Missions : main.packages[m] = None /\ ~main.rejected[m]
        /\ \A r \in Runs : main.runs[r] = None
    BY DEF Init
  <2>3. \A r \in Runs : ~Assessed(main, r)
    BY <2>2 DEF Assessed
  <2>4. RunsSound(main) /\ PackagesSound(main)
    BY <2>2 DEF RunsSound, PackagesSound
  <2>5. AssessmentsSound(main) /\ VerdictsSound(main)
    BY <2>3 DEF AssessmentsSound, VerdictsSound, AssessedOncePerMission
  <2>6. RejectionsSound(main) /\ LedgerSound(main) /\ BasesSound(main)
    BY <2>2 DEF RejectionsSound, LedgerSound, ItemSound, BasesSound
  <2>7. Sound(main)
    BY <2>4, <2>5, <2>6 DEF Sound
  <2>8. branch \in [Branches -> Patch \cup {None}] /\ \A b \in Branches : branch[b] = None
    BY DEF Init
  <2>. QED  BY <2>1, <2>7, <2>8 DEF RecordInv, TypeOK
<1>2. RecordInv /\ [Next]_vars => RecordInv'
  <2> SUFFICES ASSUME RecordInv, [Next]_vars PROVE RecordInv'
    OBVIOUS
  <2>1. CASE NewPolicy
    BY <2>1, NewPolicyKeeps
  <2>2. ASSUME NEW s \in Decidable, Decide(s) PROVE RecordInv'
    BY <2>2, DecideKeeps
  <2>3. ASSUME NEW b \in Branches, Act(b) PROVE RecordInv'
    <3>1. ASSUME NEW p \in Proposals, Formulate(b, p) PROVE RecordInv'
      BY <3>1, FormulateKeeps
    <3>2. ASSUME NEW r \in Runs, NEW m \in Missions, Open(b, r, m) PROVE RecordInv'
      BY <3>2, OpenKeeps
    <3>3. ASSUME NEW r \in Runs, Record(b, r) PROVE RecordInv'
      BY <3>3, RecordKeeps
    <3>4. ASSUME NEW r \in Runs, NEW d \in Closings, Close(b, r, d) PROVE RecordInv'
      BY <3>4, CloseKeeps
    <3>5. ASSUME NEW r \in Runs, CloseOnly(b, r) PROVE RecordInv'
      BY <3>5, CloseOnlyKeeps
    <3>6. ASSUME NEW m \in Missions, Reject(b, m) PROVE RecordInv'
      BY <3>6, RejectKeeps
    <3>7. CASE TakeBack(b)
      BY <3>7, TakeBackKeeps
    <3>8. CASE Merge(b)
      BY <3>8, MergeStep
    <3>9. CASE Abandon(b)
      BY <3>9, AbandonKeeps
    <3>. QED  BY <2>3, <3>1, <3>2, <3>3, <3>4, <3>5, <3>6, <3>7, <3>8, <3>9 DEF Act
  <2>4. CASE UNCHANGED vars
    <3>1. main' = main /\ branch' = branch
      BY <2>4 DEF vars
    <3>2. TypeOK'
      BY <3>1 DEF RecordInv, TypeOK
    <3>. QED  BY <3>1, <3>2 DEF RecordInv, Merged
  <2>. QED  BY <2>1, <2>2, <2>3, <2>4 DEF Next
<1>. QED  BY <1>1, <1>2, PTL DEF Spec

-----------------------------------------------------------------------------
(* What follows from it.                                                    *)

\* Every entry of main and of a branch is an entry the artifacts' schemas know,
\* after any sequence of pushes, merges and policy changes.
THEOREM TypeCorrect == Spec => []TypeOK
<1>1. RecordInv => TypeOK
  BY DEF RecordInv
<1>. QED  BY <1>1, RecordInvariant, PTL

\* No mission has two verdicts on main, however many branches close or reject
\* it on verdicts of the validator that are out of date (check_terminal_feedback).
THEOREM MissionsJudgedOnce == Spec => []OneVerdict
<1>1. RecordInv => OneVerdict
  <2> SUFFICES ASSUME RecordInv, NEW m \in Missions
               PROVE  LET verdicts == {r \in Runs : Assessed(main, r) /\ main.runs[r].mission = m}
                      IN  /\ Cardinality(verdicts) <= 1
                          /\ main.rejected[m] => verdicts = {}
    BY DEF OneVerdict
  <2> DEFINE verdicts == {r \in Runs : Assessed(main, r) /\ main.runs[r].mission = m}
  <2>1. VerdictsSound(main)
    BY DEF RecordInv, Sound
  <2>2. \A r, q \in verdicts : r = q
    BY <2>1 DEF VerdictsSound, AssessedOncePerMission
  <2>3. main.rejected[m] => verdicts = {}
    BY <2>1 DEF VerdictsSound
  <2>4. Cardinality(verdicts) <= 1
    <3>1. CASE verdicts = {}
      <4>1. Cardinality(verdicts) = 0
        BY <3>1, FS_EmptySet
      <4>. QED  BY <4>1
    <3>2. CASE verdicts # {}
      <4>1. PICK r \in verdicts : TRUE
        BY <3>2
      <4>2. verdicts = {r}
        BY <2>2, <4>1
      <4>3. Cardinality(verdicts) = 1
        BY <4>2, FS_Singleton
      <4>. QED  BY <4>3
    <3>. QED  BY <3>1, <3>2
  <2>. QED  BY <2>3, <2>4
<1>. QED  BY <1>1, RecordInvariant, PTL

\* POL-04: a run that was let in on a signal an assessed mission had settled is
\* one whose candidate names that signal and that assessment's disposition.
THEOREM OverridesAreEarned == Spec => []OverrideNamesTheAssessment
<1>1. RecordInv => OverrideNamesTheAssessment
  <2> SUFFICES ASSUME RecordInv, NEW r \in Runs, NEW q \in Runs,
                      main.runs[r] # None, Assessed(main, q), main.runs[r].bundle,
                      First(main, main.runs[q].mission)
                        \in SignalsOf(main.packages[main.runs[r].mission]),
                      StandsFor(main.packages[main.runs[r].mission].basis[
                                  First(main, main.runs[q].mission)], q)
               PROVE  main.packages[main.runs[r].mission].override
                        = [signal |-> First(main, main.runs[q].mission),
                           prior |-> main.runs[q].assessment]
    BY DEF OverrideNamesTheAssessment, First
  <2> DEFINE m == main.runs[r].mission
             package == main.packages[m]
             s == First(main, main.runs[q].mission)
  <2>1. main \in Tree /\ Sound(main)
    BY DEF RecordInv, TypeOK
  <2>2. m \in Missions /\ package # None /\ Admitted(main, m)
    <3>1. m \in Missions
      BY <2>1, TreeParts, RunParts
    <3>2. package # None /\ Admitted(main, m)
      BY <2>1 DEF Sound, RunsSound
    <3>. QED  BY <3>1, <3>2
  <2>3. s \in Signals
    <3>1. main.runs[q].mission \in Missions /\ main.packages[main.runs[q].mission] # None
      BY <2>1, TreeParts, RunParts DEF Sound, RunsSound, Assessed
    <3>2. \A n \in Missions : main.packages[n] # None => First(main, n) \in Signals
      BY <2>1, TreeParts, FirstSignal DEF Sound, PackagesSound, First
    <3>. QED  BY <3>1, <3>2
  <2>4. /\ package.basis[s] # None /\ q \in package.basis[s].runs
        /\ package.basis[s].mission = main.runs[q].mission
    BY DEF StandsFor
  <2>5. package.basis[s].disposition = main.runs[q].assessment
    BY <2>1, <2>2, <2>3, <2>4 DEF Sound, BasesSound, BasisSound
  <2>6. main.runs[q].assessment \in Terminal
    BY <2>1, TreeParts, RunParts DEF Assessed
  <2>7. MayReopen(package, package.basis)
    BY <2>2 DEF Admitted, Admissible
  <2>. QED  BY <2>4, <2>5, <2>6, <2>7 DEF MayReopen
<1>. QED  BY <1>1, RecordInvariant, PTL

\* Out-of-date verdicts of the validator break main in one way only: a run
\* opened while its mission was being rejected.
THEOREM OneRaceOnly == Spec => []OnlyRejectionsRace
<1>1. RecordInv => OnlyRejectionsRace
  <2> SUFFICES ASSUME RecordInv PROVE Valid(Mended(main))
    BY DEF OnlyRejectionsRace
  <2> DEFINE v == Mended(main)
  <2>1. main \in Tree /\ Sound(main)
    BY DEF RecordInv, TypeOK
  <2>2. /\ v.ledger = main.ledger /\ v.packages = main.packages /\ v.rejected = main.rejected
        /\ \A r \in Runs : v.runs[r] # None =>
             v.runs[r] = main.runs[r] /\ ~main.rejected[main.runs[r].mission]
    BY <2>1, MendedParts
  <2> HIDE DEF v
  <2>3. \A r \in Runs : Assessed(v, r) => Assessed(main, r) /\ v.runs[r] = main.runs[r]
    BY <2>2 DEF Assessed
  <2>4. \A r \in Runs : v.runs[r] # None => BundleOK(v, r)
    BY <2>1, <2>2 DEF Sound, RunsSound, BundleOK, Admitted
  <2>5. \A m \in Missions : v.packages[m] # None => Coherent(v.packages[m])
    BY <2>1, <2>2 DEF Sound, PackagesSound
  <2>6. \A r \in Runs : Assessed(v, r) => AssessmentOK(v, r)
    BY <2>1, <2>2, <2>3 DEF Sound, AssessmentsSound, AssessmentOK, ItemOf
  <2>7. AssessedOncePerMission(v)
    BY <2>1, <2>3 DEF Sound, VerdictsSound, AssessedOncePerMission
  <2>8. \A m \in Missions : v.rejected[m] => RejectionOK(v, m)
    <3> SUFFICES ASSUME NEW m \in Missions, v.rejected[m] PROVE RejectionOK(v, m)
      OBVIOUS
    <3>1. /\ main.packages[m] # None /\ ItemOf(main, m) # None
          /\ ItemOf(main, m).mission = m => ItemOf(main, m).disposition = "rejected"
      BY <2>1, <2>2 DEF Sound, RejectionsSound
    <3>2. ItemOf(v, m) = ItemOf(main, m) /\ v.packages[m] = main.packages[m]
      BY <2>2 DEF ItemOf
    <3>3. \A r \in Runs : v.runs[r] # None => v.runs[r].mission # m
      BY <2>2
    <3>. QED  BY <3>1, <3>2, <3>3 DEF RejectionOK
  <2>9. Valid(v)
    BY <2>4, <2>5, <2>6, <2>7, <2>8 DEF Valid
  <2>. QED  BY <2>9 DEF v
<1>. QED  BY <1>1, RecordInvariant, PTL

\* On a valid main every run of a mission without an assessment can be closed
\* with any disposition.
THEOREM ClosingIsAlwaysPossible == Spec => []RunsCanClose
<1>1. RecordInv => RunsCanClose
  <2> SUFFICES ASSUME RecordInv, Valid(main), NEW r \in Runs, NEW d \in Closings,
                      Running(main, r),
                      \A q \in Runs : Assessed(main, q) =>
                        main.runs[q].mission # main.runs[r].mission
               PROVE  Valid(Closed(main, r, d))
    BY DEF RunsCanClose
  <2> DEFINE m == main.runs[r].mission
             S == SignalsOf(main.packages[m])
             v == Closed(main, r, d)
  <2>1. main \in Tree /\ Sound(main) /\ main.ledger \in Ledger
    BY TreeParts DEF RecordInv, TypeOK
  <2>2. d \in Terminal /\ d \in Dispositions /\ d # None
    BY ClosingsAssumption, NoneAssumption DEF Dispositions
  <2>3. main.runs[r] \in Run /\ main.runs[r] # None /\ m \in Missions /\ main.packages[m] # None
    BY <2>1, TreeParts, RunParts DEF Running, Sound, RunsSound
  <2>4. /\ v.ledger = Dispose(main.ledger, S, m, d, {r})
        /\ v.packages = main.packages /\ v.rejected = main.rejected
        /\ v.runs[r].mission = m /\ v.runs[r].assessment = d
        /\ v.runs[r].bundle = main.runs[r].bundle
        /\ \A q \in Runs : q # r => v.runs[q] = main.runs[q]
    <3>1. /\ v.ledger = Dispose(main.ledger, S, m, d, {r})
          /\ v.packages = main.packages /\ v.rejected = main.rejected
          /\ v.runs = RunsAfter(main, r, d)
      BY <2>1, <2>2, <2>3, ClosedTree
    <3>2. /\ v.runs[r].mission = m /\ v.runs[r].assessment = d
          /\ v.runs[r].bundle = main.runs[r].bundle
          /\ \A q \in Runs : q # r => v.runs[q] = main.runs[q]
      BY <2>1, <2>2, <2>3, <3>1, ClosedRun
    <3>. QED  BY <3>1, <3>2
  <2>5. First(main, m) \in Signals /\ First(main, m) \in S
    BY <2>1, <2>3, TreeParts, FirstSignal DEF First, Sound, PackagesSound
  <2> HIDE DEF v, S, m
  <2>6. \A n \in Missions : main.packages[n] # None =>
          First(main, n) \in Signals /\ ItemOf(v, n) = v.ledger[First(main, n)]
          /\ ItemOf(main, n) = main.ledger[First(main, n)]
    <3>1. \A n \in Missions : main.packages[n] # None => First(main, n) \in Signals
      BY <2>1, TreeParts, FirstSignal DEF First, Sound, PackagesSound
    <3>. QED  BY <2>4, <3>1 DEF ItemOf, First
  <2>7. \A s \in Signals : s \notin S => v.ledger[s] = main.ledger[s]
    BY <2>4, OtherItem
  <2>8. \A s \in Signals : s \in S => /\ v.ledger[s].disposition = d /\ v.ledger[s].mission = m
                                      /\ v.ledger[s].runs = RunsOn(main.ledger, s) \cup {r}
    BY <2>4, DisposedItem
  <2>9. \A s \in S : s \in Signals => v.ledger[s] # None
    <3>1. m \in Missions \cup {None} /\ {r} \in SUBSET Runs
      BY <2>3
    <3>. QED  BY <2>1, <2>2, <2>4, <3>1, DisposedType
  <2>10. \A q \in Runs : v.runs[q] # None => BundleOK(v, q)
    <3> SUFFICES ASSUME NEW q \in Runs, v.runs[q] # None PROVE BundleOK(v, q)
      OBVIOUS
    <3>1. CASE q = r
      <4>1. BundleOK(main, r)
        BY <2>3 DEF Valid
      <4>. QED  BY <2>2, <2>4, <3>1, <4>1 DEF BundleOK, Admitted, m
    <3>2. CASE q # r
      <4>1. v.runs[q] = main.runs[q] /\ BundleOK(main, q)
        BY <2>4, <3>2 DEF Valid
      <4>. QED  BY <2>4, <4>1 DEF BundleOK, Admitted
    <3>. QED  BY <3>1, <3>2
  <2>11. \A n \in Missions : v.packages[n] # None => Coherent(v.packages[n])
    BY <2>4 DEF Valid
  <2>12. \A q \in Runs : q # r /\ Assessed(v, q) =>
           /\ Assessed(main, q) /\ v.runs[q] = main.runs[q] /\ main.runs[q].mission # m
           /\ main.runs[q].mission \in Missions
    BY <2>1, <2>4, TreeParts, RunParts DEF Assessed, m
  <2>13. \A q \in Runs : Assessed(v, q) => AssessmentOK(v, q)
    <3> SUFFICES ASSUME NEW q \in Runs, Assessed(v, q) PROVE AssessmentOK(v, q)
      OBVIOUS
    <3>1. CASE q = r
      <4>1. ItemOf(v, m) # None /\ ItemOf(v, m).disposition = d /\ r \in ItemOf(v, m).runs
        BY <2>3, <2>5, <2>6, <2>8, <2>9
      <4>. QED  BY <2>4, <3>1, <4>1 DEF AssessmentOK
    <3>2. CASE q # r
      <4> DEFINE n == main.runs[q].mission
      <4>1. /\ v.runs[q] = main.runs[q] /\ n # m /\ n \in Missions /\ AssessmentOK(main, q)
        BY <2>12, <3>2 DEF Valid
      <4> HIDE DEF n
      <4>2. main.packages[n] # None =>
              /\ main.ledger[First(main, n)] # None
              /\ main.ledger[First(main, n)].mission = n =>
                   main.ledger[First(main, n)].disposition = main.runs[q].assessment
              /\ q \in main.ledger[First(main, n)].runs
        BY <2>6, <4>1 DEF AssessmentOK, n
      <4>3. ASSUME main.packages[n] # None
            PROVE  /\ ItemOf(v, n) # None
                   /\ ItemOf(v, n).mission = n => ItemOf(v, n).disposition = main.runs[q].assessment
                   /\ q \in ItemOf(v, n).runs
        <5>1. CASE First(main, n) \in S
          BY <2>6, <2>8, <2>9, <4>1, <4>2, <4>3, <5>1 DEF RunsOn
        <5>2. CASE First(main, n) \notin S
          BY <2>6, <2>7, <4>1, <4>2, <4>3, <5>2
        <5>. QED  BY <5>1, <5>2
      <4>. QED  BY <2>4, <4>1, <4>3 DEF AssessmentOK, n
    <3>. QED  BY <3>1, <3>2
  <2>14. AssessedOncePerMission(v)
    <3> SUFFICES ASSUME NEW q \in Runs, NEW z \in Runs, Assessed(v, q), Assessed(v, z), q # z
                 PROVE  v.runs[q].mission # v.runs[z].mission
      BY DEF AssessedOncePerMission
    <3>. QED  BY <2>4, <2>12 DEF Valid, AssessedOncePerMission
  <2>15. \A n \in Missions : v.rejected[n] => RejectionOK(v, n)
    <3> SUFFICES ASSUME NEW n \in Missions, v.rejected[n] PROVE RejectionOK(v, n)
      OBVIOUS
    <3>1. RejectionOK(main, n)
      BY <2>4 DEF Valid
    <3>2. n # m /\ \A q \in Runs : v.runs[q] # None => v.runs[q].mission # n
      BY <2>3, <2>4, <3>1 DEF RejectionOK, m
    <3>3. /\ main.packages[n] # None /\ main.ledger[First(main, n)] # None
          /\ main.ledger[First(main, n)].mission = n =>
               main.ledger[First(main, n)].disposition = "rejected"
      BY <2>6, <3>1 DEF RejectionOK
    <3>4. /\ ItemOf(v, n) # None
          /\ ItemOf(v, n).mission = n => ItemOf(v, n).disposition = "rejected"
      <4>1. CASE First(main, n) \in S
        BY <2>6, <2>8, <2>9, <3>2, <3>3, <4>1
      <4>2. CASE First(main, n) \notin S
        BY <2>6, <2>7, <3>3, <4>2
      <4>. QED  BY <4>1, <4>2
    <3>. QED  BY <2>4, <3>2, <3>3, <3>4 DEF RejectionOK
  <2>16. Valid(v)
    BY <2>10, <2>11, <2>13, <2>14, <2>15 DEF Valid
  <2>. QED  BY <2>16 DEF v
<1>. QED  BY <1>1, RecordInvariant, PTL

\* A settled signal can be taken up again by a mission with the override that
\* names its disposition.
THEOREM ReopeningIsAlwaysPossible == Spec => []SettledSignalsReopen
<1>1. RecordInv => SettledSignalsReopen
  <2> SUFFICES ASSUME RecordInv, Valid(main), NEW s \in Signals, NEW m \in Missions,
                      Settled(s), main.packages[m] = None
               PROVE  LET package == [signals |-> <<s>>, contract |-> {s},
                            override |-> [signal |-> s, prior |-> main.ledger[s].disposition],
                            current |-> TRUE, basis |-> main.ledger]
                      IN  Valid(Formulated(main, m, package)) /\ MayReopen(package, package.basis)
    BY DEF SettledSignalsReopen
  <2> DEFINE o == [signal |-> s, prior |-> main.ledger[s].disposition]
             package == [signals |-> <<s>>, contract |-> {s}, override |-> o,
                         current |-> TRUE, basis |-> main.ledger]
             S == SignalsOf(package)
             v == Formulated(main, m, package)
  <2>1. main \in Tree /\ Sound(main) /\ main.ledger \in Ledger
    BY TreeParts DEF RecordInv, TypeOK
  <2>2. o \in Override
    BY DEF Settled, Override
  <2>3. /\ package.signals = <<s>> /\ package.contract = {s} /\ package.override = o
        /\ package.basis = main.ledger
    OBVIOUS
  <2>4. package \in Package
    <3>1. <<s>> \in Seq(Signals) /\ {s} \in SUBSET Signals
      OBVIOUS
    <3>. QED  BY <2>1, <2>2, <3>1 DEF Package
  <2>5. S = {s}
    BY <2>3 DEF SignalsOf
  <2>6. MayReopen(package, package.basis)
    BY <2>3, <2>5 DEF MayReopen
  <2>7. Coherent(package)
    BY <2>3, <2>5 DEF Coherent
  <2> HIDE DEF o, package
  <2>8. /\ v.ledger = Dispose(main.ledger, S, m, "active", {})
        /\ v.packages[m] = package
        /\ \A n \in Missions : n # m => v.packages[n] = main.packages[n]
        /\ v.runs = main.runs /\ v.rejected = main.rejected
    BY <2>1, <2>4, FormulatedParts
  <2> HIDE DEF v, S
  <2>9. \A n \in Missions : main.packages[n] # None =>
          /\ n # m /\ v.packages[n] = main.packages[n] /\ First(main, n) \in Signals
          /\ ItemOf(v, n) = v.ledger[First(main, n)]
          /\ ItemOf(main, n) = main.ledger[First(main, n)]
    <3>1. \A n \in Missions : main.packages[n] # None => First(main, n) \in Signals
      BY <2>1, TreeParts, FirstSignal DEF First, Sound, PackagesSound
    <3>. QED  BY <2>8, <3>1 DEF ItemOf, First
  <2>10. \A z \in Signals : z \notin S => v.ledger[z] = main.ledger[z]
    BY <2>8, OtherItem
  <2>11. \A z \in Signals : z \in S => /\ v.ledger[z].mission = m
                                       /\ v.ledger[z].runs = RunsOn(main.ledger, z)
    <3> SUFFICES ASSUME NEW z \in Signals, z \in S
                 PROVE  v.ledger[z].mission = m /\ v.ledger[z].runs = RunsOn(main.ledger, z)
      OBVIOUS
    <3> DEFINE none == {}
    <3>1. v.ledger = Dispose(main.ledger, S, m, "active", none)
      BY <2>8
    <3>2. RunsOn(main.ledger, z) \cup none = RunsOn(main.ledger, z)
      OBVIOUS
    <3> HIDE DEF none
    <3>3. v.ledger[z].mission = m
      BY <3>1, DisposedItem
    <3>4. v.ledger[z].runs = RunsOn(main.ledger, z) \cup none
      BY <3>1, DisposedItem
    <3>. QED  BY <3>2, <3>3, <3>4
  <2>12. \A z \in S : z \in Signals => v.ledger[z] # None
    <3>1. m \in Missions \cup {None} /\ {} \in SUBSET Runs /\ "active" \in Dispositions
      BY DEF Dispositions
    <3>. QED  BY <2>1, <2>8, <3>1, DisposedType
  <2>13. \A r \in Runs : main.runs[r] # None =>
           main.runs[r].mission \in Missions /\ main.packages[main.runs[r].mission] # None
    BY <2>1, TreeParts, RunParts DEF Sound, RunsSound
  <2>14. \A r \in Runs : v.runs[r] # None => BundleOK(v, r)
    <3> SUFFICES ASSUME NEW r \in Runs, main.runs[r] # None PROVE BundleOK(v, r)
      BY <2>8
    <3>1. BundleOK(main, r)
      BY DEF Valid
    <3>2. v.packages[main.runs[r].mission] = main.packages[main.runs[r].mission]
      BY <2>9, <2>13
    <3>. QED  BY <2>8, <3>1, <3>2 DEF BundleOK, Admitted
  <2>15. \A n \in Missions : v.packages[n] # None => Coherent(v.packages[n])
    BY <2>7, <2>8 DEF Valid
  <2>16. \A r \in Runs : Assessed(v, r) => AssessmentOK(v, r)
    <3> SUFFICES ASSUME NEW r \in Runs, Assessed(main, r) PROVE AssessmentOK(v, r)
      BY <2>8 DEF Assessed
    <3> DEFINE n == main.runs[r].mission
    <3>1. n \in Missions /\ main.packages[n] # None /\ AssessmentOK(main, r)
      BY <2>13 DEF Assessed, Valid
    <3>2. /\ main.ledger[First(main, n)] # None
          /\ main.ledger[First(main, n)].mission = n =>
               main.ledger[First(main, n)].disposition = main.runs[r].assessment
          /\ r \in main.ledger[First(main, n)].runs
      BY <2>9, <3>1 DEF AssessmentOK
    <3>3. /\ ItemOf(v, n) # None
          /\ ItemOf(v, n).mission = n => ItemOf(v, n).disposition = main.runs[r].assessment
          /\ r \in ItemOf(v, n).runs
      <4>1. CASE First(main, n) \in S
        BY <2>9, <2>11, <2>12, <3>1, <3>2, <4>1 DEF RunsOn
      <4>2. CASE First(main, n) \notin S
        BY <2>9, <2>10, <3>1, <3>2, <4>2
      <4>. QED  BY <4>1, <4>2
    <3>. QED  BY <2>8, <3>3 DEF AssessmentOK
  <2>17. AssessedOncePerMission(v)
    BY <2>8 DEF Valid, AssessedOncePerMission, Assessed
  <2>18. \A n \in Missions : v.rejected[n] => RejectionOK(v, n)
    <3> SUFFICES ASSUME NEW n \in Missions, v.rejected[n] PROVE RejectionOK(v, n)
      OBVIOUS
    <3>1. RejectionOK(main, n)
      BY <2>8 DEF Valid
    <3>2. /\ main.packages[n] # None /\ main.ledger[First(main, n)] # None
          /\ main.ledger[First(main, n)].mission = n =>
               main.ledger[First(main, n)].disposition = "rejected"
      BY <2>9, <3>1 DEF RejectionOK
    <3>3. /\ ItemOf(v, n) # None
          /\ ItemOf(v, n).mission = n => ItemOf(v, n).disposition = "rejected"
      <4>1. CASE First(main, n) \in S
        BY <2>9, <2>11, <2>12, <3>2, <4>1
      <4>2. CASE First(main, n) \notin S
        BY <2>9, <2>10, <3>2, <4>2
      <4>. QED  BY <4>1, <4>2
    <3>. QED  BY <2>8, <2>9, <3>1, <3>2, <3>3 DEF RejectionOK
  <2>19. Valid(v)
    BY <2>14, <2>15, <2>16, <2>17, <2>18 DEF Valid
  <2>. QED  BY <2>6, <2>19 DEF v, package, o
<1>. QED  BY <1>1, RecordInvariant, PTL
=============================================================================
