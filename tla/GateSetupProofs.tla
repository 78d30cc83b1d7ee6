---------------------------- MODULE GateSetupProofs ----------------------------
(***************************************************************************)
(* Proofs about GateSetup, for all sets of Apps, of installations and of   *)
(* commands that overlap.                                                  *)
(***************************************************************************)
EXTENDS GateSetup, TLAPS

\* What a command carries from step to step: an App from where it has one on, an
\* installation only of that App, and what it has read of that App's
\* configuration.
Fits(r) ==
  /\ r.pc \in {"idle", "browser"} => r.id = None
  /\ r.pc \notin {"idle", "browser"} => r.app \in Apps
  /\ r.pc \in {"persist", "save", "saved"} => r.id \in Ids
  /\ r.id # None => inst[r.id] # None /\ inst[r.id].app = r.app
  /\ r.pc \in {"save", "saved"} => r.read \in Configs /\ r.read.app = r.app

Files ==
  /\ apps \subseteq Apps
  /\ inst \in [Ids -> Installation \cup {None}]
  /\ key \in Apps \cup {None, Torn} /\ tight \in BOOLEAN
  /\ cfg \in Configs \cup {None, Torn}
  /\ PairsBelong

Running ==
  /\ cmd \in [Commands -> Command]
  /\ \A c \in Commands : Fits(cmd[c])

IInv == Files /\ Running /\ events \in 0..MaxEvents

\* The initial state.
LEMMA InitHolds == Init => IInv
<1> SUFFICES ASSUME Init PROVE IInv
  OBVIOUS
<1>1. Files BY NoneAssumption DEF Init, Files, PairsBelong
<1>2. Idle \in Command BY DEF Idle, Command
<1>3. Running BY <1>2 DEF Init, Running, Fits, Idle
<1> QED BY <1>1, <1>3, EventsAssumption DEF Init, IInv

-----------------------------------------------------------------------------
(* What becomes of the commands. *)

\* A command replaced by one that fits.
LEMMA Replaced ==
  ASSUME Running, NEW c \in Commands, UNCHANGED inst,
         NEW r \in Command, Fits(r), cmd' = [cmd EXCEPT ![c] = r]
  PROVE  Running'
<1>1. cmd' \in [Commands -> Command] BY DEF Running
<1>2. ASSUME NEW d \in Commands PROVE Fits(cmd[d])'
  <2>1. Fits(cmd'[d]) BY DEF Running
  <2> QED BY <2>1 DEF Fits
<1> QED BY <1>1, <1>2 DEF Running

\* A command that is ended carries nothing.
LEMMA Ended ==
  ASSUME Running, NEW c \in Commands, UNCHANGED inst, End(c)
  PROVE  Running'
<1>1. Idle \in Command /\ Fits(Idle) BY DEF Idle, Command, Fits
<1> QED BY <1>1, Replaced DEF End

\* A command that goes on keeps what it carries; to persist it needs an
\* installation.
LEMMA WentOn ==
  ASSUME Running, NEW c \in Commands, UNCHANGED inst,
         cmd[c].pc \notin {"idle", "browser"},
         NEW pc \in {"pem", "chmod", "store", "fields", "again", "fields again", "persist", "saved"},
         pc = "persist" => cmd[c].id # None,
         pc = "saved" => cmd[c].pc = "save",
         Goto(c, pc)
  PROVE  Running'
<1> DEFINE r == [cmd[c] EXCEPT !.pc = pc]
<1>1. cmd[c] \in Command /\ Fits(cmd[c]) BY DEF Running
<1>2. r \in Command /\ r.pc = pc /\ r.app = cmd[c].app /\ r.id = cmd[c].id
      /\ r.read = cmd[c].read
  BY <1>1 DEF Command
<1>3. cmd[c].id \in Ids \cup {None} BY <1>1 DEF Command
<1>4. Fits(r)
  <2> HIDE DEF r
  <2> QED BY <1>1, <1>2, <1>3 DEF Fits
<1>5. cmd' = [cmd EXCEPT ![c] = r] BY DEF Goto
<1> HIDE DEF r
<1> QED BY <1>2, <1>4, <1>5, Replaced

-----------------------------------------------------------------------------
(* The steps of a command. *)

\* Steps that change the configuration file leave a torn file, the App of the
\* command without an installation, or with the one it carries.
LEMMA FileKeeps ==
  ASSUME IInv, NEW c \in Commands,
         OpenConfig(c) \/ FillConfig(c) \/ OpenSave(c) \/ FillSave(c)
  PROVE  IInv'
<1>1. UNCHANGED <<apps, inst, key, tight, events>>
  BY DEF OpenConfig, FillConfig, OpenSave, FillSave, github
<1>2. Fits(cmd[c]) /\ cmd[c] \in Command BY DEF IInv, Running
<1>3. cmd[c].app \in Apps /\ cmd[c].pc \notin {"idle", "browser"}
  BY <1>2 DEF Fits, OpenConfig, FillConfig, OpenSave, FillSave, At
<1>4. cfg' = Torn \/ (cfg' \in Configs /\ cfg'.id = None)
      \/ (cfg' \in Configs /\ inst[cfg'.id] # None /\ inst[cfg'.id].app = cfg'.app)
  <2>1. CASE OpenConfig(c) BY <2>1 DEF OpenConfig
  <2>2. CASE FillConfig(c)
    <3>1. cfg' = [app |-> cmd[c].app, id |-> None] \/ cfg' = Torn
      BY <2>2 DEF FillConfig, Filled
    <3> QED BY <1>3, <3>1 DEF Configs
  <2>3. CASE OpenSave(c) BY <2>3 DEF OpenSave
  <2>4. CASE FillSave(c)
    <3>1. /\ cmd[c].read \in Configs /\ cmd[c].read.app = cmd[c].app
          /\ cmd[c].id \in Ids
      BY <1>2, <2>4 DEF Fits, FillSave, At
    <3>2. inst[cmd[c].id] # None /\ inst[cmd[c].id].app = cmd[c].app
      BY <1>2, <3>1, NoneAssumption DEF Fits
    <3>3. cfg' = [cmd[c].read EXCEPT !.id = cmd[c].id] \/ cfg' = Torn
      BY <2>4 DEF FillSave, Filled
    <3> QED BY <3>1, <3>2, <3>3 DEF Configs
  <2> QED BY <2>1, <2>2, <2>3, <2>4
<1>5. Files' BY <1>1, <1>4 DEF IInv, Files, PairsBelong
<1>6. Running'
  <2>1. CASE End(c) BY <1>1, <2>1, Ended DEF IInv
  <2>2. CASE OpenConfig(c) BY <1>1, <1>3, <2>2, WentOn DEF IInv, OpenConfig
  <2>3. CASE FillConfig(c)
    <3>1. CASE cmd[c].id = None BY <2>1, <2>3, <3>1 DEF FillConfig
    <3>2. CASE cmd[c].id # None
      BY <1>1, <1>3, <2>3, <3>2, WentOn DEF IInv, FillConfig
    <3> QED BY <3>1, <3>2
  <2>4. CASE OpenSave(c) BY <1>1, <1>3, <2>4, WentOn DEF IInv, OpenSave, At
  <2>5. CASE FillSave(c) BY <2>1, <2>5 DEF FillSave
  <2> QED BY <2>2, <2>3, <2>4, <2>5
<1> QED BY <1>1, <1>5, <1>6 DEF IInv

\* Storing the key.
LEMMA KeyKeeps ==
  ASSUME IInv, NEW c \in Commands, OpenKey(c) \/ FillKey(c) \/ Chmod(c)
  PROVE  IInv'
<1>1. UNCHANGED <<apps, inst, cfg, events>> BY DEF OpenKey, FillKey, Chmod, github
<1>2. cmd[c].app \in Apps /\ cmd[c].pc \notin {"idle", "browser"}
  BY DEF IInv, Running, Fits, OpenKey, FillKey, Chmod, At
<1>3. key' \in Apps \cup {None, Torn} /\ tight' \in BOOLEAN
  BY <1>2 DEF IInv, Files, OpenKey, FillKey, Chmod, Filled
<1>4. Files' BY <1>1, <1>3 DEF IInv, Files, PairsBelong
<1>5. Running' BY <1>1, <1>2, WentOn DEF IInv, OpenKey, FillKey, Chmod
<1> QED BY <1>1, <1>4, <1>5 DEF IInv

\* GitHub's answer to --finalize-install.
LEMMA AskKeeps ==
  ASSUME IInv, NEW c \in Commands, Ask(c)
  PROVE  IInv'
<1>1. UNCHANGED <<apps, inst, key, tight, cfg, events>> BY DEF Ask, github, disk
<1>2. Files' BY <1>1 DEF IInv, Files, PairsBelong
<1>3. CASE End(c) BY <1>1, <1>2, <1>3, Ended DEF IInv
<1>4. ASSUME NEW i \in Ids, Finalizable(cmd[c].app, i),
             cmd' = [cmd EXCEPT ![c].pc = "persist", ![c].id = i]
      PROVE  IInv'
  <2> DEFINE r == [cmd[c] EXCEPT !.pc = "persist", !.id = i]
  <2>1. inst[i] # None /\ inst[i].app = cmd[c].app BY <1>4 DEF Finalizable, Listed
  <2>2. cmd[c] \in Command /\ cmd[c].app \in Apps
    BY DEF IInv, Running, Fits, Ask, At
  <2>3. r \in Command /\ Fits(r) BY <2>1, <2>2 DEF Command, Fits
  <2>4. cmd' = [cmd EXCEPT ![c] = r] BY <1>4
  <2> HIDE DEF r
  <2>5. Running' BY <1>1, <2>3, <2>4, Replaced DEF IInv
  <2> QED BY <1>1, <1>2, <2>5 DEF IInv
<1> QED BY <1>3, <1>4 DEF Ask

\* The checks of persist_installation_id.
LEMMA PersistKeeps ==
  ASSUME IInv, NEW c \in Commands, Persist(c)
  PROVE  IInv'
<1>1. UNCHANGED <<apps, inst, key, tight, cfg, events>> BY DEF Persist, github, disk
<1>2. Files' BY <1>1 DEF IInv, Files, PairsBelong
<1>3. CASE End(c) BY <1>1, <1>2, <1>3, Ended DEF IInv
<1>4. CASE /\ Readable /\ Stored.app = cmd[c].app
           /\ cmd' = [cmd EXCEPT ![c].pc = "save", ![c].read = cfg]
  <2> DEFINE r == [cmd[c] EXCEPT !.pc = "save", !.read = cfg]
  <2>1. /\ cmd[c] \in Command /\ cmd[c].app \in Apps /\ cmd[c].id \in Ids
        /\ cmd[c].id # None => inst[cmd[c].id] # None /\ inst[cmd[c].id].app = cmd[c].app
    BY DEF IInv, Running, Fits, Persist, At
  <2>2. cfg \in Configs /\ cfg.app = cmd[c].app
    BY <1>4, <2>1, NoneAssumption DEF IInv, Files, Readable, Stored
  <2>3. r \in Command /\ Fits(r) BY <2>1, <2>2 DEF Command, Fits
  <2>4. cmd' = [cmd EXCEPT ![c] = r] BY <1>4
  <2> HIDE DEF r
  <2>5. Running' BY <1>1, <2>3, <2>4, Replaced DEF IInv
  <2> QED BY <1>1, <1>2, <2>5 DEF IInv
<1> QED BY <1>3, <1>4 DEF Persist

\* The manifest flow brings an App, or ends.
LEMMA BrowserKeeps ==
  ASSUME IInv, NEW c \in Commands, Deadline(c) \/ \E a \in Apps : Callback(c, a)
  PROVE  IInv'
<1>1. UNCHANGED <<inst, key, tight, cfg, events>> BY DEF Deadline, Callback, github, disk
<1>2. apps' \subseteq Apps BY DEF IInv, Files, Deadline, Callback, github
<1>3. Files' BY <1>1, <1>2 DEF IInv, Files, PairsBelong
<1>4. CASE End(c) BY <1>1, <1>3, <1>4, Ended DEF IInv
<1>5. ASSUME NEW a \in Apps, cmd[c].pc = "browser",
             cmd' = [cmd EXCEPT ![c].pc = "key", ![c].app = a]
      PROVE  IInv'
  <2> DEFINE r == [cmd[c] EXCEPT !.pc = "key", !.app = a]
  <2>1. cmd[c] \in Command /\ cmd[c].id = None BY <1>5 DEF IInv, Running, Fits
  <2>2. r \in Command /\ Fits(r) BY <2>1 DEF Command, Fits
  <2>3. cmd' = [cmd EXCEPT ![c] = r] BY <1>5
  <2> HIDE DEF r
  <2>4. Running' BY <1>1, <2>2, <2>3, Replaced DEF IInv
  <2> QED BY <1>1, <1>3, <2>4 DEF IInv
<1> QED BY <1>4, <1>5 DEF Deadline, Callback, At

-----------------------------------------------------------------------------
(* What the owner starts, and does on GitHub. *)

\* A command starts with an App, and with an installation only of that App.
LEMMA StartKeeps ==
  ASSUME IInv, NEW c \in Commands, events' \in 0..MaxEvents,
         \/ StartManifest(c)
         \/ \E a \in Apps, i \in Ids : StartManual(c, a, i)
         \/ \E a \in Apps \cup {None} : StartFinalize(c, a)
  PROVE  IInv'
<1>1. UNCHANGED <<apps, inst, key, tight, cfg>>
  BY DEF StartManifest, StartManual, StartFinalize, github, disk
<1>2. Files' BY <1>1 DEF IInv, Files, PairsBelong
<1>3. cmd[c] \in Command /\ cmd[c].id = None
  BY DEF IInv, Running, Fits, StartManifest, StartManual, StartFinalize, At
<1>4. \E r \in Command : Fits(r) /\ cmd' = [cmd EXCEPT ![c] = r]
  <2>1. CASE StartManifest(c)
    <3> DEFINE r == [cmd[c] EXCEPT !.pc = "browser"]
    <3>1. r \in Command /\ Fits(r) BY <1>3 DEF Command, Fits
    <3> QED BY <2>1, <3>1 DEF StartManifest, Goto
  <2>2. ASSUME NEW a \in Apps, NEW i \in Ids, StartManual(c, a, i)
        PROVE  \E r \in Command : Fits(r) /\ cmd' = [cmd EXCEPT ![c] = r]
    <3> DEFINE r == [cmd[c] EXCEPT !.pc = "key", !.app = a, !.id = i]
    <3>1. inst[i] # None /\ inst[i].app = a BY <2>2 DEF StartManual, Listed
    <3>2. r \in Command /\ Fits(r) BY <1>3, <3>1 DEF Command, Fits
    <3> QED BY <2>2, <3>2 DEF StartManual
  <2>3. ASSUME NEW a \in Apps \cup {None}, StartFinalize(c, a)
        PROVE  \E r \in Command : Fits(r) /\ cmd' = [cmd EXCEPT ![c] = r]
    <3> DEFINE r == [cmd[c] EXCEPT !.pc = "ask", !.app = a]
    <3>1. a \in Apps BY <2>3 DEF StartFinalize, Loads
    <3>2. r \in Command /\ Fits(r) BY <1>3, <3>1 DEF Command, Fits
    <3>3. cmd' = [cmd EXCEPT ![c] = r] BY <2>3 DEF StartFinalize
    <3> HIDE DEF r
    <3> QED BY <3>2, <3>3
  <2> QED BY <2>1, <2>2, <2>3
<1>5. Running' BY <1>1, <1>4, Replaced DEF IInv
<1> QED BY <1>2, <1>5 DEF IInv

\* What the owner does on GitHub, where an installation keeps its App for ever.
OnGitHub ==
  \/ \E a \in Apps : MakeApp(a)
  \/ \E a \in Apps, i \in Ids, k \in Kinds : Install(a, i, k)
  \/ \E i \in Ids : Uninstall(i)
  \/ \E i \in Ids, k \in Kinds : Change(i, k)

InstallationsStay ==
  /\ inst' \in [Ids -> Installation \cup {None}]
  /\ \A i \in Ids : inst[i] # None => inst'[i] # None /\ inst'[i].app = inst[i].app

LEMMA GitHubKeeps ==
  ASSUME IInv, events' \in 0..MaxEvents, OnGitHub
  PROVE  IInv'
<1>1. UNCHANGED <<key, tight, cfg, cmd>> /\ apps' \subseteq Apps
  BY DEF IInv, Files, OnGitHub, MakeApp, Install, Uninstall, Change, disk
<1>2. inst \in [Ids -> Installation \cup {None}] /\ None \notin Installation
  BY NoneAssumption DEF IInv, Files
<1>3. InstallationsStay
  <2>1. ASSUME NEW a \in Apps, MakeApp(a) PROVE InstallationsStay
    BY <1>2, <2>1 DEF MakeApp, InstallationsStay
  <2>2. ASSUME NEW a \in Apps, NEW i \in Ids, NEW k \in Kinds, Install(a, i, k)
        PROVE  InstallationsStay
    <3>1. [app |-> a, kind |-> k] \in Installation BY DEF Installation
    <3> QED BY <1>2, <2>2, <3>1 DEF Install, InstallationsStay
  <2>3. ASSUME NEW i \in Ids, NEW k \in Kinds \cup {"gone"}, inst[i] # None,
               inst' = [inst EXCEPT ![i].kind = k]
        PROVE  InstallationsStay
    <3>1. inst[i] \in Installation BY <1>2, <2>3
    <3>2. /\ [inst[i] EXCEPT !.kind = k] \in Installation
          /\ [inst[i] EXCEPT !.kind = k].app = inst[i].app
      BY <3>1 DEF Installation
    <3> QED BY <1>2, <2>3, <3>2 DEF InstallationsStay
  <2>4. ASSUME NEW i \in Ids, Uninstall(i) PROVE InstallationsStay
    BY <2>3, <2>4 DEF Uninstall
  <2>5. ASSUME NEW i \in Ids, NEW k \in Kinds, Change(i, k) PROVE InstallationsStay
    BY <2>3, <2>5 DEF Change
  <2> QED BY <2>1, <2>2, <2>4, <2>5 DEF OnGitHub
<1>4. Files'
  <2>1. cfg \notin {None, Torn} /\ cfg.id # None => cfg.id \in Ids
    BY DEF IInv, Files, Configs
  <2> QED BY <1>1, <1>3, <2>1 DEF IInv, Files, PairsBelong, InstallationsStay
<1>5. Running'
  <2>1. ASSUME NEW c \in Commands PROVE Fits(cmd[c])'
    <3>1. Fits(cmd[c]) /\ cmd[c].id \in Ids \cup {None} BY DEF IInv, Running, Command
    <3> QED BY <1>1, <1>3, <3>1 DEF Fits, InstallationsStay
  <2> QED BY <1>1, <2>1 DEF IInv, Running
<1> QED BY <1>4, <1>5 DEF IInv

-----------------------------------------------------------------------------
(* The theorems. *)

\* Every step keeps the invariant.
LEMMA NextKeeps == IInv /\ [Next]_vars => IInv'
<1> SUFFICES ASSUME IInv, [Next]_vars PROVE IInv'
  OBVIOUS
<1>1. CASE UNCHANGED vars
  BY <1>1 DEF IInv, Files, Running, PairsBelong, Fits, vars, github, disk
<1>2. ASSUME NEW c \in Commands, Step(c) PROVE IInv'
  BY <1>2, BrowserKeeps, KeyKeeps, FileKeeps, AskKeeps, PersistKeeps DEF Step
<1>3. ASSUME NEW c \in Commands, FinalizeAsAsked(c) \/ StoreAsAsked(c) PROVE IInv'
  <2>1. events' \in 0..MaxEvents BY <1>3 DEF IInv, FinalizeAsAsked, StoreAsAsked
  <2>2. CASE FinalizeAsAsked(c)
    <3>1. Stored.app \in Apps \cup {None}
      BY <2>2 DEF FinalizeAsAsked, Readable, Stored, IInv, Files, Configs
    <3> QED BY <2>1, <2>2, <3>1, StartKeeps DEF FinalizeAsAsked
  <2>3. CASE StoreAsAsked(c) BY <2>1, <2>3, StartKeeps DEF StoreAsAsked
  <2> QED BY <1>3, <2>2, <2>3
<1>4. CASE Unasked
  <2>1. events' \in 0..MaxEvents BY <1>4, EventsAssumption DEF IInv, Unasked, Event
  <2>2. ASSUME NEW c \in Commands,
               \/ StartManifest(c)
               \/ \E a \in Apps, i \in Ids : StartManual(c, a, i)
               \/ \E a \in Apps : StartFinalize(c, a)
        PROVE  IInv'
    BY <2>1, <2>2, StartKeeps
  <2>3. ASSUME NEW c \in Commands, Stop(c) PROVE IInv'
    <3>1. UNCHANGED <<apps, inst, key, tight, cfg>> BY <2>3 DEF Stop, github, disk
    <3>2. Files' BY <3>1 DEF IInv, Files, PairsBelong
    <3>3. Running' BY <2>3, <3>1, Ended DEF IInv, Stop
    <3> QED BY <2>1, <3>2, <3>3 DEF IInv
  <2>4. CASE OnGitHub BY <2>1, <2>4, GitHubKeeps
  <2> QED BY <1>4, <2>2, <2>3, <2>4 DEF Unasked, OnGitHub
<1> QED BY <1>1, <1>2, <1>3, <1>4 DEF Next

\* Every state of every behaviour has its type (GateSetup's variables).
THEOREM TypeCorrect == Spec => []TypeOK
<1>1. IInv => TypeOK BY DEF IInv, Files, Running, TypeOK
<1> QED BY <1>1, InitHolds, NextKeeps, PTL DEF Spec

\* The configuration never pairs an App with another App's installation
\* (config.py:96-119).
THEOREM PairsAlwaysBelong == Spec => []PairsBelong
<1>1. IInv => PairsBelong BY DEF IInv, Files
<1> QED BY <1>1, InitHolds, NextKeeps, PTL DEF Spec
=============================================================================
