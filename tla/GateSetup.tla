------------------------------- MODULE GateSetup -------------------------------
(***************************************************************************)
(* How the gate gets its GitHub App: the commands setup-app (the manifest  *)
(* flow, --manual-store and --finalize-install) of federation_hq_gate, the *)
(* two files they share under ~/.config/federation-hq-gate, what GitHub    *)
(* has of Apps and installations, and what doctor and the publishing       *)
(* commands make of them.                                                  *)
(*                                                                         *)
(* The files have no lock and are written in place: a command may be       *)
(* stopped at any step, two may run at once, and the owner goes on editing *)
(* on GitHub meanwhile.                                                    *)
(***************************************************************************)
EXTENDS Naturals, FiniteSets

CONSTANTS
  Apps,        \* the Apps that may come to exist
  Ids,         \* installation ids, each used once
  Commands,    \* the commands that may run at once
  None, Torn,  \* a file, an App or an installation that is not there; a file cut short
  MaxEvents    \* bound: what the owner does that no message asks for, and interruptions

ASSUME EventsAssumption == MaxEvents \in Nat

\* An installation as the code tells them apart: "unfit" ones lack a required
\* permission or grant a forbidden one, "wide" ones grant another one besides,
\* "selected" ones do not cover all repositories.
Kinds == {"good", "selected", "wide", "unfit", "inactive"}
Installation == [app : Apps, kind : Kinds \cup {"gone"}]
Configs == [app : Apps, id : Ids \cup {None}]

\* What is not there, and a torn file, are unlike anything else.
ASSUME NoneAssumption ==
  /\ None \notin Apps \cup Ids \cup Configs \cup Installation
  /\ Torn \notin Apps \cup Configs \cup {None}

VARIABLES
  apps,        \* the Apps on GitHub
  inst,        \* per id: None, or its App and its kind; ids are never reused
  key,         \* private-key.pem: the App it signs for
  tight,       \* ... and whether only the owner can read it
  cfg,         \* config.json
  cmd,         \* the commands
  events       \* events so far

github == <<apps, inst>>
disk == <<key, tight, cfg>>
vars == <<github, disk, cmd, events>>

\* A command: where it is, its App, its installation, and what it has read of
\* the configuration.
Command == [pc : {"idle", "browser", "key", "pem", "chmod", "store", "fields", "again",
                  "fields again", "ask", "persist", "save", "saved"},
            app : Apps \cup {None}, id : Ids \cup {None}, read : Configs \cup {None}]
Idle == [pc |-> "idle", app |-> None, id |-> None, read |-> None]

TypeOK ==
  /\ apps \subseteq Apps
  /\ inst \in [Ids -> Installation \cup {None}]
  /\ key \in Apps \cup {None, Torn} /\ tight \in BOOLEAN
  /\ cfg \in Configs \cup {None, Torn}
  /\ cmd \in [Commands -> Command]
  /\ events \in 0..MaxEvents

Init ==
  /\ apps = {} /\ inst = [i \in Ids |-> None]
  /\ key = None /\ tight = FALSE /\ cfg = None
  /\ cmd = [c \in Commands |-> Idle] /\ events = 0

Event == events < MaxEvents /\ events' = events + 1

-----------------------------------------------------------------------------
(* What a reader makes of the files and of GitHub. *)

\* _read_config_file fails on a torn file and takes a missing one for {}.
Readable == cfg # Torn
Stored == IF cfg = None THEN [app |-> None, id |-> None] ELSE cfg

\* load_config: the environment may name another App than the file.
Loads(app, needsId) ==
  /\ Readable /\ key # None
  /\ app # None
  /\ needsId => Stored.id # None

\* GitHub answers a JWT only if the key that signed it is the App's.
SignsFor(app) == key = app

Listed(app) == {i \in Ids : inst[i] # None /\ inst[i].app = app /\ inst[i].kind # "gone"}

\* discover_installations and _validate_installation_permissions, with GitHub's
\* refusal of a token for an installation that is suspended.
Tokens(i) == inst[i].kind \notin {"unfit", "inactive"}

\* installation_token: whether a publishing command gets its token.
Publishes ==
  /\ Loads(Stored.app, TRUE) /\ SignsFor(Stored.app)
  /\ \E i \in Listed(Stored.app) : Tokens(i)

\* run_doctor: what it calls a safe configuration.
Safe ==
  /\ Loads(Stored.app, TRUE) /\ SignsFor(Stored.app) /\ tight
  /\ \E i \in Listed(Stored.app) : Tokens(i) /\ inst[i].kind # "selected"

\* finalize_installation: exactly one active installation, of all repositories
\* and with the permissions of the runtime and no other.
Finalizable(app, i) ==
  /\ {j \in Listed(app) : inst[j].kind # "inactive"} = {i}
  /\ inst[i].kind = "good"

-----------------------------------------------------------------------------
(* Steps of a command. *)

Goto(c, pc) == cmd' = [cmd EXCEPT ![c].pc = pc]
End(c) == cmd' = [cmd EXCEPT ![c] = Idle]
At(c, pc) == cmd[c].pc = pc

\* write_text opens the file, which empties it, and then fills it.  Filled a
\* second time, by another command, it may hold a bit of both.
Filled(old, new) == IF old = Torn THEN {new} ELSE {new, Torn}

\* run_manifest_flow: the owner confirms, GitHub makes the App and sends its
\* code back.  A wrong state, no code, a failed exchange or the deadline end the
\* flow; the App stays.
Callback(c, a) ==
  /\ At(c, "browser")
  /\ a \notin apps
  /\ apps' = apps \cup {a}
  /\ \/ cmd' = [cmd EXCEPT ![c].pc = "key", ![c].app = a]
     \/ End(c)
  /\ UNCHANGED <<inst, disk, events>>

Deadline(c) ==
  /\ At(c, "browser")
  /\ End(c)
  /\ UNCHANGED <<github, disk, events>>

\* store_credentials: the key, its mode, and the configuration, of which it keeps
\* nothing.
OpenKey(c) ==
  /\ At(c, "key")
  /\ key' = Torn /\ tight' = (tight /\ key # None)
  /\ Goto(c, "pem")
  /\ UNCHANGED <<github, cfg, events>>

FillKey(c) ==
  /\ At(c, "pem")
  /\ key' \in Filled(key, cmd[c].app)
  /\ Goto(c, "chmod")
  /\ UNCHANGED <<github, tight, cfg, events>>

Chmod(c) ==
  /\ At(c, "chmod")
  /\ tight' = TRUE
  /\ Goto(c, "store")
  /\ UNCHANGED <<github, key, cfg, events>>

\* Faulty variant: it reads the stored configuration first, to add to it.
MergeConfig(c) ==
  /\ At(c, "store") \/ At(c, "again")
  /\ IF Readable
     THEN cfg' = Torn /\ Goto(c, IF At(c, "store") THEN "fields" ELSE "fields again")
     ELSE UNCHANGED cfg /\ End(c)
  /\ UNCHANGED <<github, key, tight, events>>

OpenConfig(c) ==
  /\ At(c, "store") \/ At(c, "again")
  /\ cfg' = Torn
  /\ Goto(c, IF At(c, "store") THEN "fields" ELSE "fields again")
  /\ UNCHANGED <<github, key, tight, events>>

\* store_manual_credentials writes the configuration once more and goes on to
\* persist_installation_id with what the owner has typed.
FillConfig(c) ==
  /\ At(c, "fields") \/ At(c, "fields again")
  /\ cfg' \in Filled(cfg, [app |-> cmd[c].app, id |-> None])
  /\ IF cmd[c].id = None
     THEN End(c)
     ELSE Goto(c, IF At(c, "fields") THEN "again" ELSE "persist")
  /\ UNCHANGED <<github, key, tight, events>>

\* finalize_installation asks GitHub.
Ask(c) ==
  /\ At(c, "ask")
  /\ \/ \E i \in Ids :
          /\ SignsFor(cmd[c].app) /\ Finalizable(cmd[c].app, i)
          /\ cmd' = [cmd EXCEPT ![c].pc = "persist", ![c].id = i]
     \/ /\ ~\E i \in Ids : SignsFor(cmd[c].app) /\ Finalizable(cmd[c].app, i)
        /\ End(c)
  /\ UNCHANGED <<github, disk, events>>

\* Faulty variant: the App of the file is not compared.
PersistAny(c) ==
  /\ At(c, "persist")
  /\ IF Readable /\ Stored.app # None /\ Stored.id \in {None, cmd[c].id}
     THEN cmd' = [cmd EXCEPT ![c].pc = "save", ![c].read = cfg]
     ELSE End(c)
  /\ UNCHANGED <<github, disk, events>>

\* persist_installation_id reads the file, refuses a different installation and
\* a different App, and writes what it has read with the id in it.
Persist(c) ==
  /\ At(c, "persist")
  /\ IF Readable /\ Stored.id \in {None, cmd[c].id} /\ Stored.app = cmd[c].app
     THEN cmd' = [cmd EXCEPT ![c].pc = "save", ![c].read = cfg]
     ELSE End(c)
  /\ UNCHANGED <<github, disk, events>>

OpenSave(c) ==
  /\ At(c, "save")
  /\ cfg' = Torn
  /\ Goto(c, "saved")
  /\ UNCHANGED <<github, key, tight, events>>

FillSave(c) ==
  /\ At(c, "saved")
  /\ cfg' \in Filled(cfg, [cmd[c].read EXCEPT !.id = cmd[c].id])
  /\ End(c)
  /\ UNCHANGED <<github, key, tight, events>>

-----------------------------------------------------------------------------
(* The owner. *)

StartManifest(c) ==
  /\ At(c, "idle")
  /\ Goto(c, "browser")
  /\ UNCHANGED <<github, disk>>

\* The owner types the App, one of its installations and its key as GitHub shows
\* them.
StartManual(c, a, i) ==
  /\ At(c, "idle")
  /\ i \in Listed(a)
  /\ cmd' = [cmd EXCEPT ![c].pc = "key", ![c].app = a, ![c].id = i]
  /\ UNCHANGED <<github, disk>>

\* --finalize-install loads the configuration; FEDERATION_HQ_APP_ID may be set.
StartFinalize(c, app) ==
  /\ At(c, "idle")
  /\ Loads(app, FALSE)
  /\ cmd' = [cmd EXCEPT ![c].pc = "ask", ![c].app = app]
  /\ UNCHANGED <<github, disk>>

\* An App made by hand, as run_manual_flow explains.
MakeApp(a) ==
  /\ a \notin apps
  /\ apps' = apps \cup {a}
  /\ UNCHANGED <<inst, disk, cmd>>

\* GitHub allows one installation of an App on an account.
Install(a, i, k) ==
  /\ a \in apps /\ Listed(a) = {}
  /\ inst[i] = None
  /\ inst' = [inst EXCEPT ![i] = [app |-> a, kind |-> k]]
  /\ UNCHANGED <<apps, disk, cmd>>

Uninstall(i) ==
  /\ inst[i] # None /\ inst[i].kind # "gone"
  /\ inst' = [inst EXCEPT ![i].kind = "gone"]
  /\ UNCHANGED <<apps, disk, cmd>>

Change(i, k) ==
  /\ inst[i] # None /\ inst[i].kind \notin {k, "gone"}
  /\ inst' = [inst EXCEPT ![i].kind = k]
  /\ UNCHANGED <<apps, disk, cmd>>

\* A command is stopped where it is.
Stop(c) ==
  /\ ~At(c, "idle")
  /\ End(c)
  /\ UNCHANGED <<github, disk>>

Unasked ==
  /\ Event
  /\ \/ \E c \in Commands :
          \/ StartManifest(c)
          \/ \E a \in Apps, i \in Ids : StartManual(c, a, i)
          \/ \E a \in Apps : StartFinalize(c, a)
          \/ Stop(c)
     \/ \E a \in Apps : MakeApp(a)
     \/ \E a \in Apps, i \in Ids, k \in Kinds : Install(a, i, k)
     \/ \E i \in Ids : Uninstall(i)
     \/ \E i \in Ids, k \in Kinds : Change(i, k)

\* Doctor has called the configuration unsafe and nothing else runs.
Resting == \A c \in Commands : At(c, "idle")

\* "missing Gate App configuration; set FEDERATION_HQ_INSTALLATION_ID or run
\* setup-app", and the manifest flow's "then finalize and verify".
FinalizeAsAsked(c) ==
  /\ Resting /\ ~Safe
  /\ Readable /\ Stored.id = None
  /\ StartFinalize(c, Stored.app)
  /\ UNCHANGED events

StoreAsAsked(c) ==
  /\ Resting /\ ~Safe
  /\ \E a \in Apps, i \in Ids : Finalizable(a, i) /\ StartManual(c, a, i)
  /\ UNCHANGED events

Step(c) ==
  \/ \E a \in Apps : Callback(c, a)
  \/ Deadline(c)
  \/ OpenKey(c) \/ FillKey(c) \/ Chmod(c) \/ OpenConfig(c) \/ FillConfig(c)
  \/ Ask(c) \/ Persist(c) \/ OpenSave(c) \/ FillSave(c)

Next ==
  \/ \E c \in Commands : Step(c) \/ FinalizeAsAsked(c) \/ StoreAsAsked(c)
  \/ Unasked

Spec == Init /\ [][Next]_vars

\* A command that is not stopped goes on; the owner who keeps reading "UNSAFE
\* configuration" stores an App that can be finalized, if there is one.
FairSpec ==
  /\ Spec
  /\ \A c \in Commands : WF_vars(Step(c))
  /\ SF_vars(\E c \in Commands : StoreAsAsked(c))

-----------------------------------------------------------------------------
(* Properties. *)

\* The installation in the configuration file belongs to the App in it, however
\* the commands that store and finalize overlap or are cut short, and whatever
\* App the environment names (config.py:96-119, app_setup.py:237-259).
PairsBelong ==
  cfg \notin {None, Torn} /\ cfg.id # None =>
    inst[cfg.id] # None /\ inst[cfg.id].app = cfg.app

\* Whatever was torn, mixed, left over or mistyped before: an owner who does what
\* the messages ask for ends with a configuration that doctor calls safe and with
\* which the publishing commands get their token, as long as there is an App with
\* an installation that can be finalized (cli.py:22-70, doctor.py:36-130,
\* auth.py:137-221).
SetupSucceeds ==
  \/ []<>(\A a \in Apps, i \in Ids : ~Finalizable(a, i))
  \/ <>[](Safe /\ Publishes)
=============================================================================
