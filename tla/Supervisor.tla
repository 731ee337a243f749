------------------------------ MODULE Supervisor ------------------------------
(***************************************************************************)
(* The config-driven supervisor (host/src/supervisor.rs, with the commands *)
(* of host/src/main.rs that drive it): it keeps the loaded slots in line   *)
(* with a config file and with the wasm files the config names, both of    *)
(* which other programs may rewrite at any moment.  The question is what   *)
(* happens to a write that lands between two of the supervisor's accesses  *)
(* to the file, so each access is a step of its own.                       *)
(*                                                                         *)
(* Of the registry only what the supervisor sees is kept: which slots are  *)
(* loaded, from which version of the file, with which config and policy.   *)
(* A wasm file is good or bad; bad stands for whatever makes the load or   *)
(* reload of that version fail.  Every write has an mtime of its own.      *)
(***************************************************************************)
EXTENDS Naturals

CONSTANTS
    Slots,
    Entries,        \* the plugin entries the config file may hold
    Trusted,        \* the policy of a slot loaded by hand
    MaxWrites,      \* bound on the writes to the files
    None

Entry == [enabled : BOOLEAN, watch : BOOLEAN, restart : BOOLEAN,
          config : {e.config : e \in Entries}, policy : {e.policy : e \in Entries}]

ASSUME EntriesAssumption ==
    Entries \subseteq Entry /\ None \notin Entries /\ MaxWrites \in Nat \ {0} /\ None \notin Nat

VARIABLES
    artifact,       \* the wasm file of each slot: [mtime, good]; mtime 0: no file
    document,       \* the config file: [mtime, entries]; entries None: malformed
    clock,          \* the mtime of the last write
    config,         \* Supervisor.config.plugins
    config_mtime,   \* Supervisor.config_mtime
    mtimes,         \* Supervisor.mtimes
    live,           \* the registry's slots
    pc,             \* where the supervisor is between two file accesses
    todo,           \* the slots the current loop has still to visit
    cur,            \* the slot in hand
    now             \* an mtime that has been read and not yet used

files   == <<artifact, document, clock>>
control == <<pc, todo, cur, now>>
vars    == <<files, config, config_mtime, mtimes, live, control>>

Plugins  == [Slots -> Entries \cup {None}]
Configs  == {e.config : e \in Entries}
Policies == {e.policy : e \in Entries} \cup {Trusted}
Mtime    == 0..MaxWrites

\* config is what the registry has recorded, seen what the instance was given.
Instance == [built : Mtime, config : Configs \cup {None}, seen : Configs \cup {None},
             policy : Policies]

ASSUME NoneAssumption == None \notin Instance

TypeOK ==
    /\ artifact \in [Slots -> [mtime : Mtime, good : BOOLEAN]]
    /\ document \in [mtime : Mtime, entries : Plugins \cup {None}]
    /\ clock \in Mtime
    /\ config \in Plugins
    /\ config_mtime \in Mtime
    /\ mtimes \in [Slots -> Mtime \cup {None}]
    /\ live \in [Slots -> Instance \cup {None}]
    /\ pc \in {"idle", "open", "reopen", "reconcile", "load", "stamp",
               "read", "poll", "stat", "swap", "restamp"}
    /\ todo \in SUBSET Slots
    /\ cur \in Slots \cup {None}
    /\ now \in Mtime

Enabled == {s \in Slots : config[s] # None /\ config[s].enabled}
Loaded  == {s \in Slots : live[s] # None}
Exists(s) == artifact[s].mtime # 0

\* Supervisor::new has read a well-formed config file and not yet looked at
\* its mtime.
Init ==
    /\ artifact \in [Slots -> {[mtime |-> 0, good |-> FALSE], [mtime |-> 1, good |-> TRUE]}]
    /\ \E entries \in Plugins : document = [mtime |-> 1, entries |-> entries]
    /\ clock = 1
    /\ config = document.entries
    /\ config_mtime = 0
    /\ mtimes = [s \in Slots |-> None]
    /\ live = [s \in Slots |-> None]
    /\ pc = "open"
    /\ todo = {} /\ cur = None /\ now = 0

\* A daemon that was started before anything was built, and whose config file
\* nobody touched while it started: its first reconcile has found no file.
Opened ==
    /\ artifact = [s \in Slots |-> [mtime |-> 0, good |-> FALSE]]
    /\ \E entries \in Plugins : document = [mtime |-> 1, entries |-> entries]
    /\ clock = 1
    /\ config = document.entries
    /\ config_mtime = 1
    /\ mtimes = [s \in Slots |-> None]
    /\ live = [s \in Slots |-> None]
    /\ pc = "idle"
    /\ todo = {} /\ cur = None /\ now = 0

------------------------------------------------------------------------------
(* Other programs: a build writes the wasm, an editor the config file.     *)

Rebuild(s) ==
    /\ clock < MaxWrites
    /\ clock' = clock + 1
    /\ \E good \in BOOLEAN :
          artifact' = [artifact EXCEPT ![s] = [mtime |-> clock', good |-> good]]
    /\ UNCHANGED <<document, config, config_mtime, mtimes, live, control>>

EditConfig ==
    /\ clock < MaxWrites
    /\ clock' = clock + 1
    /\ \E entries \in Plugins \cup {None} :
          document' = [mtime |-> clock', entries |-> entries]
    /\ UNCHANGED <<artifact, config, config_mtime, mtimes, live, control>>

------------------------------------------------------------------------------
(* What one handling of a slot does to the registry.                       *)

\* Mutant of FreshInstance: the whole entry is handed over as the config.
FreshInstanceOfEntry(s, cfg, policy) ==
    [built |-> artifact[s].mtime, config |-> config[s], seen |-> config[s], policy |-> policy]

FreshInstance(s, cfg, policy) ==
    [built |-> artifact[s].mtime, config |-> cfg, seen |-> cfg, policy |-> policy]

\* Mutant of Replace: the old instance is dropped before the new one is tried.
ReplaceDroppingFirst(s, cfg, policy) ==
    live' = [live EXCEPT ![s] =
                IF artifact[s].good THEN FreshInstance(s, cfg, policy) ELSE None]

\* load_with_policy and reload_with_policy read the file as it is now; a bad
\* one leaves the slot as it was.
Replace(s, cfg, policy) ==
    live' = IF artifact[s].good
            THEN [live EXCEPT ![s] = FreshInstance(s, cfg, policy)] ELSE live

\* apply_config_if_changed.  The instance has the new config even when its
\* on_config hook then fails and the registry keeps the old one on record.
ApplyConfigIfChanged(s) ==
    LET e == config[s]
    IN  \/ live[s].config = e.config /\ live' = live
        \/ /\ live[s].config # e.config
           /\ e.restart
           /\ Replace(s, e.config, live[s].policy)
        \/ /\ live[s].config # e.config
           /\ ~e.restart
           /\ \/ live' = [live EXCEPT ![s].config = e.config, ![s].seen = e.config]
              \/ live' = [live EXCEPT ![s].seen = e.config]

PolicyDiffers(s) == live[s] # None /\ live[s].policy # config[s].policy

------------------------------------------------------------------------------
(* Supervisor::new and reconcile.                                          *)

\* In new and reload_config the mtime is looked at after the text was read.
\* The daemon and the command reconcile at once, the interactive host when
\* it is told to.
Open ==
    /\ pc \in {"open", "reopen"}
    /\ config_mtime' = document.mtime
    /\ pc' \in IF pc = "open" THEN {"idle", "reconcile"} ELSE {"reconcile"}
    /\ UNCHANGED <<files, config, mtimes, live, todo, cur, now>>

\* First loop: unload whatever is loaded and not enabled.
ReconcileUnload ==
    /\ pc = "reconcile"
    /\ live' = [s \in Slots |-> IF s \in Enabled THEN live[s] ELSE None]
    /\ mtimes' = [s \in Slots |-> IF s \in Loaded \ Enabled THEN None ELSE mtimes[s]]
    /\ pc' = "load"
    /\ todo' = Enabled
    /\ UNCHANGED <<files, config, config_mtime, cur, now>>

\* Second loop, a slot that is not loaded: its mtime is looked at only after
\* the load, in a step of its own.
ReconcileLoad(s) ==
    /\ pc = "load"
    /\ s \in todo \ Loaded
    /\ Exists(s)
    /\ Replace(s, config[s].config, config[s].policy)
    /\ todo' = todo \ {s}
    /\ pc' = IF artifact[s].good THEN "stamp" ELSE "load"
    /\ cur' = IF artifact[s].good THEN s ELSE None
    /\ UNCHANGED <<files, config, config_mtime, mtimes, now>>

ReconcileStamp ==
    /\ pc = "stamp"
    /\ mtimes' = [mtimes EXCEPT ![cur] = artifact[cur].mtime]
    /\ pc' = "load"
    /\ cur' = None
    /\ UNCHANGED <<files, config, config_mtime, live, todo, now>>

ReconcileMissing(s) ==
    /\ pc = "load"
    /\ s \in todo \ Loaded
    /\ ~Exists(s)
    /\ todo' = todo \ {s}
    /\ UNCHANGED <<files, config, config_mtime, mtimes, live, pc, cur, now>>

\* A slot that is loaded: a changed policy reloads it, with no word to mtimes.
ReconcileLoaded(s) ==
    /\ pc = "load"
    /\ s \in todo \cap Loaded
    /\ IF PolicyDiffers(s) THEN Replace(s, config[s].config, config[s].policy)
                           ELSE ApplyConfigIfChanged(s)
    /\ todo' = todo \ {s}
    /\ UNCHANGED <<files, config, config_mtime, mtimes, pc, cur, now>>

ReconcileDone ==
    /\ pc = "load"
    /\ todo = {}
    /\ pc' = "idle"
    /\ UNCHANGED <<files, config, config_mtime, mtimes, live, todo, cur, now>>

Reconcile ==
    \/ Open \/ ReconcileUnload \/ ReconcileStamp \/ ReconcileDone
    \/ \E s \in Slots : ReconcileLoad(s) \/ ReconcileMissing(s) \/ ReconcileLoaded(s)

------------------------------------------------------------------------------
(* poll_changes.                                                           *)

\* The config file's mtime is looked at before the text is read.
PollUnchanged ==
    /\ pc = "idle"
    /\ document.mtime = config_mtime
    /\ pc' = "poll"
    /\ todo' = Enabled
    /\ UNCHANGED <<files, config, config_mtime, mtimes, live, cur, now>>

PollEdited ==
    /\ pc = "idle"
    /\ document.mtime # config_mtime
    /\ pc' = "read"
    /\ now' = document.mtime
    /\ UNCHANGED <<files, config, config_mtime, mtimes, live, todo, cur>>

\* A malformed edit leaves the last good config in place.
PollReadConfig ==
    /\ pc = "read"
    /\ config' = IF document.entries = None THEN config ELSE document.entries
    /\ config_mtime' = now
    /\ pc' = "poll"
    /\ todo' = {s \in Slots : config'[s] # None /\ config'[s].enabled}
    /\ now' = 0
    /\ UNCHANGED <<files, mtimes, live, cur>>

\* Mutant of PollPolicy: the reload keeps the policy the slot had.
PollPolicyKept(s) ==
    /\ pc = "poll"
    /\ s \in todo
    /\ PolicyDiffers(s)
    /\ Replace(s, config[s].config, live[s].policy)
    /\ todo' = todo \ {s}
    /\ UNCHANGED <<files, config, config_mtime, mtimes, pc, cur, now>>

\* A slot whose policy changed is reloaded, and that is all for this tick.
PollPolicy(s) ==
    /\ pc = "poll"
    /\ s \in todo
    /\ PolicyDiffers(s)
    /\ Replace(s, config[s].config, config[s].policy)
    /\ todo' = todo \ {s}
    /\ UNCHANGED <<files, config, config_mtime, mtimes, pc, cur, now>>

\* Otherwise the config is brought up to date, and then the file looked at.
PollConfig(s) ==
    /\ pc = "poll"
    /\ s \in todo
    /\ ~PolicyDiffers(s)
    /\ IF s \in Loaded THEN ApplyConfigIfChanged(s) ELSE live' = live
    /\ todo' = todo \ {s}
    /\ pc' = IF config[s].watch THEN "stat" ELSE "poll"
    /\ cur' = IF config[s].watch THEN s ELSE None
    /\ UNCHANGED <<files, config, config_mtime, mtimes, now>>

\* Mutant of PollAdopt: a baseline is adopted for a slot that is not loaded.
PollAdoptUnloaded ==
    /\ pc = "stat"
    /\ Exists(cur)
    /\ mtimes[cur] = None
    /\ mtimes' = [mtimes EXCEPT ![cur] = artifact[cur].mtime]
    /\ pc' = "poll"
    /\ cur' = None
    /\ UNCHANGED <<files, config, config_mtime, live, todo, now>>

\* No baseline: the version on disk is taken to be the one that is loaded.
PollAdopt ==
    /\ pc = "stat"
    /\ Exists(cur)
    /\ mtimes[cur] = None
    /\ cur \in Loaded
    /\ mtimes' = [mtimes EXCEPT ![cur] = artifact[cur].mtime]
    /\ pc' = "poll"
    /\ cur' = None
    /\ UNCHANGED <<files, config, config_mtime, live, todo, now>>

PollSame ==
    /\ pc = "stat"
    /\ Exists(cur) => mtimes[cur] = artifact[cur].mtime
    /\ pc' = "poll"
    /\ cur' = None
    /\ UNCHANGED <<files, config, config_mtime, mtimes, live, todo, now>>

\* Mutant of PollRebuilt: a slot that could not be loaded is not tried again.
PollRebuiltLoaded ==
    /\ pc = "stat"
    /\ Exists(cur)
    /\ mtimes[cur] # artifact[cur].mtime
    /\ mtimes[cur] = None \/ cur \in Loaded
    /\ pc' = "swap"
    /\ now' = artifact[cur].mtime
    /\ UNCHANGED <<files, config, config_mtime, mtimes, live, todo, cur>>

PollRebuilt ==
    /\ pc = "stat"
    /\ Exists(cur)
    /\ mtimes[cur] # artifact[cur].mtime
    /\ mtimes[cur] = None => cur \notin Loaded
    /\ pc' = "swap"
    /\ now' = artifact[cur].mtime
    /\ UNCHANGED <<files, config, config_mtime, mtimes, live, todo, cur>>

\* The mtime recorded, whether the swap succeeds or not, is the one that was
\* looked at before the file was read.
PollSwap ==
    /\ pc = "swap"
    /\ Replace(cur, config[cur].config, config[cur].policy)
    /\ mtimes' = [mtimes EXCEPT ![cur] = now]
    /\ pc' = "poll"
    /\ cur' = None
    /\ now' = 0
    /\ UNCHANGED <<files, config, config_mtime, todo>>

PollDone ==
    /\ pc = "poll"
    /\ todo = {}
    /\ pc' = "idle"
    /\ UNCHANGED <<files, config, config_mtime, mtimes, live, todo, cur, now>>

Poll ==
    \/ PollUnchanged \/ PollEdited \/ PollReadConfig
    \/ \E s \in Slots : PollPolicy(s) \/ PollConfig(s)
    \/ PollAdopt \/ PollSame \/ PollRebuilt \/ PollSwap \/ PollDone

------------------------------------------------------------------------------
(* The commands of the interactive host.                                   *)

\* set_enabled and set_config change the entry in memory and then write the
\* whole file; if that fails the command ends, the entry stays changed.
ChangeEntry(s, e) ==
    /\ pc = "idle"
    /\ config[s] # None
    /\ config' = [config EXCEPT ![s] = e]
    /\ \/ /\ clock < MaxWrites
          /\ clock' = clock + 1
          /\ document' = [mtime |-> clock', entries |-> config']
          /\ pc' = "reconcile"
       \/ UNCHANGED <<clock, document, pc>>
    /\ UNCHANGED <<artifact, config_mtime, mtimes, live, todo, cur, now>>

SetEnabled(s) ==
    /\ config[s] # None
    /\ \E enabled \in BOOLEAN :
          /\ [config[s] EXCEPT !.enabled = enabled] \in Entries
          /\ ChangeEntry(s, [config[s] EXCEPT !.enabled = enabled])

SetConfig(s) ==
    /\ config[s] # None
    /\ \E value \in Configs :
          /\ [config[s] EXCEPT !.config = value] \in Entries
          /\ ChangeEntry(s, [config[s] EXCEPT !.config = value])

ReconcileCommand ==
    /\ pc = "idle"
    /\ pc' = "reconcile"
    /\ UNCHANGED <<files, config, config_mtime, mtimes, live, todo, cur, now>>

ReloadConfig ==
    /\ pc = "idle"
    /\ document.entries # None
    /\ config' = document.entries
    /\ pc' = "reopen"
    /\ UNCHANGED <<files, config_mtime, mtimes, live, todo, cur, now>>

\* reload_slot: as in reconcile, the mtime is looked at after the file.
ReloadSlot(s) ==
    /\ pc = "idle"
    /\ config[s] # None /\ s \in Loaded
    /\ artifact[s].good
    /\ Replace(s, config[s].config, config[s].policy)
    /\ pc' = "restamp"
    /\ cur' = s
    /\ UNCHANGED <<files, config, config_mtime, mtimes, todo, now>>

ReloadSlotStamp ==
    /\ pc = "restamp"
    /\ mtimes' = [mtimes EXCEPT ![cur] = artifact[cur].mtime]
    /\ pc' = "idle"
    /\ cur' = None
    /\ UNCHANGED <<files, config, config_mtime, live, todo, now>>

\* load and unload go to the registry and leave the supervisor's mtimes alone.
LoadByHand(s) ==
    /\ pc = "idle"
    /\ s \notin Loaded
    /\ Replace(s, IF config[s] = None THEN None ELSE config[s].config, Trusted)
    /\ UNCHANGED <<files, config, config_mtime, mtimes, control>>

UnloadByHand(s) ==
    /\ pc = "idle"
    /\ live' = [live EXCEPT ![s] = None]
    /\ UNCHANGED <<files, config, config_mtime, mtimes, control>>

Command ==
    \/ ReconcileCommand \/ ReloadConfig \/ ReloadSlotStamp
    \/ \E s \in Slots :
          \/ SetEnabled(s) \/ SetConfig(s) \/ ReloadSlot(s)
          \/ LoadByHand(s) \/ UnloadByHand(s)

\* The process dies and is started again: the files are all that is left.
Restart ==
    /\ document.entries # None
    /\ config' = document.entries
    /\ config_mtime' = 0
    /\ mtimes' = [s \in Slots |-> None]
    /\ live' = [s \in Slots |-> None]
    /\ pc' = "open"
    /\ todo' = {} /\ cur' = None /\ now' = 0
    /\ UNCHANGED files

------------------------------------------------------------------------------
Environment == EditConfig \/ \E s \in Slots : Rebuild(s)

\* The daemon: reconcile once, then poll for ever (the wait for a file event
\* has a time limit, so the next poll always comes).
DaemonSpec ==
    Init /\ [][Environment \/ Reconcile \/ Poll]_vars /\ WF_vars(Reconcile \/ Poll)

\* The daemon once its first reconcile has found nothing to load.
PollSpec == Opened /\ [][Environment \/ Poll]_vars /\ WF_vars(Poll)

\* The interactive host, which may be restarted at any moment.
Next == Environment \/ Reconcile \/ Poll \/ Command \/ Restart
Spec == Init /\ [][Next]_vars

------------------------------------------------------------------------------
(* Properties.                                                             *)

\* A version of the wasm that the poll will pass over as already seen, and
\* that is good, is the version that is live: whenever a build lands, polling
\* alone never records a version it has not loaded (mtime before the file).
NoMissedBuild ==
    \A s \in Slots : mtimes[s] = artifact[s].mtime /\ artifact[s].good =>
        s \in Loaded /\ live[s].built = artifact[s].mtime

\* README: "rebuilding the .wasm is enough".  Once the files are left alone,
\* a good build of an enabled, watched slot is live.
RebuildsGoLive ==
    \A s \in Slots : <>[](s \in Enabled /\ config[s].watch /\ artifact[s].good =>
                            s \in Loaded /\ live[s].built = artifact[s].mtime)

\* "external edits are picked up": once the files are left alone, the config
\* in force is that of the file, unless the file is malformed.
ConfigPickedUp == <>[](document.entries # None => config = document.entries)

\* Once the files are left alone, an enabled slot with a good file runs under
\* the policy its entry asks for, whichever of build, edit and poll came first.
PolicyReachesInstance ==
    \A s \in Slots : <>[](s \in Enabled \cap Loaded /\ artifact[s].good =>
                            live[s].policy = config[s].policy)

\* README: the supervisor diffs an entry's config "against the value currently
\* applied to that slot".  Once the files are left alone, an enabled slot with
\* a good file has been given the config in force, though its hook may have
\* failed on it.
ConfigReachesInstance ==
    \A s \in Slots : <>[](s \in Enabled \cap Loaded /\ artifact[s].good =>
                            live[s].seen = config[s].config)

\* "Registry::reload never tears down a working plugin to try a new one": a
\* slot goes down only if it is disabled in the config, unloaded by hand, or
\* with the process, whatever is written to the files meanwhile.
OldKeepsServing ==
    [][\A s \in Loaded : live'[s] = None =>
          s \notin Enabled \/ UnloadByHand(s) \/ Restart]_vars
==============================================================================
