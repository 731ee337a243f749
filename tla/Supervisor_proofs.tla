--------------------------- MODULE Supervisor_proofs ---------------------------
(***************************************************************************)
(* Proofs about the supervisor: its state stays well-formed under every    *)
(* command, edit and restart; no reload ever takes a working slot down; and *)
(* polling alone never takes a build it has not loaded for one it has.     *)
(***************************************************************************)
EXTENDS Supervisor, TLAPS

USE EntriesAssumption, NoneAssumption

\* The slots in hand are those of the config in force: an entry is never read
\* through a config that no longer has it.
InHand ==
    /\ pc \in {"load", "stamp", "poll", "stat", "swap"} => todo \subseteq Enabled
    /\ pc \in {"stat", "swap"} => cur \in Enabled
    /\ pc \in {"stamp", "restamp"} => cur \in Slots

IInv == TypeOK /\ InHand

\* What the registry does with a slot is well-formed.
LEMMA FreshTyped ==
    ASSUME TypeOK, NEW s \in Slots, NEW cfg \in Configs \cup {None}, NEW pol \in Policies
    PROVE  FreshInstance(s, cfg, pol) \in Instance
  BY DEF TypeOK, FreshInstance, Instance

LEMMA ReplaceTyped ==
    ASSUME TypeOK, NEW s \in Slots, NEW cfg \in Configs \cup {None}, NEW pol \in Policies,
           Replace(s, cfg, pol)
    PROVE  live' \in [Slots -> Instance \cup {None}]
  BY FreshTyped DEF TypeOK, Replace

LEMMA EnabledTyped ==
    ASSUME TypeOK, NEW s \in Enabled
    PROVE  /\ s \in Slots
           /\ config[s] \in Entries
           /\ config[s].config \in Configs
           /\ config[s].policy \in Policies
  BY DEF TypeOK, Enabled, Plugins, Configs, Policies

LEMMA ApplyTyped ==
    ASSUME TypeOK, NEW s \in Enabled \cap Loaded, ApplyConfigIfChanged(s)
    PROVE  live' \in [Slots -> Instance \cup {None}]
<1> DEFINE e == config[s]
<1>1. live[s] \in Instance /\ s \in Slots /\ e.config \in Configs
  BY EnabledTyped DEF TypeOK, Loaded
<1>2. CASE live' = live
  BY <1>2 DEF TypeOK
<1>3. CASE Replace(s, e.config, live[s].policy)
  <2>1. live[s].policy \in Policies
    BY <1>1 DEF Instance
  <2> QED
    BY <1>1, <1>3, <2>1, ReplaceTyped
<1>4. CASE live' = [live EXCEPT ![s].config = e.config, ![s].seen = e.config]
  <2> DEFINE i == [live[s] EXCEPT !.config = e.config, !.seen = e.config]
  <2>1. i \in Instance
    BY <1>1 DEF Instance
  <2>2. live' = [live EXCEPT ![s] = i]
    BY <1>1, <1>4 DEF TypeOK, Instance
  <2> QED
    BY <2>1, <2>2 DEF TypeOK
<1>5. CASE live' = [live EXCEPT ![s].seen = e.config]
  <2> DEFINE i == [live[s] EXCEPT !.seen = e.config]
  <2>1. i \in Instance
    BY <1>1 DEF Instance
  <2>2. live' = [live EXCEPT ![s] = i]
    BY <1>5
  <2> QED
    BY <2>1, <2>2 DEF TypeOK
<1> QED
  BY <1>2, <1>3, <1>4, <1>5 DEF ApplyConfigIfChanged

------------------------------------------------------------------------------
(* One lemma per group of actions: each keeps the state well-formed.       *)

LEMMA EnvironmentKeeps ==
    ASSUME IInv, Environment
    PROVE  IInv'
<1> USE DEF IInv, TypeOK, InHand, Enabled, control, Mtime
<1>1. CASE EditConfig
  <2>1. PICK entries \in Plugins \cup {None} :
            document' = [mtime |-> clock', entries |-> entries]
    BY <1>1 DEF EditConfig
  <2> QED
    BY <1>1, <2>1 DEF EditConfig
<1>2. ASSUME NEW s \in Slots, Rebuild(s)
      PROVE  IInv'
  <2>1. PICK good \in BOOLEAN :
            artifact' = [artifact EXCEPT ![s] = [mtime |-> clock', good |-> good]]
    BY <1>2 DEF Rebuild
  <2>2. clock' \in Mtime /\ artifact' \in [Slots -> [mtime : Mtime, good : BOOLEAN]]
    BY <1>2, <2>1 DEF Rebuild
  <2> QED
    BY <1>2, <2>2 DEF Rebuild
<1> QED
  BY <1>1, <1>2 DEF Environment

LEMMA ReconcileKeeps ==
    ASSUME IInv, Reconcile
    PROVE  IInv'
<1> USE DEF IInv
<1>1. CASE Open
  BY <1>1 DEF Open, TypeOK, InHand, Enabled, files
<1>2. CASE ReconcileUnload
  BY <1>2 DEF ReconcileUnload, TypeOK, InHand, Enabled, Loaded, files
<1>3. CASE ReconcileStamp
  BY <1>3 DEF ReconcileStamp, TypeOK, InHand, Enabled, files
<1>4. CASE ReconcileDone
  BY <1>4 DEF ReconcileDone, TypeOK, InHand, Enabled, files
<1>5. ASSUME NEW s \in Slots, ReconcileLoad(s)
      PROVE  IInv'
  <2>1. s \in Enabled
    BY <1>5 DEF ReconcileLoad, InHand
  <2>2. live' \in [Slots -> Instance \cup {None}]
    BY <1>5, <2>1, EnabledTyped, ReplaceTyped DEF ReconcileLoad
  <2> QED
    BY <1>5, <2>2 DEF ReconcileLoad, TypeOK, InHand, Enabled, files
<1>6. ASSUME NEW s \in Slots, ReconcileMissing(s)
      PROVE  IInv'
  BY <1>6 DEF ReconcileMissing, TypeOK, InHand, Enabled, files
<1>7. ASSUME NEW s \in Slots, ReconcileLoaded(s)
      PROVE  IInv'
  <2>1. s \in Enabled \cap Loaded
    BY <1>7 DEF ReconcileLoaded, InHand
  <2>2. live' \in [Slots -> Instance \cup {None}]
    BY <1>7, <2>1, EnabledTyped, ReplaceTyped, ApplyTyped DEF ReconcileLoaded
  <2> QED
    BY <1>7, <2>2 DEF ReconcileLoaded, TypeOK, InHand, Enabled, files
<1> QED
  BY <1>1, <1>2, <1>3, <1>4, <1>5, <1>6, <1>7 DEF Reconcile

LEMMA PollKeeps ==
    ASSUME IInv, Poll
    PROVE  IInv'
<1> USE DEF IInv
<1>1. CASE PollUnchanged
  BY <1>1 DEF PollUnchanged, TypeOK, InHand, Enabled, files
<1>2. CASE PollEdited
  BY <1>2 DEF PollEdited, TypeOK, InHand, Enabled, files
<1>3. CASE PollReadConfig
  BY <1>3 DEF PollReadConfig, TypeOK, InHand, Enabled, files, Mtime
<1>4. ASSUME NEW s \in Slots, PollPolicy(s)
      PROVE  IInv'
  <2>1. s \in Enabled
    BY <1>4 DEF PollPolicy, InHand
  <2>2. live' \in [Slots -> Instance \cup {None}]
    BY <1>4, <2>1, EnabledTyped, ReplaceTyped DEF PollPolicy
  <2> QED
    BY <1>4, <2>2 DEF PollPolicy, TypeOK, InHand, Enabled, files
<1>5. ASSUME NEW s \in Slots, PollConfig(s)
      PROVE  IInv'
  <2>1. s \in Enabled
    BY <1>5 DEF PollConfig, InHand
  <2>2. live' \in [Slots -> Instance \cup {None}]
    BY <1>5, <2>1, ApplyTyped DEF PollConfig, TypeOK
  <2> QED
    BY <1>5, <2>1, <2>2 DEF PollConfig, TypeOK, InHand, Enabled, files
<1>6. CASE PollAdopt
  BY <1>6 DEF PollAdopt, TypeOK, InHand, Enabled, files
<1>7. CASE PollSame
  BY <1>7 DEF PollSame, TypeOK, InHand, Enabled, files
<1>8. CASE PollRebuilt
  BY <1>8 DEF PollRebuilt, TypeOK, InHand, Enabled, files
<1>9. CASE PollSwap
  <2>1. cur \in Enabled
    BY <1>9 DEF PollSwap, InHand
  <2>2. live' \in [Slots -> Instance \cup {None}]
    BY <1>9, <2>1, EnabledTyped, ReplaceTyped DEF PollSwap
  <2>3. mtimes' \in [Slots -> Mtime \cup {None}] /\ now' \in Mtime
    BY <1>9, <2>1 DEF PollSwap, TypeOK, Enabled, Mtime
  <2>4. InHand'
    BY <1>9 DEF PollSwap, InHand, Enabled
  <2> QED
    BY <1>9, <2>2, <2>3, <2>4 DEF PollSwap, TypeOK, files
<1>10. CASE PollDone
  BY <1>10 DEF PollDone, TypeOK, InHand, Enabled, files
<1> QED
  BY <1>1, <1>2, <1>3, <1>4, <1>5, <1>6, <1>7, <1>8, <1>9, <1>10 DEF Poll

LEMMA ChangeEntryKeeps ==
    ASSUME IInv, NEW s \in Slots, NEW e \in Entries, ChangeEntry(s, e)
    PROVE  IInv'
<1> USE DEF IInv, ChangeEntry
<1>1. config' \in Plugins
  BY DEF TypeOK, Plugins
<1>2. CASE UNCHANGED <<clock, document, pc>>
  BY <1>1, <1>2 DEF TypeOK, InHand
<1>3. CASE /\ clock < MaxWrites
           /\ clock' = clock + 1
           /\ document' = [mtime |-> clock', entries |-> config']
           /\ pc' = "reconcile"
  <2>1. clock' \in Mtime
    BY <1>3 DEF TypeOK, Mtime
  <2>2. document' \in [mtime : Mtime, entries : Plugins \cup {None}]
    BY <1>1, <1>3, <2>1
  <2> QED
    BY <1>1, <1>3, <2>1, <2>2 DEF TypeOK, InHand
<1> QED
  BY <1>2, <1>3

LEMMA CommandKeeps ==
    ASSUME IInv, Command
    PROVE  IInv'
<1> USE DEF IInv
<1>1. CASE ReconcileCommand
  BY <1>1 DEF ReconcileCommand, TypeOK, InHand, files
<1>2. CASE ReloadConfig
  BY <1>2 DEF ReloadConfig, TypeOK, InHand, files
<1>3. CASE ReloadSlotStamp
  BY <1>3 DEF ReloadSlotStamp, TypeOK, InHand, files
<1>4. ASSUME NEW s \in Slots, SetEnabled(s)
      PROVE  IInv'
  BY <1>4, ChangeEntryKeeps DEF SetEnabled
<1>5. ASSUME NEW s \in Slots, SetConfig(s)
      PROVE  IInv'
  BY <1>5, ChangeEntryKeeps DEF SetConfig
<1>6. ASSUME NEW s \in Slots, ReloadSlot(s)
      PROVE  IInv'
  <2>1. config[s].config \in Configs /\ config[s].policy \in Policies
    BY <1>6 DEF ReloadSlot, TypeOK, Plugins, Configs, Policies
  <2>2. live' \in [Slots -> Instance \cup {None}]
    BY <1>6, <2>1, ReplaceTyped DEF ReloadSlot
  <2> QED
    BY <1>6, <2>2 DEF ReloadSlot, TypeOK, InHand, files
<1>7. ASSUME NEW s \in Slots, LoadByHand(s)
      PROVE  IInv'
  <2> DEFINE cfg == IF config[s] = None THEN None ELSE config[s].config
  <2>1. cfg \in Configs \cup {None} /\ Trusted \in Policies
    BY DEF TypeOK, Plugins, Configs, Policies
  <2>2. live' \in [Slots -> Instance \cup {None}]
    BY <1>7, <2>1, ReplaceTyped DEF LoadByHand
  <2> QED
    BY <1>7, <2>2 DEF LoadByHand, TypeOK, InHand, Enabled, files, control
<1>8. ASSUME NEW s \in Slots, UnloadByHand(s)
      PROVE  IInv'
  BY <1>8 DEF UnloadByHand, TypeOK, InHand, Enabled, files, control
<1> QED
  BY <1>1, <1>2, <1>3, <1>4, <1>5, <1>6, <1>7, <1>8 DEF Command

LEMMA RestartKeeps ==
    ASSUME IInv, Restart
    PROVE  IInv'
  BY DEF IInv, Restart, TypeOK, InHand, files, Mtime

LEMMA Keeps ==
    ASSUME IInv, [Next]_vars
    PROVE  IInv'
<1>1. CASE UNCHANGED vars
  BY <1>1 DEF vars, files, control, IInv, TypeOK, InHand, Enabled
<1> QED
  BY <1>1, EnvironmentKeeps, ReconcileKeeps, PollKeeps, CommandKeeps, RestartKeeps DEF Next

LEMMA Starts ==
    ASSUME Init \/ Opened
    PROVE  IInv
<1>1. PICK entries \in Plugins : document = [mtime |-> 1, entries |-> entries]
  BY DEF Init, Opened
<1>2. config \in Plugins /\ 0 \in Mtime /\ 1 \in Mtime
  BY <1>1 DEF Init, Opened, Mtime
<1>3. document \in [mtime : Mtime, entries : Plugins \cup {None}]
  BY <1>1, <1>2
<1>4. CASE Init
  <2>1. {[mtime |-> 0, good |-> FALSE], [mtime |-> 1, good |-> TRUE]}
            \subseteq [mtime : Mtime, good : BOOLEAN]
    BY <1>2
  <2>2. artifact \in [Slots -> [mtime : Mtime, good : BOOLEAN]]
    BY <1>4, <2>1, Zenon DEF Init
  <2> QED
    BY <1>2, <1>3, <1>4, <2>2 DEF Init, IInv, TypeOK, InHand
<1>5. CASE Opened
  BY <1>2, <1>3, <1>5 DEF Opened, IInv, TypeOK, InHand
<1> QED
  BY <1>4, <1>5

\* Whatever is edited, built, typed at the prompt or killed, the supervisor's
\* state is well-formed: no step reads an entry that the config in force does
\* not have, whatever config is read between two of its steps.
THEOREM TypeCorrect == Spec => []TypeOK
<1>1. Init => IInv
  BY Starts
<1>2. IInv /\ [Next]_vars => IInv'
  BY Keeps
<1>3. IInv => TypeOK
  BY DEF IInv
<1> QED
  BY <1>1, <1>2, <1>3, PTL DEF Spec

------------------------------------------------------------------------------
(* A working slot is only ever taken down on purpose.                      *)

\* Neither a load, a reload nor a push of a config empties a slot.
LEMMA ReplaceServes ==
    ASSUME TypeOK, NEW s \in Slots, NEW cfg \in Configs \cup {None}, NEW pol \in Policies,
           Replace(s, cfg, pol), NEW t \in Loaded
    PROVE  live'[t] # None
  BY FreshTyped DEF TypeOK, Replace, Loaded

LEMMA ApplyServes ==
    ASSUME TypeOK, NEW s \in Enabled \cap Loaded, ApplyConfigIfChanged(s), NEW t \in Loaded
    PROVE  live'[t] # None
<1> DEFINE e == config[s]
<1>1. live[s] \in Instance /\ s \in Slots /\ e.config \in Configs /\ t \in Slots
  BY EnabledTyped DEF TypeOK, Loaded
<1>2. CASE live' = live
  BY <1>2 DEF Loaded
<1>3. CASE Replace(s, e.config, live[s].policy)
  <2>1. live[s].policy \in Policies
    BY <1>1 DEF Instance
  <2> QED
    BY <1>1, <1>3, <2>1, ReplaceServes
<1>4. CASE live' = [live EXCEPT ![s].config = e.config, ![s].seen = e.config]
  <2> DEFINE i == [live[s] EXCEPT !.config = e.config, !.seen = e.config]
  <2>1. i \in Instance
    BY <1>1 DEF Instance
  <2>2. live' = [live EXCEPT ![s] = i]
    BY <1>1, <1>4 DEF TypeOK, Instance
  <2> QED
    BY <1>1, <2>1, <2>2 DEF TypeOK, Loaded
<1>5. CASE live' = [live EXCEPT ![s].seen = e.config]
  <2> DEFINE i == [live[s] EXCEPT !.seen = e.config]
  <2>1. i \in Instance
    BY <1>1 DEF Instance
  <2>2. live' = [live EXCEPT ![s] = i]
    BY <1>5
  <2> QED
    BY <1>1, <2>1, <2>2 DEF TypeOK, Loaded
<1> QED
  BY <1>2, <1>3, <1>4, <1>5 DEF ApplyConfigIfChanged

LEMMA StepServes ==
    ASSUME IInv, Next, NEW t \in Loaded, live'[t] = None
    PROVE  t \notin Enabled \/ UnloadByHand(t) \/ Restart
<1> USE DEF IInv, InHand
<1>1. CASE live' = live
  BY <1>1 DEF Loaded
<1>2. CASE ReconcileUnload
  BY <1>2 DEF ReconcileUnload, Loaded
<1>3. ASSUME NEW s \in Enabled, Replace(s, config[s].config, config[s].policy)
      PROVE  FALSE
  BY <1>3, EnabledTyped, ReplaceServes
<1>4. ASSUME NEW s \in Enabled \cap Loaded, ApplyConfigIfChanged(s)
      PROVE  FALSE
  BY <1>4, ApplyServes
<1>5. CASE Environment
  BY <1>1, <1>5 DEF Environment, EditConfig, Rebuild
<1>6. CASE Reconcile
  BY <1>1, <1>2, <1>3, <1>4, <1>6
     DEF Reconcile, Open, ReconcileStamp, ReconcileDone, ReconcileLoad, ReconcileMissing,
         ReconcileLoaded
<1>7. CASE Poll
  BY <1>1, <1>3, <1>4, <1>7
     DEF Poll, PollUnchanged, PollEdited, PollReadConfig, PollPolicy, PollConfig, PollAdopt,
         PollSame, PollRebuilt, PollSwap, PollDone
<1>8. CASE Command
  <2>1. ASSUME NEW s \in Slots, ReloadSlot(s)
        PROVE  FALSE
    <3>1. config[s].config \in Configs /\ config[s].policy \in Policies
      BY <2>1 DEF ReloadSlot, TypeOK, Plugins, Configs, Policies
    <3> QED
      BY <2>1, <3>1, ReplaceServes DEF ReloadSlot
  <2>2. ASSUME NEW s \in Slots, LoadByHand(s)
        PROVE  FALSE
    <3> DEFINE cfg == IF config[s] = None THEN None ELSE config[s].config
    <3>1. cfg \in Configs \cup {None} /\ Trusted \in Policies
      BY DEF TypeOK, Plugins, Configs, Policies
    <3> QED
      BY <2>2, <3>1, ReplaceServes DEF LoadByHand
  <2>3. ASSUME NEW s \in Slots, UnloadByHand(s)
        PROVE  s = t
    BY <2>3 DEF UnloadByHand, TypeOK, Loaded
  <2> QED
    BY <1>1, <1>8, <2>1, <2>2, <2>3
       DEF Command, ReconcileCommand, ReloadConfig, ReloadSlotStamp, SetEnabled, SetConfig,
           ChangeEntry
<1> QED
  BY <1>5, <1>6, <1>7, <1>8 DEF Next

\* The supervisor's promise of atomic reloads, for every config, every
\* sequence of builds and edits and every command: a loaded slot goes down
\* only when its entry is disabled, it is unloaded by hand, or the host dies.
THEOREM WorkingSlotsSurvive == Spec => OldKeepsServing
<1>1. Init => IInv
  BY Starts
<1>2. IInv /\ [Next]_vars => IInv'
  BY Keeps
<1>3. IInv /\ [Next]_vars =>
        [\A s \in Loaded : live'[s] = None => s \notin Enabled \/ UnloadByHand(s) \/ Restart]_vars
  BY StepServes
<1> QED
  BY <1>1, <1>2, <1>3, PTL DEF Spec, OldKeepsServing

------------------------------------------------------------------------------
(* Polling alone never takes a build it has not loaded for one it has.     *)

\* The mtimes the poll works with are never ahead of the files, and a slot is
\* live only with one of them on record.
NeverAhead ==
    /\ pc \in {"idle", "read", "poll", "stat", "swap"}
    /\ \A s \in Slots :
          /\ artifact[s].mtime <= clock
          /\ mtimes[s] # None => mtimes[s] <= artifact[s].mtime
          /\ s \in Loaded => mtimes[s] # None
    /\ pc = "swap" => now <= artifact[cur].mtime

PInv == IInv /\ NeverAhead /\ NoMissedBuild

\* An action that leaves mtimes alone and gives a slot at most the version on
\* disk keeps the invariant.
LEMMA SameMtimesKeeps ==
    ASSUME PInv, IInv', UNCHANGED <<artifact, clock, mtimes>>,
           \A s \in Slots : s \in Loaded' <=> s \in Loaded,
           \A s \in Loaded : live'[s].built \in {live[s].built, artifact[s].mtime},
           pc' \in {"idle", "read", "poll", "stat"}
    PROVE  NeverAhead' /\ NoMissedBuild'
<1>1. NeverAhead'
  BY DEF PInv, NeverAhead
<1>2. NoMissedBuild'
  BY DEF PInv, NoMissedBuild
<1> QED
  BY <1>1, <1>2

LEMMA ReplaceBuilds ==
    ASSUME IInv, NEW s \in Loaded, NEW cfg \in Configs \cup {None}, NEW pol \in Policies,
           Replace(s, cfg, pol)
    PROVE  /\ \A t \in Slots : t \in Loaded' <=> t \in Loaded
           /\ \A t \in Loaded : live'[t].built \in {live[t].built, artifact[t].mtime}
  BY FreshTyped DEF IInv, TypeOK, Replace, Loaded, FreshInstance

LEMMA ApplyBuilds ==
    ASSUME IInv, NEW s \in Enabled \cap Loaded, ApplyConfigIfChanged(s)
    PROVE  /\ \A t \in Slots : t \in Loaded' <=> t \in Loaded
           /\ \A t \in Loaded : live'[t].built \in {live[t].built, artifact[t].mtime}
<1> DEFINE e == config[s]
<1>1. live[s] \in Instance /\ s \in Slots /\ e.config \in Configs
  BY EnabledTyped DEF IInv, TypeOK, Loaded
<1>2. CASE live' = live
  BY <1>2 DEF Loaded
<1>3. CASE Replace(s, e.config, live[s].policy)
  <2>1. live[s].policy \in Policies
    BY <1>1 DEF Instance
  <2> QED
    BY <1>1, <1>3, <2>1, ReplaceBuilds
<1>4. CASE live' = [live EXCEPT ![s].config = e.config, ![s].seen = e.config]
  <2> DEFINE i == [live[s] EXCEPT !.config = e.config, !.seen = e.config]
  <2>1. i \in Instance /\ i.built = live[s].built
    BY <1>1 DEF Instance
  <2>2. live' = [live EXCEPT ![s] = i]
    BY <1>1, <1>4 DEF IInv, TypeOK, Instance
  <2> QED
    BY <1>1, <2>1, <2>2 DEF IInv, TypeOK, Loaded
<1>5. CASE live' = [live EXCEPT ![s].seen = e.config]
  <2> DEFINE i == [live[s] EXCEPT !.seen = e.config]
  <2>1. i \in Instance /\ i.built = live[s].built
    BY <1>1 DEF Instance
  <2>2. live' = [live EXCEPT ![s] = i]
    BY <1>5
  <2> QED
    BY <1>1, <2>1, <2>2 DEF IInv, TypeOK, Loaded
<1> QED
  BY <1>2, <1>3, <1>4, <1>5 DEF ApplyConfigIfChanged

\* A build that lands is newer than every mtime on record.
LEMMA RebuildKeepsRecord ==
    ASSUME PInv, NEW s \in Slots, Rebuild(s)
    PROVE  NeverAhead' /\ NoMissedBuild'
<1>1. PICK good \in BOOLEAN :
          artifact' = [artifact EXCEPT ![s] = [mtime |-> clock', good |-> good]]
  BY DEF Rebuild
<1>2. /\ clock' = clock + 1 /\ clock \in Nat
      /\ UNCHANGED <<mtimes, live, pc, cur, now>>
  BY DEF Rebuild, PInv, IInv, TypeOK, Mtime, control
<1>3. \A t \in Slots : artifact[t].mtime \in Nat /\ mtimes[t] \in Nat \cup {None} /\ now \in Nat
  BY DEF PInv, IInv, TypeOK, Mtime
<1>4. /\ artifact'[s].mtime = clock'
      /\ \A t \in Slots \ {s} : artifact'[t] = artifact[t]
  BY <1>1 DEF PInv, IInv, TypeOK
<1>5. mtimes'[s] # artifact'[s].mtime
  BY <1>2, <1>3, <1>4 DEF PInv, NeverAhead
<1>6. NoMissedBuild'
  BY <1>2, <1>4, <1>5 DEF PInv, NoMissedBuild, Loaded
<1>7. \A t \in Slots : artifact'[t].mtime <= clock' /\ artifact[t].mtime <= artifact'[t].mtime
  BY <1>2, <1>3, <1>4 DEF PInv, NeverAhead
<1>8. \A t \in Slots : artifact'[t].mtime \in Nat
  BY <1>2, <1>3, <1>4
<1>9. pc = "swap" => cur \in Slots
  BY DEF PInv, IInv, InHand, Enabled
<1>10. NeverAhead'
  BY <1>2, <1>3, <1>7, <1>8, <1>9 DEF PInv, NeverAhead, Loaded
<1> QED
  BY <1>6, <1>10

\* The swap records the mtime it looked at first: if that is still the mtime
\* of the file, the version it loaded is the one on disk.
LEMMA SwapKeepsRecord ==
    ASSUME PInv, PollSwap
    PROVE  NeverAhead' /\ NoMissedBuild'
<1>1. cur \in Slots /\ config[cur].config \in Configs /\ config[cur].policy \in Policies
  BY EnabledTyped DEF PInv, IInv, InHand, PollSwap
<1>2. /\ mtimes' = [mtimes EXCEPT ![cur] = now]
      /\ UNCHANGED <<artifact, clock>> /\ pc' = "poll" /\ now \in Nat
      /\ now <= artifact[cur].mtime
  BY DEF PollSwap, PInv, NeverAhead, IInv, TypeOK, files, Mtime
<1>3. artifact[cur].good =>
          cur \in Loaded' /\ live'[cur].built = artifact[cur].mtime
  BY <1>1, FreshTyped DEF PollSwap, Replace, PInv, IInv, TypeOK, FreshInstance, Loaded
<1>4. \A t \in Slots \ {cur} : live'[t] = live[t] /\ mtimes'[t] = mtimes[t]
  BY <1>1, <1>2 DEF PollSwap, Replace, PInv, IInv, TypeOK
<1>5. mtimes'[cur] = now
  BY <1>1, <1>2 DEF PInv, IInv, TypeOK
<1>6. NoMissedBuild'
  BY <1>2, <1>3, <1>4, <1>5 DEF PInv, NoMissedBuild, Loaded
<1>7. NeverAhead'
  BY <1>1, <1>2, <1>4, <1>5 DEF PInv, NeverAhead, Loaded
<1> QED
  BY <1>6, <1>7

LEMMA PollKeepsRecord ==
    ASSUME PInv, IInv', Poll
    PROVE  NeverAhead' /\ NoMissedBuild'
<1>1. ASSUME UNCHANGED <<artifact, clock, mtimes, live>>, pc' \in {"idle", "read", "poll", "stat"}
      PROVE  NeverAhead' /\ NoMissedBuild'
  BY <1>1, SameMtimesKeeps DEF Loaded
<1>2. CASE PollUnchanged \/ PollEdited \/ PollReadConfig \/ PollSame \/ PollDone
  BY <1>1, <1>2 DEF PollUnchanged, PollEdited, PollReadConfig, PollSame, PollDone, files
<1>3. ASSUME NEW s \in Slots, PollPolicy(s)
      PROVE  NeverAhead' /\ NoMissedBuild'
  <2>1. s \in Enabled \cap Loaded
    BY <1>3 DEF PollPolicy, PInv, IInv, InHand, PolicyDiffers, Loaded
  <2>2. config[s].config \in Configs /\ config[s].policy \in Policies
    BY <2>1, EnabledTyped DEF PInv, IInv
  <2> QED
    BY <1>3, <2>1, <2>2, ReplaceBuilds, SameMtimesKeeps DEF PollPolicy, files, PInv
<1>4. ASSUME NEW s \in Slots, PollConfig(s)
      PROVE  NeverAhead' /\ NoMissedBuild'
  <2>1. s \in Enabled
    BY <1>4 DEF PollConfig, PInv, IInv, InHand
  <2>2. CASE s \in Loaded
    BY <1>4, <2>1, <2>2, ApplyBuilds, SameMtimesKeeps DEF PollConfig, files, PInv
  <2>3. CASE s \notin Loaded
    BY <1>1, <1>4, <2>3 DEF PollConfig, files
  <2> QED
    BY <2>2, <2>3
<1>5. CASE PollAdopt
  BY <1>5 DEF PollAdopt, PInv, NeverAhead, Loaded
<1>6. CASE PollRebuilt
  <2>1. cur \in Slots /\ artifact[cur].mtime \in Nat
    BY <1>6 DEF PollRebuilt, PInv, IInv, TypeOK, InHand, Enabled, Mtime
  <2> QED
    BY <1>6, <2>1 DEF PollRebuilt, PInv, NeverAhead, NoMissedBuild, Loaded, files
<1>7. CASE PollSwap
  BY <1>7, SwapKeepsRecord
<1> QED
  BY <1>2, <1>3, <1>4, <1>5, <1>6, <1>7 DEF Poll

LEMMA RecordKept ==
    ASSUME PInv, [Environment \/ Poll]_vars
    PROVE  PInv'
<1>1. IInv'
  BY Keeps DEF PInv, Next
<1>2. CASE UNCHANGED vars
  BY <1>1, <1>2 DEF vars, files, control, PInv, NeverAhead, NoMissedBuild, Loaded
<1>3. CASE EditConfig
  <2>1. \A s \in Slots : artifact[s].mtime \in Nat /\ clock \in Nat
    BY DEF PInv, IInv, TypeOK, Mtime
  <2>2. NeverAhead'
    <3>1. clock' = clock + 1 /\ UNCHANGED <<artifact, mtimes, live, pc, cur, now>>
      BY <1>3 DEF EditConfig, control
    <3>2. \A s \in Slots : artifact[s].mtime <= clock
      BY DEF PInv, NeverAhead
    <3>3. \A s \in Slots : artifact'[s].mtime <= clock'
      BY <2>1, <3>1, <3>2
    <3> QED
      BY <3>1, <3>3 DEF PInv, NeverAhead, Loaded
  <2>3. NoMissedBuild'
    BY <1>3 DEF EditConfig, PInv, NoMissedBuild, Loaded
  <2> QED
    BY <1>1, <2>2, <2>3 DEF PInv
<1>4. ASSUME NEW s \in Slots, Rebuild(s)
      PROVE  PInv'
  BY <1>1, <1>4, RebuildKeepsRecord DEF PInv
<1>5. CASE Poll
  BY <1>1, <1>5, PollKeepsRecord DEF PInv
<1> QED
  BY <1>2, <1>3, <1>4, <1>5 DEF Environment

\* Whatever is built or edited while the daemon polls, and at whatever moment
\* between its looks at a file, the poll never passes over a good build that
\* is not live.
THEOREM PollMissesNoBuild == PollSpec => []NoMissedBuild
<1>1. Opened => PInv
  BY Starts DEF Opened, PInv, NeverAhead, NoMissedBuild, Loaded
<1>2. PInv /\ [Environment \/ Poll]_vars => PInv'
  BY RecordKept
<1>3. PInv => NoMissedBuild
  BY DEF PInv
<1> QED
  BY <1>1, <1>2, <1>3, PTL DEF PollSpec
==============================================================================
