------------------------------- MODULE Registry -------------------------------
(***************************************************************************)
(* The plugin registry of the host (host/src/registry.rs together with the *)
(* service table of host/src/service.rs): which slots are loaded, which    *)
(* are active, and the three kinds of effect an active slot has - the      *)
(* tools it registers, the hooks it subscribes, the services it provides.  *)
(*                                                                         *)
(* Every public operation runs under `&mut self`, so operations do not     *)
(* interleave with each other; but an operation that ends in `converge`    *)
(* runs a loop, and the loop is modelled step by step (pc), because        *)
(* whether it reaches a fixpoint, and which one, is the question.          *)
(*                                                                         *)
(* A build is what a wasm artifact declares (PluginDecl).  A wasm that     *)
(* does not load, declares a tool twice, or subscribes to an unknown event *)
(* is rejected before anything changes; such artifacts are not in          *)
(* Artifacts.                                                              *)
(***************************************************************************)
EXTENDS ToolGraph

CONSTANTS
    Slots,          \* stable slot names
    Services,       \* service names
    Tools,          \* globally unique tool names
    Events,         \* the flow events a hook may subscribe to
    Artifacts,      \* Artifacts[s]: the builds that slot s may be given
    None            \* no build, no provider, no table entry

Build == [injects : SUBSET Services, provides : SUBSET Services,
          tools : SUBSET Tools, requires : [Tools -> SUBSET Tools],
          hooks : SUBSET Events]

\* A registered tool keeps its slot and its own copy of `requires`.
RegisteredTool == [slot : Slots, requires : SUBSET Tools]

ASSUME ArtifactsAssumption == Artifacts \in [Slots -> SUBSET Build]
ASSUME NoneAssumption ==
    None \notin Slots /\ None \notin Build /\ None \notin RegisteredTool

VARIABLES
    build,          \* meta: slot -> the declaration of its current instance
    active,         \* meta[s].active
    owned,          \* meta[s].owned_tools
    tools,          \* tool name -> RegisteredTool
    hooks,          \* the <<slot, event>> subscriptions
    providers,      \* Shared.providers: service -> slot
    external,       \* Shared.external: services the embedding host declares
    pc,             \* where the current operation is
    work,           \* the snapshot (`stale` or `ready`) still to be handled
    changed         \* converge's loop flag

effects == <<active, owned, tools, hooks, providers>>
loop    == <<pc, work, changed>>
vars    == <<build, effects, external, loop>>

TypeOK ==
    /\ build \in [Slots -> Build \cup {None}]
    /\ active \in SUBSET Slots
    /\ owned \in [Slots -> SUBSET Tools]
    /\ tools \in [Tools -> RegisteredTool \cup {None}]
    /\ hooks \in SUBSET (Slots \X Events)
    /\ providers \in [Services -> Slots \cup {None}]
    /\ external \in SUBSET Services
    /\ pc \in {"idle", "start", "deactivate", "activate"}
    /\ work \in SUBSET Slots
    /\ changed \in BOOLEAN

Init ==
    /\ build = [s \in Slots |-> None]
    /\ active = {}
    /\ owned = [s \in Slots |-> {}]
    /\ tools = [t \in Tools |-> None]
    /\ hooks = {}
    /\ providers = [v \in Services |-> None]
    /\ external = {}
    /\ pc = "idle"
    /\ work = {}
    /\ changed = FALSE

------------------------------------------------------------------------------
(* The service graph.                                                      *)

Loaded == {s \in Slots : build[s] # None}

\* service_available: the slot's own declaration, the embedding host, or a
\* slot in the provider table that is active.
ServiceAvailable(s, v) ==
    \/ v \in build[s].provides
    \/ v \in external
    \/ providers[v] \in active

Satisfied(s) == \A v \in build[s].injects : ServiceAvailable(s, v)

Stale == {s \in active : ~Satisfied(s)}
Ready == {s \in Loaded \ active : Satisfied(s)}

------------------------------------------------------------------------------
(* activate / deactivate: the effects of one slot.                         *)

ToolsWithout(s) ==
    [t \in Tools |-> IF s \in active /\ t \in owned[s] THEN None ELSE tools[t]]

\* Owned tools are forgotten whether the slot comes up or goes down.
OwnedReset(s) == [owned EXCEPT ![s] = {}]

\* Mutant of UnwindServices: the slot's services are removed by name, whoever
\* has taken them over since.
UnwindByName(s) ==
    /\ active' = active \ {s}
    /\ hooks' = {h \in hooks : h[1] # s}
    /\ providers' = [v \in Services |->
                        IF build[s] # None /\ v \in build[s].provides
                        THEN None ELSE providers[v]]

\* Everything `deactivate` undoes except the tool table, which one caller
\* goes on to recompute.
UnwindServices(s) ==
    /\ active' = active \ {s}
    /\ hooks' = {h \in hooks : h[1] # s}
    /\ providers' = [v \in Services |->
                        IF providers[v] = s THEN None ELSE providers[v]]

Deactivate(s) ==
    /\ UnwindServices(s)
    /\ tools' = ToolsWithout(s)
    /\ owned' = OwnedReset(s)

\* Mutant of RegisterServices: the arguments of the subscription swapped.
RegisterSwapped(s) ==
    /\ active' = active \cup {s}
    /\ hooks' = hooks \cup (build[s].hooks \X {s})
    /\ providers' = [v \in Services |->
                        IF v \in build[s].provides THEN s ELSE providers[v]]

\* A service the slot provides is taken over from whoever provided it.
RegisterServices(s) ==
    /\ active' = active \cup {s}
    /\ hooks' = hooks \cup ({s} \X build[s].hooks)
    /\ providers' = [v \in Services |->
                        IF v \in build[s].provides THEN s ELSE providers[v]]

------------------------------------------------------------------------------
(* sync_tool_graph, given the tool table, the owned tools and the active   *)
(* slots it starts from.                                                   *)

Registered(tbl) == {t \in Tools : tbl[t] # None}

\* The tools the active slots declare, and the slot that declares one.
Offered(act) == {t \in Tools : \E s \in act : t \in build[s].tools}
Declarer(t, act) == CHOOSE s \in act : t \in build[s].tools
Entry(t, act) ==
    [slot |-> Declarer(t, act), requires |-> build[Declarer(t, act)].requires[t]]

StoredRequires(tbl)   == [t \in Registered(tbl) |-> tbl[t].requires]
DeclaredRequires(act) == [t \in Offered(act) |-> Entry(t, act).requires]

\* The registered tools that survive, and what they grow to: a tool dropped
\* by the pruning may come back at once, with what its slot declares now.
Kept(tbl) == Prune(Registered(tbl), StoredRequires(tbl))

Regrown(tbl, act) == Grow(Kept(tbl), Offered(act), DeclaredRequires(act))

SyncedTools(tbl, act) ==
    LET kept == Kept(tbl)  all == Regrown(tbl, act)
    IN  [t \in Tools |-> IF t \in kept THEN tbl[t]
                         ELSE IF t \in all THEN Entry(t, act) ELSE None]

\* Mutant of SyncedOwned: the removal loop leaves the owner's list alone.
SyncedOwnedAppendOnly(tbl, own, act) ==
    LET kept == Kept(tbl)  all == Regrown(tbl, act)
    IN  [s \in Slots |-> {t \in Tools :
            t \in own[s] \/ (t \in all \ kept /\ Declarer(t, act) = s)}]

\* Each removal is taken out of its owner's list and each addition appended.
SyncedOwned(tbl, own, act) ==
    LET kept == Kept(tbl)  all == Regrown(tbl, act)
    IN  [s \in Slots |-> {t \in Tools :
            \/ t \in own[s] /\ (tbl[t] # None /\ tbl[t].slot = s => t \in kept)
            \/ t \in all \ kept /\ Declarer(t, act) = s}]

\* What sync_tool_graph returns.
ToolsWouldChange ==
    Kept(tools) # Registered(tools) \/ Regrown(tools, active) # Kept(tools)

------------------------------------------------------------------------------
(* converge, one step per slot.  The iteration order of the HashMap is the *)
(* free choice of s.                                                       *)

BeginConverge == pc' = "start" /\ work' = {} /\ changed' = FALSE

\* Top of the loop: snapshot the active slots whose injects are unmet.
CollectStale ==
    /\ pc = "start"
    /\ pc' = "deactivate"
    /\ work' = Stale
    /\ changed' = FALSE
    /\ UNCHANGED <<build, effects, external>>

DeactivateStale(s) ==
    /\ pc = "deactivate"
    /\ s \in work
    /\ Deactivate(s)
    /\ work' = work \ {s}
    /\ changed' = TRUE
    /\ UNCHANGED <<build, external, pc>>

\* Every stale slot is down: snapshot the slots that can come up now.
CollectReady ==
    /\ pc = "deactivate"
    /\ work = {}
    /\ pc' = "activate"
    /\ work' = Ready
    /\ UNCHANGED <<build, effects, external, changed>>

ActivateReady(s) ==
    /\ pc = "activate"
    /\ s \in work
    /\ RegisterServices(s)
    /\ owned' = OwnedReset(s)
    /\ work' = work \ {s}
    /\ changed' = TRUE
    /\ UNCHANGED <<build, external, pc, tools>>

\* Mutant of SyncTools: another round only if the tool table changed.
SyncToolsOnce ==
    /\ pc = "activate"
    /\ work = {}
    /\ tools' = SyncedTools(tools, active)
    /\ owned' = SyncedOwned(tools, owned, active)
    /\ pc' = IF ToolsWouldChange THEN "start" ELSE "idle"
    /\ changed' = FALSE
    /\ UNCHANGED <<build, active, hooks, providers, external, work>>

\* Bottom of the loop: sync_tool_graph, then once more if anything changed.
SyncTools ==
    /\ pc = "activate"
    /\ work = {}
    /\ tools' = SyncedTools(tools, active)
    /\ owned' = SyncedOwned(tools, owned, active)
    /\ pc' = IF changed \/ ToolsWouldChange THEN "start" ELSE "idle"
    /\ changed' = FALSE
    /\ UNCHANGED <<build, active, hooks, providers, external, work>>

Converge ==
    \/ CollectStale
    \/ \E s \in Slots : DeactivateStale(s)
    \/ CollectReady
    \/ \E s \in Slots : ActivateReady(s)
    \/ SyncTools

------------------------------------------------------------------------------
(* The operations.                                                         *)

\* Mutant of Admissible: only active slots reserve their tool names.
AdmissibleAmongActive(s, b) ==
    /\ \A t \in b.tools : t \notin b.requires[t]
    /\ \A o \in active \ {s} : b.tools \cap build[o].tools = {}
    /\ \A v \in b.provides : providers[v] \in {s, None}

\* Stage 1 of load and reload: tool names are reserved by every other loaded
\* slot, active or not; services only by the slot in the provider table.
Admissible(s, b) ==
    /\ \A t \in b.tools : t \notin b.requires[t]
    /\ \A o \in Loaded \ {s} : b.tools \cap build[o].tools = {}
    /\ \A v \in b.provides : providers[v] \in {s, None}

Load(s, b) ==
    /\ pc = "idle"
    /\ build[s] = None
    /\ Admissible(s, b)
    /\ build' = [build EXCEPT ![s] = b]
    /\ BeginConverge
    /\ UNCHANGED <<effects, external>>

\* Mutant of Unload: the dependents are not reconsidered.
UnloadWithoutConverge(s) ==
    /\ pc = "idle"
    /\ build[s] # None
    /\ Deactivate(s)
    /\ build' = [build EXCEPT ![s] = None]
    /\ UNCHANGED <<external, loop>>

Unload(s) ==
    /\ pc = "idle"
    /\ build[s] # None
    /\ Deactivate(s)
    /\ build' = [build EXCEPT ![s] = None]
    /\ BeginConverge
    /\ UNCHANGED external

\* Mutant of Reload: the instance is swapped under its old effects.
ReloadInPlace(s, b) ==
    /\ pc = "idle"
    /\ build[s] # None
    /\ Admissible(s, b)
    /\ build' = [build EXCEPT ![s] = b]
    /\ BeginConverge
    /\ UNCHANGED <<effects, external>>

\* Stage 2 of reload: the old effects go, the new instance starts quiescent.
Reload(s, b) ==
    /\ pc = "idle"
    /\ build[s] # None
    /\ Admissible(s, b)
    /\ Deactivate(s)
    /\ build' = [build EXCEPT ![s] = b]
    /\ BeginConverge
    /\ UNCHANGED external

\* The embedding host declares a service.  Nothing converges.
AddExternalService(v) ==
    /\ pc = "idle"
    /\ external' = external \cup {v}
    /\ UNCHANGED <<build, effects, loop>>

RemoveExternalService(v) ==
    /\ pc = "idle"
    /\ external' = external \ {v}
    /\ BeginConverge
    /\ UNCHANGED <<build, effects>>

\* An outer framework brings a slot up without consulting its injects.
ForceActivate(s) ==
    /\ pc = "idle"
    /\ s \in Loaded \ active
    /\ RegisterServices(s)
    /\ tools' = SyncedTools(tools, active \cup {s})
    /\ owned' = SyncedOwned(tools, OwnedReset(s), active \cup {s})
    /\ UNCHANGED <<build, external, loop>>

\* Mutant of ForceDeactivate: sync_tool_graph is not called.
ForceDeactivateUnsynced(s) ==
    /\ pc = "idle"
    /\ s \in Loaded
    /\ Deactivate(s)
    /\ UNCHANGED <<build, external, loop>>

ForceDeactivate(s) ==
    /\ pc = "idle"
    /\ s \in Loaded
    /\ UnwindServices(s)
    /\ tools' = SyncedTools(ToolsWithout(s), active \ {s})
    /\ owned' = SyncedOwned(ToolsWithout(s), OwnedReset(s), active \ {s})
    /\ UNCHANGED <<build, external, loop>>

------------------------------------------------------------------------------
\* What the command-line host drives (main.rs, supervisor.rs).
HostOperation ==
    \E s \in Slots :
        \/ \E b \in Artifacts[s] : Load(s, b) \/ Reload(s, b)
        \/ Unload(s)

\* What an embedding host (dsh-wasm-host) adds: services of its own, and
\* slots whose activation it decides itself.
ExternalOperation ==
    \E v \in Services : AddExternalService(v) \/ RemoveExternalService(v)

ForceOperation == \E s \in Slots : ForceActivate(s) \/ ForceDeactivate(s)

HostNext     == HostOperation \/ Converge
EmbeddedNext == HostNext \/ ExternalOperation
Next         == EmbeddedNext \/ ForceOperation

\* converge is a loop inside one call: once entered it keeps running.
Running == WF_vars(Converge)

HostSpec     == Init /\ [][HostNext]_vars /\ Running
Spec         == Init /\ [][Next]_vars /\ Running

------------------------------------------------------------------------------
(* Properties.                                                             *)

\* At every step of every operation, the hooks and services registered are
\* those of the active slots: a deactivation leaves nothing behind and no
\* service is routed to a slot that is down or no longer declares it
\* (activate, deactivate, and the swap of the declaration in reload).
EffectsMatchActive ==
    /\ active \subseteq Loaded
    /\ hooks = {h \in Slots \X Events : h[1] \in active /\ h[2] \in build[h[1]].hooks}
    /\ \A v \in Services : providers[v] # None =>
          providers[v] \in active /\ v \in build[providers[v]].provides

\* owned_tools is exactly what the slot has in the tool table, so that
\* deactivating it unwinds precisely its tools; and an entry of the table
\* always comes from the current build of an active slot, never from the
\* instance a reload has dropped.
ToolsMatchOwners ==
    /\ \A s \in Slots : owned[s] = {t \in Tools : tools[t] # None /\ tools[t].slot = s}
    /\ \A t \in Tools : tools[t] # None =>
          LET s == tools[t].slot
          IN  s \in active /\ t \in build[s].tools /\ tools[t].requires = build[s].requires[t]

\* A declared tool name is reserved while its slot is loaded, even when the
\* slot is quiescent or the tool unregistered (declared_tool_owner).
ToolNamesReserved ==
    \A s1, s2 \in Loaded : s1 # s2 => build[s1].tools \cap build[s2].tools = {}

\* Between operations no registered tool has lost a requirement and no tool
\* that could be registered is missing, whichever operation was the last.
ToolsConverged ==
    pc = "idle" =>
        /\ Closed(Registered(tools), StoredRequires(tools))
        /\ Saturated(Registered(tools), Offered(active), DeclaredRequires(active))

\* Between operations a slot is active exactly when its injects are available:
\* each operation that can change availability has converged before it
\* returns.  (HostSpec only: add_external_service does not converge, and a
\* forced slot disregards its injects until the next operation converges.)
ActiveMatchesInjects ==
    pc = "idle" => \A s \in Loaded : s \in active <=> Satisfied(s)

\* converge returns: an operation that enters the loop leaves it.
ConvergeTerminates == pc # "idle" ~> pc = "idle"

\* A service routed to an active slot is taken from it only by a slot that
\* comes up in that very step and provides the service too: a slot that goes
\* down, is unloaded or is reloaded takes its own routes along and no other
\* (remove_providers_of compares owners, not service names).
ProvisionKept ==
    [][\A s \in active \cap active', v \in Services :
          providers[v] = s =>
             \/ providers'[v] = s
             \/ providers'[v] \in active' \ active
                /\ v \in build[providers'[v]].provides]_vars

\* The claim of registry.rs and of the README: a plugin is active iff every
\* service it injects is provided by an active plugin (the slot itself counts).
\* TLC refutes it, and no run checks it.  Two quiescent slots may declare one
\* service, because admission looks only at the table; the second to come up
\* takes the first one's route over and drops it when it goes, and a slot that
\* injects the service then stays down beside an active provider.
Provided(s, v) == v \in build[s].provides \/ \E p \in active : v \in build[p].provides
ActiveIffProvided ==
    pc = "idle" =>
        \A s \in Loaded : s \in active <=> \A v \in build[s].injects : Provided(s, v)

Graph == INSTANCE ServiceGraph WITH
            settled <- pc = "idle",
            up <- IF pc = "idle" THEN active ELSE {}

\* The registry implements the service graph: whatever order the loop of
\* converge handles slots in, it stops, and the slots that are active then
\* are those supported from below - none is left up by a stale provider
\* entry, none down for want of another pass - but for what contested
\* services make of them.
ImplementsServiceGraph == Graph!GSpec
==============================================================================
