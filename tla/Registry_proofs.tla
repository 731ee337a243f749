--------------------------- MODULE Registry_proofs ---------------------------
(***************************************************************************)
(* What holds of the registry for every set of slots, services, tools and  *)
(* artifacts - also of those on which converge does not terminate, since   *)
(* the invariants are about every state the loop goes through.             *)
(***************************************************************************)
EXTENDS Registry, TLAPS

\* The lemmas about Prune and Grow are constant facts: which state the loops
\* of sync_tool_graph are in does not matter to them.
Loops == INSTANCE ToolSync_proofs WITH
            requires   <- StoredRequires(tools),
            declared   <- Offered(active),
            before     <- Registered(tools),
            registered <- Registered(tools),
            phase      <- "done"

LEMMA PruneClosed ==
    ASSUME NEW R, NEW req
    PROVE  Prune(R, req) \subseteq R /\ Closed(Prune(R, req), req)
BY Loops!PruneClosed DEF Loops!Prune, Prune, Loops!Closed, Closed

LEMMA GrowSaturated ==
    ASSUME NEW K, NEW D, NEW req
    PROVE  /\ K \subseteq Grow(K, D, req)
           /\ Grow(K, D, req) \subseteq K \cup D
           /\ Saturated(Grow(K, D, req), D, req)
BY Loops!GrowSaturated DEF Loops!Grow, Grow, Loops!Saturated, Saturated

LEMMA GrowClosed ==
    ASSUME NEW K, NEW D, NEW req, Closed(K, req)
    PROVE  Closed(Grow(K, D, req), req)
BY Loops!GrowClosed DEF Loops!Grow, Grow, Loops!Saturated, Saturated, Loops!Closed, Closed

\* Where the loop may be: what is left of a snapshot is still in the state the
\* snapshot was taken for.
WorkOK ==
    /\ pc \in {"idle", "start"} => work = {}
    /\ pc = "deactivate" => work \subseteq active
    /\ pc = "activate" => work \subseteq Loaded \ active

\* A table, lists of owned tools and active slots that agree, as in
\* ToolsMatchOwners.
Agree(tbl, own, act) ==
    /\ \A s \in Slots : own[s] = {t \in Tools : tbl[t] # None /\ tbl[t].slot = s}
    /\ \A t \in Tools : tbl[t] # None =>
          /\ tbl[t].slot \in act
          /\ t \in build[tbl[t].slot].tools
          /\ tbl[t].requires = build[tbl[t].slot].requires[t]

RInv == TypeOK /\ WorkOK /\ EffectsMatchActive /\ ToolsMatchOwners /\ ToolNamesReserved

------------------------------------------------------------------------------
\* A tool is declared by one active slot at most, so Declarer finds it.
LEMMA DeclarerUnique ==
    ASSUME ToolNamesReserved, NEW act \in SUBSET Loaded, NEW s \in act, NEW t \in build[s].tools
    PROVE  Declarer(t, act) = s
<1>1. Declarer(t, act) \in act /\ t \in build[Declarer(t, act)].tools
  BY DEF Declarer
<1>2. QED
  BY <1>1 DEF ToolNamesReserved, Loaded

LEMMA DeclarerOffers ==
    ASSUME NEW act \in SUBSET Loaded, NEW t \in Offered(act)
    PROVE  Declarer(t, act) \in act /\ t \in build[Declarer(t, act)].tools
BY DEF Declarer, Offered

LEMMA EntryType ==
    ASSUME TypeOK, NEW act \in SUBSET Loaded, NEW t \in Offered(act)
    PROVE  Entry(t, act) \in RegisteredTool /\ Entry(t, act) # None
<1>1. Declarer(t, act) \in Slots /\ build[Declarer(t, act)] \in Build
  BY DeclarerOffers DEF Loaded, TypeOK
<1>2. t \in Tools
  BY DEF Offered
<1>3. Entry(t, act) \in RegisteredTool
  BY <1>1, <1>2 DEF Entry, RegisteredTool, Build
<1>4. QED
  BY <1>3, NoneAssumption

\* sync_tool_graph keeps the table, the lists and the active slots in
\* agreement, and what it leaves registered is Regrown.
LEMMA SyncAgrees ==
    ASSUME TypeOK, ToolNamesReserved, NEW act \in SUBSET Loaded,
           NEW tbl \in [Tools -> RegisteredTool \cup {None}],
           NEW own \in [Slots -> SUBSET Tools],
           Agree(tbl, own, act)
    PROVE  /\ SyncedTools(tbl, act) \in [Tools -> RegisteredTool \cup {None}]
           /\ SyncedOwned(tbl, own, act) \in [Slots -> SUBSET Tools]
           /\ Agree(SyncedTools(tbl, act), SyncedOwned(tbl, own, act), act)
           /\ Registered(SyncedTools(tbl, act)) = Regrown(tbl, act)
<1> DEFINE kept == Kept(tbl)
           all  == Regrown(tbl, act)
           tb2  == SyncedTools(tbl, act)
           ow2  == SyncedOwned(tbl, own, act)
<1>1. kept \subseteq Registered(tbl)
  BY PruneClosed DEF Kept
<1>2. kept \subseteq all /\ all \subseteq kept \cup Offered(act)
  BY GrowSaturated DEF Regrown
<1>3. Offered(act) \subseteq Tools /\ Registered(tbl) \subseteq Tools
  BY DEF Offered, Registered
<1>4. \A t \in kept : tbl[t] # None /\ t \in Tools
  BY <1>1, <1>3 DEF Registered
<1>5. \A t \in all \ kept : t \in Offered(act) /\ t \in Tools
  BY <1>2, <1>3
<1> HIDE DEF kept, all
<1>6. /\ tb2 = [t \in Tools |-> IF t \in kept THEN tbl[t]
                                ELSE IF t \in all THEN Entry(t, act) ELSE None]
      /\ ow2 = [s \in Slots |-> {t \in Tools :
                  \/ t \in own[s] /\ (tbl[t] # None /\ tbl[t].slot = s => t \in kept)
                  \/ t \in all \ kept /\ Declarer(t, act) = s}]
  BY DEF SyncedTools, SyncedOwned, kept, all
<1> HIDE DEF tb2, ow2
<1>7. tb2 \in [Tools -> RegisteredTool \cup {None}]
  BY <1>5, <1>6, EntryType
<1>8. ow2 \in [Slots -> SUBSET Tools]
  BY <1>6
<1>9. \A t \in Tools : tb2[t] # None <=> t \in all
  BY <1>2, <1>4, <1>5, <1>6, EntryType
<1>10. \A t \in all \ kept : tb2[t].slot = Declarer(t, act)
  BY <1>5, <1>6 DEF Entry
<1>11. \A s \in Slots : ow2[s] = {t \in Tools : tb2[t] # None /\ tb2[t].slot = s}
  <2> SUFFICES ASSUME NEW s \in Slots, NEW t \in Tools
               PROVE  t \in ow2[s] <=> tb2[t] # None /\ tb2[t].slot = s
    BY <1>8
  <2>1. t \in own[s] <=> tbl[t] # None /\ tbl[t].slot = s
    BY DEF Agree
  <2>2. CASE t \in kept
    BY <2>1, <2>2, <1>2, <1>4, <1>6, <1>9
  <2>3. CASE t \in all \ kept
    BY <2>1, <2>3, <1>6, <1>9, <1>10
  <2>4. CASE t \notin all
    BY <2>1, <2>4, <1>2, <1>6, <1>9
  <2>5. QED
    BY <2>2, <2>3, <2>4
<1>12. ASSUME NEW t \in Tools, tb2[t] # None
       PROVE  /\ tb2[t].slot \in act
              /\ t \in build[tb2[t].slot].tools
              /\ tb2[t].requires = build[tb2[t].slot].requires[t]
  <2>1. CASE t \in kept
    BY <2>1, <1>4, <1>6 DEF Agree
  <2>2. CASE t \in all \ kept
    <3>1. tb2[t] = Entry(t, act) /\ t \in Offered(act)
      BY <2>2, <1>5, <1>6
    <3>2. QED
      BY <3>1, DeclarerOffers DEF Entry
  <2>3. QED
    BY <2>1, <2>2, <1>9, <1>12
<1>13. Registered(tb2) = all
  <2>1. all \subseteq Tools
    BY <1>4, <1>5
  <2>2. QED
    BY <2>1, <1>9 DEF Registered
<1>14. QED
  BY <1>7, <1>8, <1>11, <1>12, <1>13 DEF Agree, tb2, ow2, all

------------------------------------------------------------------------------
(* One lemma per kind of change to the effects.  In each, the build of s   *)
(* itself may be replaced in the same step.                                *)

OtherBuildsKept(s) ==
    /\ build' \in [Slots -> Build \cup {None}]
    /\ \A o \in Slots \ {s} : build'[o] = build[o]

LEMMA AgreeNow == TypeOK => (ToolsMatchOwners <=> Agree(tools, owned, active))
BY DEF ToolsMatchOwners, Agree, TypeOK

LEMMA OwnedByActive ==
    ASSUME RInv, NEW s \in Slots \ active
    PROVE  owned[s] = {} /\ OwnedReset(s) = owned
<1>1. owned[s] = {}
  BY DEF RInv, ToolsMatchOwners
<1>2. QED
  BY <1>1 DEF RInv, TypeOK, OwnedReset

\* Taking down s leaves the services and hooks of the other active slots.
LEMMA UnwindKeepsEffects ==
    ASSUME RInv, NEW s \in Slots, UnwindServices(s), OtherBuildsKept(s)
    PROVE  /\ EffectsMatchActive'
           /\ active' \in SUBSET Slots
           /\ hooks' \in SUBSET (Slots \X Events)
           /\ providers' \in [Services -> Slots \cup {None}]
<1> USE DEF RInv, TypeOK, UnwindServices, OtherBuildsKept
<1>1. active' \subseteq Loaded'
  BY DEF EffectsMatchActive, Loaded
<1>2. hooks' = {h \in Slots \X Events : h[1] \in active' /\ h[2] \in build'[h[1]].hooks}
  BY DEF EffectsMatchActive
<1>3. \A v \in Services : providers'[v] # None =>
         providers'[v] \in active' /\ v \in build'[providers'[v]].provides
  BY DEF EffectsMatchActive
<1>4. QED
  BY <1>1, <1>2, <1>3 DEF EffectsMatchActive

\* The tools of s go with it, and no others.
LEMMA ToolsWithoutAgree ==
    ASSUME RInv, NEW s \in Slots
    PROVE  /\ ToolsWithout(s) \in [Tools -> RegisteredTool \cup {None}]
           /\ OwnedReset(s) \in [Slots -> SUBSET Tools]
           /\ Agree(ToolsWithout(s), OwnedReset(s), active \ {s})
<1> USE DEF RInv, TypeOK
<1>1. ToolsWithout(s) \in [Tools -> RegisteredTool \cup {None}]
  BY DEF ToolsWithout
<1>2. OwnedReset(s) \in [Slots -> SUBSET Tools]
  BY DEF OwnedReset
<1>3. \A t \in Tools : ToolsWithout(s)[t] # None <=> tools[t] # None /\ tools[t].slot # s
  BY DEF ToolsWithout, ToolsMatchOwners
<1>4. \A t \in Tools : ToolsWithout(s)[t] # None => ToolsWithout(s)[t] = tools[t]
  BY DEF ToolsWithout
<1>5. \A o \in Slots : OwnedReset(s)[o] =
         {t \in Tools : ToolsWithout(s)[t] # None /\ ToolsWithout(s)[t].slot = o}
  <2> SUFFICES ASSUME NEW o \in Slots, NEW t \in Tools
               PROVE  t \in OwnedReset(s)[o] <=>
                        ToolsWithout(s)[t] # None /\ ToolsWithout(s)[t].slot = o
    BY <1>2
  <2>1. t \in owned[o] <=> tools[t] # None /\ tools[t].slot = o
    BY DEF ToolsMatchOwners
  <2>2. CASE o = s
    BY <2>2, <1>3, <1>4 DEF OwnedReset
  <2>3. CASE o # s
    BY <2>1, <2>3, <1>3, <1>4 DEF OwnedReset
  <2>4. QED
    BY <2>2, <2>3
<1>6. QED
  BY <1>1, <1>2, <1>3, <1>4, <1>5 DEF Agree, ToolsMatchOwners

LEMMA DeactivateKeeps ==
    ASSUME RInv, NEW s \in Slots, Deactivate(s), OtherBuildsKept(s)
    PROVE  /\ EffectsMatchActive'
           /\ ToolsMatchOwners'
           /\ active' \in SUBSET Slots
           /\ owned' \in [Slots -> SUBSET Tools]
           /\ tools' \in [Tools -> RegisteredTool \cup {None}]
           /\ hooks' \in SUBSET (Slots \X Events)
           /\ providers' \in [Services -> Slots \cup {None}]
<1>1. tools' = ToolsWithout(s) /\ owned' = OwnedReset(s) /\ active' = active \ {s}
  BY DEF Deactivate, UnwindServices
<1>2. Agree(tools', owned', active')
  BY <1>1, ToolsWithoutAgree
<1>3. ToolsMatchOwners'
  BY <1>1, <1>2, ToolsWithoutAgree DEF Agree, ToolsMatchOwners, OtherBuildsKept, RInv, TypeOK
<1>4. QED
  BY <1>1, <1>3, ToolsWithoutAgree, UnwindKeepsEffects DEF Deactivate

\* Bringing up s adds its services and hooks.
LEMMA RegisterKeepsEffects ==
    ASSUME RInv, NEW s \in Loaded \ active, RegisterServices(s), build' = build
    PROVE  /\ EffectsMatchActive'
           /\ active' \in SUBSET Slots
           /\ hooks' \in SUBSET (Slots \X Events)
           /\ providers' \in [Services -> Slots \cup {None}]
<1> USE DEF RInv, TypeOK, RegisterServices
<1>1. s \in Slots /\ build[s] \in Build
  BY DEF Loaded
<1>2. build[s].hooks \in SUBSET Events
  BY <1>1 DEF Build
<1>3. active' \subseteq Loaded'
  BY DEF EffectsMatchActive, Loaded
<1>4. hooks' = {h \in Slots \X Events : h[1] \in active' /\ h[2] \in build'[h[1]].hooks}
  BY <1>1, <1>2 DEF EffectsMatchActive
<1>5. \A v \in Services : providers'[v] # None =>
         providers'[v] \in active' /\ v \in build'[providers'[v]].provides
  BY DEF EffectsMatchActive
<1>6. QED
  BY <1>1, <1>2, <1>3, <1>4, <1>5 DEF EffectsMatchActive

------------------------------------------------------------------------------
LEMMA InitRInv == Init => RInv
<1> SUFFICES ASSUME Init PROVE RInv
  OBVIOUS
<1> USE DEF Init
<1>1. TypeOK
  BY DEF TypeOK
<1>2. WorkOK
  BY DEF WorkOK
<1>3. EffectsMatchActive
  BY DEF EffectsMatchActive
<1>4. ToolsMatchOwners
  BY DEF ToolsMatchOwners
<1>5. ToolNamesReserved
  BY DEF ToolNamesReserved, Loaded
<1>6. QED
  BY <1>1, <1>2, <1>3, <1>4, <1>5 DEF RInv

------------------------------------------------------------------------------
(* The steps.                                                              *)

\* Every step keeps RInv: one step per action.
LEMMA StepRInv == RInv /\ [Next]_vars => RInv'
<1> SUFFICES ASSUME RInv, [Next]_vars PROVE RInv'
  OBVIOUS
<1> USE DEF RInv
<1>1. ASSUME NEW s \in Slots, NEW b \in Artifacts[s], Load(s, b)
      PROVE  RInv'
  <2>1. b \in Build /\ s \notin active
    BY <1>1, ArtifactsAssumption DEF Load, EffectsMatchActive, Loaded
  <2>2. TypeOK' /\ WorkOK'
    BY <1>1, <2>1 DEF Load, TypeOK, BeginConverge, effects, WorkOK
  <2>3. EffectsMatchActive'
    BY <1>1, <2>1 DEF Load, effects, TypeOK, EffectsMatchActive, Loaded
  <2>4. ToolsMatchOwners'
    BY <1>1, <2>1 DEF Load, effects, TypeOK, ToolsMatchOwners, RegisteredTool
  <2>5. ToolNamesReserved'
    BY <1>1, <2>1, NoneAssumption DEF Load, TypeOK, ToolNamesReserved, Loaded, Admissible
  <2>6. QED
    BY <2>2, <2>3, <2>4, <2>5
<1>2. ASSUME NEW s \in Slots, NEW b \in Artifacts[s], Reload(s, b)
      PROVE  RInv'
  <2>1. b \in Build
    BY ArtifactsAssumption
  <2>2. build' = [build EXCEPT ![s] = b] /\ Deactivate(s)
    BY <1>2 DEF Reload
  <2>3. OtherBuildsKept(s)
    BY <2>1, <2>2 DEF OtherBuildsKept, TypeOK
  <2>4. TypeOK' /\ EffectsMatchActive' /\ ToolsMatchOwners'
    BY <1>2, <2>2, <2>3, DeactivateKeeps DEF Reload, BeginConverge, OtherBuildsKept, TypeOK
  <2>5. WorkOK'
    BY <1>2 DEF Reload, BeginConverge, WorkOK
  <2>6. ToolNamesReserved'
    BY <1>2, <2>1, <2>2, NoneAssumption
    DEF Reload, TypeOK, ToolNamesReserved, Loaded, Admissible
  <2>7. QED
    BY <2>4, <2>5, <2>6
<1>3. ASSUME NEW s \in Slots, Unload(s)
      PROVE  RInv'
  <2>1. build' = [build EXCEPT ![s] = None] /\ Deactivate(s)
    BY <1>3 DEF Unload
  <2>2. OtherBuildsKept(s)
    BY <2>1 DEF OtherBuildsKept, TypeOK
  <2>3. TypeOK' /\ EffectsMatchActive' /\ ToolsMatchOwners'
    BY <1>3, <2>1, <2>2, DeactivateKeeps DEF Unload, BeginConverge, OtherBuildsKept, TypeOK
  <2>4. WorkOK' /\ ToolNamesReserved'
    BY <1>3, <2>1 DEF Unload, BeginConverge, WorkOK, ToolNamesReserved, Loaded, TypeOK
  <2>5. QED
    BY <2>3, <2>4
<1>4. ASSUME NEW v \in Services, AddExternalService(v) \/ RemoveExternalService(v)
      PROVE  RInv'
  <2>1. UNCHANGED <<build, effects>> /\ external' \in SUBSET Services
    BY <1>4 DEF AddExternalService, RemoveExternalService, TypeOK
  <2>2. TypeOK' /\ WorkOK'
    BY <1>4, <2>1 DEF AddExternalService, RemoveExternalService, BeginConverge,
                     effects, loop, TypeOK, WorkOK
  <2>3. EffectsMatchActive' /\ ToolsMatchOwners' /\ ToolNamesReserved'
    BY <2>1 DEF effects, EffectsMatchActive, ToolsMatchOwners, ToolNamesReserved, Loaded
  <2>4. QED
    BY <2>2, <2>3
<1>5. ASSUME NEW s \in Slots, ForceActivate(s)
      PROVE  RInv'
  <2> DEFINE act == active \cup {s}
  <2>1. /\ s \in Loaded \ active /\ RegisterServices(s) /\ build' = build
        /\ active' = act /\ UNCHANGED <<build, external, loop>>
        /\ tools' = SyncedTools(tools, act)
        /\ owned' = SyncedOwned(tools, OwnedReset(s), act)
    BY <1>5 DEF ForceActivate, RegisterServices
  <2>2. Agree(tools, OwnedReset(s), act) /\ OwnedReset(s) \in [Slots -> SUBSET Tools]
    BY <2>1, OwnedByActive, AgreeNow DEF Agree, TypeOK
  <2>3. act \subseteq Loaded
    BY <2>1 DEF EffectsMatchActive
  <2> HIDE DEF act
  <2>4. /\ tools' \in [Tools -> RegisteredTool \cup {None}]
        /\ owned' \in [Slots -> SUBSET Tools]
        /\ Agree(SyncedTools(tools, act), SyncedOwned(tools, OwnedReset(s), act), act)
    BY <2>1, <2>2, <2>3, SyncAgrees DEF TypeOK
  <2>5. ToolsMatchOwners'
    BY <2>1, <2>4 DEF Agree, ToolsMatchOwners
  <2>6. TypeOK' /\ EffectsMatchActive'
    BY <2>1, <2>4, RegisterKeepsEffects DEF TypeOK, loop
  <2>7. WorkOK' /\ ToolNamesReserved'
    BY <1>5, <2>1 DEF ForceActivate, loop, WorkOK, ToolNamesReserved, Loaded
  <2>8. QED
    BY <2>5, <2>6, <2>7
<1>6. ASSUME NEW s \in Slots, ForceDeactivate(s)
      PROVE  RInv'
  <2> DEFINE act == active \ {s}
             tbl == ToolsWithout(s)
  <2>1. /\ UnwindServices(s) /\ build' = build
        /\ active' = act /\ UNCHANGED <<build, external, loop>>
        /\ tools' = SyncedTools(tbl, act)
        /\ owned' = SyncedOwned(tbl, OwnedReset(s), act)
    BY <1>6 DEF ForceDeactivate, UnwindServices
  <2>2. act \subseteq Loaded /\ OtherBuildsKept(s)
    BY <2>1 DEF EffectsMatchActive, OtherBuildsKept, TypeOK
  <2>3. /\ tbl \in [Tools -> RegisteredTool \cup {None}]
        /\ OwnedReset(s) \in [Slots -> SUBSET Tools]
        /\ Agree(tbl, OwnedReset(s), act)
    BY ToolsWithoutAgree
  <2> HIDE DEF act, tbl
  <2>4. /\ tools' \in [Tools -> RegisteredTool \cup {None}]
        /\ owned' \in [Slots -> SUBSET Tools]
        /\ Agree(SyncedTools(tbl, act), SyncedOwned(tbl, OwnedReset(s), act), act)
    BY <2>1, <2>2, <2>3, SyncAgrees
  <2>5. ToolsMatchOwners'
    BY <2>1, <2>4 DEF Agree, ToolsMatchOwners
  <2>6. TypeOK' /\ EffectsMatchActive'
    BY <2>1, <2>2, <2>4, UnwindKeepsEffects DEF TypeOK, loop
  <2>7. WorkOK' /\ ToolNamesReserved'
    BY <1>6, <2>1 DEF ForceDeactivate, loop, WorkOK, ToolNamesReserved, Loaded
  <2>8. QED
    BY <2>5, <2>6, <2>7
<1>7. ASSUME CollectStale \/ CollectReady
      PROVE  RInv'
  <2>1. TypeOK' /\ WorkOK'
    BY <1>7 DEF CollectStale, CollectReady, TypeOK, WorkOK, Stale, Ready, Loaded, effects
  <2>2. EffectsMatchActive' /\ ToolsMatchOwners' /\ ToolNamesReserved'
    BY <1>7 DEF CollectStale, CollectReady, effects,
                EffectsMatchActive, ToolsMatchOwners, ToolNamesReserved, Loaded
  <2>3. QED
    BY <2>1, <2>2
<1>8. ASSUME NEW s \in Slots, DeactivateStale(s)
      PROVE  RInv'
  <2>1. Deactivate(s) /\ OtherBuildsKept(s) /\ UNCHANGED <<build, external, pc>>
    BY <1>8 DEF DeactivateStale, OtherBuildsKept, TypeOK
  <2>2. TypeOK' /\ EffectsMatchActive' /\ ToolsMatchOwners'
    BY <1>8, <2>1, DeactivateKeeps DEF DeactivateStale, TypeOK
  <2>3. WorkOK'
    BY <1>8 DEF DeactivateStale, Deactivate, UnwindServices, WorkOK
  <2>4. ToolNamesReserved'
    BY <2>1 DEF ToolNamesReserved, Loaded
  <2>5. QED
    BY <2>2, <2>3, <2>4
<1>9. ASSUME NEW s \in Slots, ActivateReady(s)
      PROVE  RInv'
  <2>1. /\ s \in Loaded \ active /\ RegisterServices(s)
        /\ UNCHANGED <<build, external, pc, tools>>
    BY <1>9 DEF ActivateReady, WorkOK
  <2>2. UNCHANGED owned
    BY <1>9, <2>1, OwnedByActive DEF ActivateReady
  <2>3. TypeOK' /\ EffectsMatchActive'
    BY <1>9, <2>1, <2>2, RegisterKeepsEffects DEF ActivateReady, TypeOK
  <2>4. ToolsMatchOwners' /\ ToolNamesReserved'
    BY <2>1, <2>2 DEF RegisterServices, ToolsMatchOwners, ToolNamesReserved, Loaded
  <2>5. WorkOK'
    BY <1>9, <2>1 DEF ActivateReady, RegisterServices, WorkOK, Loaded
  <2>6. QED
    BY <2>3, <2>4, <2>5
<1>10. ASSUME SyncTools
       PROVE  RInv'
  <2>1. active \subseteq Loaded /\ Agree(tools, owned, active)
    BY AgreeNow DEF EffectsMatchActive
  <2>2. /\ tools' \in [Tools -> RegisteredTool \cup {None}]
        /\ owned' \in [Slots -> SUBSET Tools]
        /\ Agree(SyncedTools(tools, active), SyncedOwned(tools, owned, active), active)
    BY <1>10, <2>1, SyncAgrees DEF SyncTools, TypeOK
  <2>3. TypeOK' /\ WorkOK'
    BY <1>10, <2>2 DEF SyncTools, TypeOK, WorkOK
  <2>4. ToolsMatchOwners'
    BY <1>10, <2>2 DEF SyncTools, Agree, ToolsMatchOwners
  <2>5. EffectsMatchActive' /\ ToolNamesReserved'
    BY <1>10 DEF SyncTools, EffectsMatchActive, ToolNamesReserved, Loaded
  <2>6. QED
    BY <2>3, <2>4, <2>5
<1>11. CASE UNCHANGED vars
  BY <1>11 DEF vars, effects, loop, TypeOK, WorkOK, EffectsMatchActive,
               ToolsMatchOwners, ToolNamesReserved, Loaded
<1>12. QED
  BY <1>1, <1>2, <1>3, <1>4, <1>5, <1>6, <1>7, <1>8, <1>9, <1>10, <1>11
  DEF Next, EmbeddedNext, HostNext, HostOperation, ExternalOperation, ForceOperation, Converge

LEMMA RInvHolds == Spec => []RInv
BY InitRInv, StepRInv, PTL DEF Spec

\* The type invariant of the registry.
THEOREM TypeCorrect == Spec => []TypeOK
BY RInvHolds, PTL DEF RInv

\* No operation, and no step inside one, leaves a hook or a service entry of a
\* slot that is down, or misses one of a slot that is up.
THEOREM EffectsAreUnwound == Spec => []EffectsMatchActive
BY RInvHolds, PTL DEF RInv

\* The list of owned tools is at every step the slot's part of the tool table,
\* which holds only tools that current builds of active slots declare.
THEOREM OwnedToolsAreExact == Spec => []ToolsMatchOwners
BY RInvHolds, PTL DEF RInv

\* Two loaded slots never declare the same tool name.
THEOREM ToolNamesAreReserved == Spec => []ToolNamesReserved
BY RInvHolds, PTL DEF RInv

------------------------------------------------------------------------------
(* The routes of services.                                                 *)

\* What ProvisionKept says of one step.
RoutesKept ==
    \A s \in active \cap active', v \in Services :
        providers[v] = s =>
            \/ providers'[v] = s
            \/ providers'[v] \in active' \ active /\ v \in build[providers'[v]].provides

LEMMA UnwindKeepsRoutes ==
    ASSUME TypeOK, NEW s \in Slots, UnwindServices(s)
    PROVE  RoutesKept
BY DEF TypeOK, UnwindServices, RoutesKept

LEMMA RegisterKeepsRoutes ==
    ASSUME TypeOK, NEW s \in Slots \ active, RegisterServices(s)
    PROVE  RoutesKept
BY DEF TypeOK, RegisterServices, RoutesKept

LEMMA StepKeepsRoutes == RInv /\ [Next]_vars => RoutesKept
<1> SUFFICES ASSUME RInv, [Next]_vars PROVE RoutesKept
  OBVIOUS
<1> USE DEF RInv
<1>1. ASSUME UNCHANGED providers PROVE RoutesKept
  BY <1>1 DEF RoutesKept
<1>2. ASSUME NEW s \in Slots, ActivateReady(s) PROVE RoutesKept
  BY <1>2, RegisterKeepsRoutes DEF ActivateReady, WorkOK
<1>3. ASSUME NEW s \in Slots, ForceActivate(s) PROVE RoutesKept
  BY <1>3, RegisterKeepsRoutes DEF ForceActivate
<1>4. ASSUME NEW s \in Slots, UnwindServices(s) PROVE RoutesKept
  BY <1>4, UnwindKeepsRoutes
<1>5. CASE HostOperation
  BY <1>1, <1>4, <1>5 DEF HostOperation, Load, Reload, Unload, Deactivate, effects
<1>6. CASE ExternalOperation
  BY <1>1, <1>6 DEF ExternalOperation, AddExternalService, RemoveExternalService, effects
<1>7. CASE ForceOperation
  BY <1>3, <1>4, <1>7 DEF ForceOperation, ForceDeactivate
<1>8. CASE Converge
  BY <1>1, <1>2, <1>4, <1>8 DEF Converge, CollectStale, DeactivateStale, Deactivate,
                                CollectReady, SyncTools, effects
<1>9. CASE UNCHANGED vars
  BY <1>1, <1>9 DEF vars, effects
<1>10. QED
  BY <1>5, <1>6, <1>7, <1>8, <1>9 DEF Next, EmbeddedNext, HostNext

\* However often slots that provide the same services come and go: an active
\* slot loses a route only to one that comes up and provides the service, never
\* because another provider of it went down.
THEOREM ProvisionsAreKept == Spec => ProvisionKept
<1>1. RInv /\ [Next]_vars => [RoutesKept]_vars
  BY StepKeepsRoutes
<1>2. QED
  BY <1>1, RInvHolds, PTL DEF Spec, ProvisionKept, RoutesKept

------------------------------------------------------------------------------
(* The tool graph between operations.                                      *)

\* What a registered tool requires is what its slot declares now.
LEMMA AgreeRequires ==
    ASSUME TypeOK, ToolNamesReserved, NEW act \in SUBSET Loaded,
           NEW tbl, NEW own, Agree(tbl, own, act), NEW t \in Registered(tbl)
    PROVE  /\ t \in Offered(act)
           /\ StoredRequires(tbl)[t] = DeclaredRequires(act)[t]
<1> DEFINE s == tbl[t].slot
<1>1. t \in Tools /\ tbl[t] # None
  BY DEF Registered
<1>2. s \in act /\ t \in build[s].tools /\ tbl[t].requires = build[s].requires[t]
  BY <1>1 DEF Agree
<1>3. t \in Offered(act)
  BY <1>1, <1>2 DEF Offered
<1>4. Declarer(t, act) = s
  BY <1>2, DeclarerUnique
<1>5. QED
  BY <1>2, <1>3, <1>4 DEF StoredRequires, DeclaredRequires, Entry

\* sync_tool_graph leaves a closed and saturated table.
LEMMA SyncConverges ==
    ASSUME TypeOK, ToolNamesReserved, NEW act \in SUBSET Loaded,
           NEW tbl \in [Tools -> RegisteredTool \cup {None}],
           NEW own \in [Slots -> SUBSET Tools],
           Agree(tbl, own, act)
    PROVE  LET tb2 == SyncedTools(tbl, act)
           IN  /\ Closed(Registered(tb2), StoredRequires(tb2))
               /\ Saturated(Registered(tb2), Offered(act), DeclaredRequires(act))
<1> DEFINE tb2 == SyncedTools(tbl, act)
           ow2 == SyncedOwned(tbl, own, act)
           req == DeclaredRequires(act)
<1>1. Agree(tb2, ow2, act) /\ Registered(tb2) = Grow(Kept(tbl), Offered(act), req)
  BY SyncAgrees DEF Regrown
<1>2. Kept(tbl) \subseteq Registered(tbl) /\ Closed(Kept(tbl), StoredRequires(tbl))
  BY PruneClosed DEF Kept
<1>3. \A t \in Kept(tbl) : req[t] = StoredRequires(tbl)[t]
  BY <1>2, AgreeRequires
<1>4. Closed(Kept(tbl), req)
  BY <1>2, <1>3 DEF Closed
<1> HIDE DEF tb2, ow2, req
<1>5. Closed(Registered(tb2), req)
  BY <1>1, <1>4, GrowClosed
<1>6. \A t \in Registered(tb2) : StoredRequires(tb2)[t] = req[t]
  BY <1>1, AgreeRequires DEF req
<1>7. Closed(Registered(tb2), StoredRequires(tb2))
  BY <1>5, <1>6 DEF Closed
<1>8. Saturated(Registered(tb2), Offered(act), req)
  BY <1>1, GrowSaturated
<1>9. QED
  BY <1>7, <1>8 DEF tb2, req

TableConverged ==
    /\ Closed(Registered(tools), StoredRequires(tools))
    /\ Saturated(Registered(tools), Offered(active), DeclaredRequires(active))

LEMMA InitConverged == Init => ToolsConverged
BY DEF Init, ToolsConverged, Closed, Saturated, Registered, Offered

LEMMA StepConverged == RInv /\ ToolsConverged /\ [Next]_vars => ToolsConverged'
<1> SUFFICES ASSUME RInv, ToolsConverged, [Next]_vars, pc' = "idle"
             PROVE  TableConverged'
  BY DEF ToolsConverged, TableConverged
<1> USE DEF RInv
<1>1. ASSUME SyncTools
      PROVE  TableConverged'
  <2>1. active \subseteq Loaded /\ Agree(tools, owned, active)
    BY AgreeNow DEF EffectsMatchActive
  <2>2. /\ Closed(Registered(tools'), StoredRequires(tools'))
        /\ Saturated(Registered(tools'), Offered(active), DeclaredRequires(active))
    BY <1>1, <2>1, SyncConverges DEF SyncTools, TypeOK
  <2>3. UNCHANGED <<build, active>>
    BY <1>1 DEF SyncTools
  <2>4. QED
    BY <2>2, <2>3 DEF TableConverged, Registered, StoredRequires, Offered,
                      DeclaredRequires, Entry, Declarer
<1>2. ASSUME NEW s \in Slots, ForceActivate(s)
      PROVE  TableConverged'
  <2> DEFINE act == active \cup {s}
  <2>1. s \in Loaded \ active /\ UNCHANGED build /\ active' = act
        /\ tools' = SyncedTools(tools, act)
    BY <1>2 DEF ForceActivate, RegisterServices
  <2>2. Agree(tools, OwnedReset(s), act) /\ OwnedReset(s) \in [Slots -> SUBSET Tools]
    BY <2>1, OwnedByActive, AgreeNow DEF Agree, TypeOK
  <2>3. act \subseteq Loaded
    BY <2>1 DEF EffectsMatchActive
  <2> HIDE DEF act
  <2>4. /\ Closed(Registered(tools'), StoredRequires(tools'))
        /\ Saturated(Registered(tools'), Offered(act), DeclaredRequires(act))
    BY <2>1, <2>2, <2>3, SyncConverges DEF TypeOK
  <2>5. QED
    BY <2>1, <2>4 DEF TableConverged, Registered, StoredRequires, Offered,
                      DeclaredRequires, Entry, Declarer
<1>3. ASSUME NEW s \in Slots, ForceDeactivate(s)
      PROVE  TableConverged'
  <2> DEFINE act == active \ {s}
             tbl == ToolsWithout(s)
  <2>1. UNCHANGED build /\ active' = act /\ tools' = SyncedTools(tbl, act)
    BY <1>3 DEF ForceDeactivate, UnwindServices
  <2>2. act \subseteq Loaded
    BY DEF EffectsMatchActive
  <2>3. /\ tbl \in [Tools -> RegisteredTool \cup {None}]
        /\ OwnedReset(s) \in [Slots -> SUBSET Tools]
        /\ Agree(tbl, OwnedReset(s), act)
    BY ToolsWithoutAgree
  <2> HIDE DEF act, tbl
  <2>4. /\ Closed(Registered(tools'), StoredRequires(tools'))
        /\ Saturated(Registered(tools'), Offered(act), DeclaredRequires(act))
    BY <2>1, <2>2, <2>3, SyncConverges
  <2>5. QED
    BY <2>1, <2>4 DEF TableConverged, Registered, StoredRequires, Offered,
                      DeclaredRequires, Entry, Declarer
<1>4. ASSUME UNCHANGED <<build, effects, pc>>
      PROVE  TableConverged'
  BY <1>4 DEF effects, ToolsConverged, TableConverged, Registered, StoredRequires,
              Offered, DeclaredRequires, Entry, Declarer
<1>5. ASSUME Converge, ~SyncTools
      PROVE  FALSE
  BY <1>5 DEF Converge, CollectStale, DeactivateStale, CollectReady, ActivateReady
<1>6. ASSUME HostOperation
      PROVE  FALSE
  BY <1>6 DEF HostOperation, Load, Unload, Reload, BeginConverge
<1>7. ASSUME ExternalOperation
      PROVE  UNCHANGED <<build, effects, pc>>
  BY <1>7 DEF ExternalOperation, AddExternalService, RemoveExternalService, BeginConverge, loop
<1>8. CASE UNCHANGED vars
  BY <1>4, <1>8 DEF vars, loop
<1>9. QED
  BY <1>1, <1>2, <1>3, <1>4, <1>5, <1>6, <1>7, <1>8
  DEF Next, EmbeddedNext, HostNext, ForceOperation

\* Between operations the tool table is closed and saturated, whatever the
\* operations were and however the tools depend on each other.
THEOREM ToolTableConverged == Spec => []ToolsConverged
BY RInvHolds, InitConverged, StepConverged, PTL DEF Spec

------------------------------------------------------------------------------
(* The service graph between operations.                                   *)

\* What the loop has established of the service graph while its flag says that
\* nothing has changed in this round.
LoopKnows ==
    /\ pc = "idle" => Stale = {} /\ Ready = {}
    /\ pc = "deactivate" /\ ~changed => work = Stale
    /\ pc = "activate" /\ ~changed => Stale = {} /\ work = Ready

\* The two snapshots depend on nothing else.
LEMMA SnapshotFrame ==
    ASSUME UNCHANGED <<build, active, providers, external>>
    PROVE  UNCHANGED <<Stale, Ready>>
BY DEF Stale, Ready, Loaded, Satisfied, ServiceAvailable

LEMMA InitLoopKnows == Init => LoopKnows
BY DEF Init, LoopKnows, Stale, Ready, Loaded

LEMMA StepLoopKnows == RInv /\ LoopKnows /\ [HostNext]_vars => LoopKnows'
<1> SUFFICES ASSUME RInv, LoopKnows, [HostNext]_vars PROVE LoopKnows'
  OBVIOUS
<1> USE DEF LoopKnows
<1>1. CASE HostOperation
  BY <1>1 DEF HostOperation, Load, Unload, Reload, BeginConverge
<1>2. CASE CollectStale
  <2>1. UNCHANGED <<Stale, Ready>>
    BY <1>2, SnapshotFrame DEF CollectStale, effects
  <2>2. QED
    BY <1>2, <2>1 DEF CollectStale
<1>3. CASE \E s \in Slots : DeactivateStale(s)
  BY <1>3 DEF DeactivateStale
<1>4. CASE CollectReady
  <2>1. UNCHANGED <<Stale, Ready>>
    BY <1>4, SnapshotFrame DEF CollectReady, effects
  <2>2. QED
    BY <1>4, <2>1 DEF CollectReady
<1>5. CASE \E s \in Slots : ActivateReady(s)
  BY <1>5 DEF ActivateReady
<1>6. CASE SyncTools
  <2>1. UNCHANGED <<Stale, Ready>>
    BY <1>6, SnapshotFrame DEF SyncTools
  <2>2. QED
    BY <1>6, <2>1 DEF SyncTools
<1>7. CASE UNCHANGED vars
  <2>1. UNCHANGED <<Stale, Ready>>
    BY <1>7, SnapshotFrame DEF vars, effects
  <2>2. QED
    BY <1>7, <2>1 DEF vars, loop
<1>8. QED
  BY <1>1, <1>2, <1>3, <1>4, <1>5, <1>6, <1>7 DEF HostNext, Converge

LEMMA HostStep == [HostNext]_vars => [Next]_vars
BY DEF Next, EmbeddedNext

\* When the command-line host drives the registry, a slot is active between
\* operations exactly when its injects are available, for every set of
\* artifacts: wherever converge stops, it stops at a fixpoint.
THEOREM HostActiveMatchesInjects == HostSpec => []ActiveMatchesInjects
<1>1. HostSpec => [](RInv /\ LoopKnows)
  <2>1. Init => RInv /\ LoopKnows
    BY InitRInv, InitLoopKnows
  <2>2. RInv /\ LoopKnows /\ [HostNext]_vars => (RInv /\ LoopKnows)'
    BY StepRInv, StepLoopKnows, HostStep
  <2>3. QED
    BY <2>1, <2>2, PTL DEF HostSpec
<1>2. RInv /\ LoopKnows => ActiveMatchesInjects
  BY DEF RInv, LoopKnows, ActiveMatchesInjects, Stale, Ready, EffectsMatchActive
<1>3. QED
  BY <1>1, <1>2, PTL

------------------------------------------------------------------------------
(* The service graph from below.  What is active between operations is     *)
(* what can be traced back to slots that inject nothing, or that inject    *)
(* services several slots may provide: over the others no ring of slots    *)
(* holds itself up, because a slot comes up only on the shoulders of one   *)
(* that is up already.                                                     *)

\* What the command-line host never does: declare services of its own, load
\* anything but the artifacts.
HostBuilds == external = {} /\ \A s \in Loaded : build[s] \in Artifacts[s]

\* What another slot must provide, and no third one can.
Needs(s) == build[s].injects \ (build[s].provides \cup Graph!Contested)

\* What an active slot provides is routed to it, unless another slot can
\* provide it too: the one that came up later has taken the service over then,
\* and takes it along when it goes.
Routed ==
    \A s \in active : \A v \in build[s].provides \ Graph!Contested : providers[v] = s

\* Slots each of which waits for another one of them.
Knot(X) ==
    /\ X # {} /\ X \subseteq Loaded
    /\ \A s \in X : \E v \in Needs(s) : \E p \in X : v \in build[p].provides

\* No knot is up, nor about to be.
GoingUp  == IF pc = "activate" THEN active \cup work ELSE active
NoKnotUp == \A X \in SUBSET GoingUp : ~Knot(X)

\* While stale slots go down, whoever loses a provider loses one that could not
\* come up again at once.
Downed ==
    pc = "deactivate" =>
        /\ \A s \in work : ~Satisfied(s)
        /\ \A s \in active \ work : \A v \in Needs(s) :
              \E p \in Loaded : v \in build[p].provides /\ (p \in active \/ ~Satisfied(p))

GraphInv == HostBuilds /\ Routed /\ NoKnotUp /\ Downed

LEMMA OneProvider ==
    ASSUME TypeOK, HostBuilds, NEW p \in Loaded, NEW q \in Loaded,
           NEW v \in (build[p].provides \cap build[q].provides) \ Graph!Contested
    PROVE  p = q
<1>1. v \in Services
  BY DEF TypeOK, Loaded, Build
<1>2. QED
  BY <1>1 DEF Graph!Contested, HostBuilds, Loaded

LEMMA BuildsTyped ==
    ASSUME TypeOK, NEW s \in Loaded
    PROVE  /\ s \in Slots
           /\ build[s].injects \subseteq Services
           /\ build[s].provides \subseteq Services
BY DEF TypeOK, Loaded, Build

\* An inject of a slot is met by itself or by the active slot it is routed to.
LEMMA AvailableThrough ==
    ASSUME RInv, HostBuilds, NEW s \in Loaded, NEW v \in build[s].injects \ build[s].provides
    PROVE  /\ ServiceAvailable(s, v) <=> providers[v] \in active
           /\ providers[v] \in active =>
                 providers[v] \in Loaded /\ v \in build[providers[v]].provides
<1>1. v \in Services
  BY BuildsTyped DEF RInv
<1>2. ServiceAvailable(s, v) <=> providers[v] \in active
  BY DEF ServiceAvailable, HostBuilds
<1>3. ASSUME providers[v] \in active
      PROVE  providers[v] \in Loaded /\ v \in build[providers[v]].provides
  <2>1. providers[v] # None
    BY <1>3, NoneAssumption DEF RInv, TypeOK
  <2>2. QED
    BY <1>1, <1>3, <2>1 DEF RInv, EffectsMatchActive
<1>4. QED
  BY <1>2, <1>3

\* An uncontested inject is met as soon as an active slot provides it.
LEMMA ProvidedIsAvailable ==
    ASSUME RInv, HostBuilds, Routed, NEW s \in Loaded, NEW v \in Needs(s),
           NEW p \in active, v \in build[p].provides
    PROVE  ServiceAvailable(s, v)
<1>1. providers[v] = p
  BY DEF Routed, Needs
<1>2. QED
  BY <1>1 DEF ServiceAvailable

LEMMA InitGraphInv == Init => GraphInv
<1> SUFFICES ASSUME Init PROVE GraphInv
  OBVIOUS
<1>1. HostBuilds /\ Routed /\ Downed
  BY DEF Init, HostBuilds, Routed, Downed, Loaded
<1>2. NoKnotUp
  BY DEF Init, NoKnotUp, GoingUp, Knot
<1>3. QED
  BY <1>1, <1>2 DEF GraphInv

LEMMA StepHostBuilds == RInv /\ HostBuilds /\ [HostNext]_vars => HostBuilds'
<1> SUFFICES ASSUME RInv, HostBuilds, [HostNext]_vars PROVE HostBuilds'
  OBVIOUS
<1> USE DEF HostBuilds, Loaded
<1>1. ASSUME NEW s \in Slots, NEW b \in Artifacts[s] \cup {None},
             build' = [build EXCEPT ![s] = b], UNCHANGED external
      PROVE  HostBuilds'
  BY <1>1 DEF RInv, TypeOK
<1>2. CASE HostOperation
  BY <1>1, <1>2 DEF HostOperation, Load, Reload, Unload
<1>3. CASE Converge
  BY <1>3 DEF Converge, CollectStale, DeactivateStale, CollectReady, ActivateReady, SyncTools
<1>4. CASE UNCHANGED vars
  BY <1>4 DEF vars
<1>5. QED
  BY <1>2, <1>3, <1>4 DEF HostNext

\* What every operation does to the active slots: at most one changes, and it
\* is not active afterwards.
LEMMA OperationEffects ==
    ASSUME RInv, HostOperation
    PROVE  /\ pc = "idle" /\ pc' = "start" /\ work' = {}
           /\ active' \subseteq active
           /\ \A s \in active' : build'[s] = build[s]
           /\ \A s \in active', v \in Services : providers[v] = s => providers'[v] = s
<1> USE DEF RInv, TypeOK
<1>1. ASSUME NEW s \in Slots, NEW b \in Artifacts[s], Load(s, b)
      PROVE  s \notin active /\ build' = [build EXCEPT ![s] = b] /\ UNCHANGED effects
  BY <1>1 DEF Load, EffectsMatchActive, Loaded
<1>2. ASSUME NEW s \in Slots, NEW b \in Artifacts[s] \cup {None},
             Deactivate(s), build' = [build EXCEPT ![s] = b]
      PROVE  /\ active' \subseteq active
             /\ \A o \in active' : build'[o] = build[o]
             /\ \A o \in active', v \in Services : providers[v] = o => providers'[v] = o
  BY <1>2 DEF Deactivate, UnwindServices
<1>3. pc = "idle" /\ pc' = "start" /\ work' = {}
  BY DEF HostOperation, Load, Reload, Unload, BeginConverge
<1>4. ASSUME NEW s \in Slots, NEW b \in Artifacts[s], Load(s, b)
      PROVE  /\ active' \subseteq active
             /\ \A o \in active' : build'[o] = build[o]
             /\ \A o \in active', v \in Services : providers[v] = o => providers'[v] = o
  BY <1>1, <1>4 DEF effects
<1>5. QED
  BY <1>2, <1>3, <1>4 DEF HostOperation, Reload, Unload

LEMMA StepRouted ==
    RInv /\ HostBuilds /\ Routed /\ [HostNext]_vars => Routed'
<1> SUFFICES ASSUME RInv, HostBuilds, Routed, [HostNext]_vars
             PROVE  Routed'
  OBVIOUS
<1> USE DEF RInv, TypeOK, Routed
<1>1. \A s \in active : build[s].provides \subseteq Services
  BY BuildsTyped DEF EffectsMatchActive
<1>2. CASE HostOperation
  BY <1>1, <1>2, OperationEffects
<1>3. ASSUME NEW s \in Slots, DeactivateStale(s)
      PROVE  Routed'
  BY <1>1, <1>3 DEF DeactivateStale, Deactivate, UnwindServices
<1>4. ASSUME NEW s \in Slots, ActivateReady(s)
      PROVE  Routed'
  <2>1. s \in Loaded \ active /\ active \subseteq Loaded
    BY <1>4 DEF ActivateReady, WorkOK, EffectsMatchActive
  <2>2. /\ active' = active \cup {s} /\ build' = build
        /\ providers' = [v \in Services |->
                            IF v \in build[s].provides THEN s ELSE providers[v]]
    BY <1>4 DEF ActivateReady, RegisterServices
  <2>3. ASSUME NEW o \in active, NEW v \in build[o].provides \ Graph!Contested
        PROVE  providers'[v] = o
    <3>1. v \notin build[s].provides
      BY <2>1, OneProvider
    <3>2. QED
      BY <1>1, <2>2, <3>1
  <2>4. build[s].provides \subseteq Services
    BY <2>1, BuildsTyped
  <2>5. ASSUME NEW v \in build[s].provides
        PROVE  providers'[v] = s
    BY <2>2, <2>4
  <2>6. QED
    BY <2>2, <2>3, <2>5
<1>5. CASE CollectStale \/ CollectReady \/ SyncTools
  BY <1>5 DEF CollectStale, CollectReady, SyncTools, effects
<1>6. CASE UNCHANGED vars
  BY <1>6 DEF vars, effects
<1>7. QED
  BY <1>2, <1>3, <1>4, <1>5, <1>6 DEF HostNext, Converge

\* Taking a slot down makes nobody's injects available.
LEMMA UnwindSatisfiesNone ==
    ASSUME RInv, NEW s \in Slots, UnwindServices(s), UNCHANGED <<build, external>>,
           NEW o \in Loaded, ~Satisfied(o)
    PROVE  ~Satisfied(o)'
<1> USE DEF RInv, TypeOK
<1>1. PICK v \in build[o].injects : ~ServiceAvailable(o, v)
  BY DEF Satisfied
<1>2. v \in Services
  BY BuildsTyped
<1>3. providers'[v] \in active' => providers[v] \in active
  BY <1>2, NoneAssumption DEF UnwindServices
<1>4. ~ServiceAvailable(o, v)'
  BY <1>1, <1>3 DEF ServiceAvailable
<1>5. QED
  BY <1>1, <1>4 DEF Satisfied

LEMMA StepDowned == RInv /\ HostBuilds /\ Downed /\ [HostNext]_vars => Downed'
<1> SUFFICES ASSUME RInv, HostBuilds, Downed, [HostNext]_vars, pc' = "deactivate"
             PROVE  Downed'
  BY DEF Downed
<1> USE DEF RInv
<1>1. CASE CollectStale
  <2>1. /\ work' = Stale
        /\ UNCHANGED <<build, active, providers, external>>
    BY <1>1 DEF CollectStale, effects
  <2>2. ASSUME NEW s \in active \ Stale, NEW v \in Needs(s)
        PROVE  \E p \in Loaded : v \in build[p].provides /\ p \in active
    <3>1. s \in Loaded /\ Satisfied(s)
      BY DEF Stale, EffectsMatchActive
    <3>2. v \in build[s].injects \ build[s].provides
      BY DEF Needs
    <3>3. providers[v] \in active
      BY <3>1, <3>2, AvailableThrough DEF Satisfied
    <3>4. QED
      BY <3>1, <3>2, <3>3, AvailableThrough
  <2>3. \A s \in Stale : ~Satisfied(s)
    BY DEF Stale
  <2>4. QED
    BY <2>1, <2>2, <2>3 DEF Downed, Needs, Satisfied, ServiceAvailable, Loaded
<1>2. ASSUME NEW s \in Slots, DeactivateStale(s)
      PROVE  Downed'
  <2>1. /\ s \in work /\ s \in active /\ UnwindServices(s) /\ UNCHANGED <<build, external>>
        /\ active' = active \ {s} /\ work' = work \ {s} /\ pc = "deactivate"
    BY <1>2 DEF DeactivateStale, Deactivate, UnwindServices, WorkOK
  <2>2. \A o \in Loaded : ~Satisfied(o) => ~Satisfied(o)'
    BY <2>1, UnwindSatisfiesNone
  <2>3. work \subseteq Loaded
    BY <2>1 DEF WorkOK, EffectsMatchActive
  <2>4. ~Satisfied(s)
    BY <2>1 DEF Downed
  <2>5. \A o \in work' : ~Satisfied(o)'
    BY <2>1, <2>2, <2>3 DEF Downed
  <2>6. ASSUME NEW o \in active' \ work', NEW v \in Needs(o)
        PROVE  \E p \in Loaded : v \in build[p].provides /\ (p \in active' \/ ~Satisfied(p)')
    <3>1. o \in active \ work
      BY <2>1
    <3>2. PICK p \in Loaded : v \in build[p].provides /\ (p \in active \/ ~Satisfied(p))
      BY <2>1, <3>1 DEF Downed
    <3>3. p \in active' \/ ~Satisfied(p)'
      BY <2>1, <2>2, <2>4, <3>2
    <3>4. QED
      BY <3>2, <3>3
  <2>7. Loaded' = Loaded
    BY <2>1 DEF Loaded
  <2>8. /\ \A o \in work' : ~Satisfied(o)'
        /\ \A o \in active' \ work' : \A v \in Needs(o)' :
              \E p \in Loaded' : v \in build'[p].provides /\ (p \in active' \/ ~Satisfied(p)')
    BY <2>1, <2>5, <2>6, <2>7 DEF Needs
  <2>9. QED
    BY <2>8 DEF Downed
<1>3. CASE UNCHANGED vars
  BY <1>3 DEF vars, effects, loop, Downed, Needs, Satisfied, ServiceAvailable, Loaded
<1>4. QED
  BY <1>1, <1>2, <1>3 DEF HostNext, HostOperation, Load, Reload, Unload, BeginConverge,
                          Converge, CollectReady, ActivateReady, SyncTools

\* A knot of slots that keep their builds was a knot before.
LEMMA KnotBefore ==
    ASSUME NEW X \in SUBSET Loaded, \A s \in X : build'[s] = build[s], Knot(X)'
    PROVE  Knot(X)
BY DEF Knot, Needs

\* The step where a knot could come up, and does not: what the active slots
\* wait for is active or could not come up, so the active part of the knot
\* would have been one already.
LEMMA ReadyMakesNoKnot ==
    ASSUME RInv, HostBuilds, NoKnotUp, Downed,
           pc = "deactivate", work = {}, NEW X \in SUBSET (active \cup Ready), Knot(X)
    PROVE  FALSE
<1> DEFINE Y == X \cap active
<1> USE DEF RInv
<1>1. active \subseteq Loaded /\ Ready \subseteq Loaded
  BY DEF EffectsMatchActive, Ready
<1>2. \A s \in Ready : Satisfied(s)
  BY DEF Ready
<1>3. ASSUME NEW s \in X, NEW v \in Needs(s),
             NEW p \in X, v \in build[p].provides
      PROVE  p \in active
  <2>1. s \in Loaded /\ p \in Loaded
    BY <1>1
  <2>2. v \in build[s].injects \ build[s].provides /\ v \notin Graph!Contested
    BY DEF Needs
  <2>3. CASE s \in active
    <3>1. PICK q \in Loaded : v \in build[q].provides /\ (q \in active \/ ~Satisfied(q))
      BY <2>3 DEF Downed
    <3>2. q = p
      BY <1>3, <2>1, <2>2, <3>1, OneProvider
    <3>3. QED
      BY <1>2, <3>1, <3>2
  <2>4. CASE s \in Ready
    <3>1. providers[v] \in active
      BY <1>2, <2>1, <2>2, <2>4, AvailableThrough DEF Satisfied
    <3>2. providers[v] \in Loaded /\ v \in build[providers[v]].provides
      BY <2>1, <2>2, <3>1, AvailableThrough
    <3>3. providers[v] = p
      BY <1>3, <2>1, <2>2, <3>2, OneProvider
    <3>4. QED
      BY <3>1, <3>3
  <2>5. QED
    BY <2>3, <2>4
<1>4. Knot(Y)
  BY <1>1, <1>3 DEF Knot
<1>5. QED
  BY <1>4 DEF NoKnotUp, GoingUp

LEMMA StepNoKnotUp ==
    RInv /\ GraphInv /\ [HostNext]_vars => NoKnotUp'
<1> SUFFICES ASSUME RInv, GraphInv, [HostNext]_vars,
                    NEW X \in SUBSET GoingUp', Knot(X)'
             PROVE  FALSE
  BY DEF NoKnotUp
<1>1. active \subseteq Loaded /\ \A Z \in SUBSET active : ~Knot(Z)
  BY DEF RInv, EffectsMatchActive, GraphInv, NoKnotUp, GoingUp
<1>2. CASE HostOperation
  <2>1. X \subseteq active /\ \A s \in X : build'[s] = build[s]
    BY <1>2, OperationEffects DEF GoingUp
  <2>2. QED
    BY <1>1, <2>1, KnotBefore
<1>3. CASE CollectReady
  <2>1. /\ pc = "deactivate" /\ work = {} /\ build' = build /\ X \subseteq active \cup Ready
    BY <1>3 DEF CollectReady, GoingUp, effects
  <2>2. Knot(X)
    BY <2>1 DEF Knot, Needs, Loaded
  <2>3. QED
    BY <2>1, <2>2, ReadyMakesNoKnot DEF GraphInv
<1>4. ASSUME build' = build, GoingUp' \subseteq GoingUp
      PROVE  FALSE
  <2>1. Knot(X) /\ X \subseteq GoingUp
    BY <1>4 DEF Knot, Needs, Loaded
  <2>2. QED
    BY <2>1 DEF GraphInv, NoKnotUp
<1>5. ASSUME CollectStale \/ SyncTools \/ UNCHANGED vars
      PROVE  build' = build /\ GoingUp' \subseteq GoingUp
  BY <1>5 DEF CollectStale, SyncTools, vars, effects, loop, GoingUp
<1>6. ASSUME NEW s \in Slots, DeactivateStale(s)
      PROVE  build' = build /\ GoingUp' \subseteq GoingUp
  BY <1>6 DEF DeactivateStale, Deactivate, UnwindServices, GoingUp
<1>7. ASSUME NEW s \in Slots, ActivateReady(s)
      PROVE  build' = build /\ GoingUp' \subseteq GoingUp
  BY <1>7 DEF ActivateReady, RegisterServices, GoingUp
<1>8. QED
  BY <1>2, <1>3, <1>4, <1>5, <1>6, <1>7 DEF HostNext, Converge

HostInv == RInv /\ LoopKnows /\ GraphInv

LEMMA HostInvHolds == HostSpec => []HostInv
<1>1. Init => HostInv
  BY InitRInv, InitLoopKnows, InitGraphInv DEF HostInv
<1>2. HostInv /\ [HostNext]_vars => HostInv'
  BY StepRInv, StepLoopKnows, HostStep, StepHostBuilds, StepRouted, StepDowned, StepNoKnotUp
  DEF HostInv, GraphInv
<1>3. QED
  BY <1>1, <1>2, PTL DEF HostSpec

------------------------------------------------------------------------------
(* The registry implements the service graph.                              *)

LEMMA LoadedSlots == Graph!Loaded = Loaded
BY DEF Graph!Loaded, Loaded

LEMMA SupportedComplete ==
    ASSUME NEW given
    PROVE  /\ Graph!Complete(Graph!Supported(given), given)
           /\ Graph!Supported(given) \subseteq Loaded
           /\ \A B \in SUBSET Loaded :
                 Graph!Complete(B, given) => Graph!Supported(given) \subseteq B
<1>1. Graph!Supported(given) \subseteq Loaded
  BY LoadedSlots DEF Graph!Supported
<1>2. \A B \in SUBSET Loaded :
         Graph!Complete(B, given) => Graph!Supported(given) \subseteq B
  BY LoadedSlots DEF Graph!Supported
<1>3. ASSUME NEW s \in Loaded,
             \A v \in build[s].injects :
                \/ v \in build[s].provides \cup given
                \/ /\ v \notin Graph!Contested
                   /\ \E p \in Graph!Supported(given) : v \in build[p].provides
      PROVE  s \in Graph!Supported(given)
  <2>1. ASSUME NEW B \in SUBSET Loaded, Graph!Complete(B, given)
        PROVE  s \in B
    <3>1. Graph!Supported(given) \subseteq B
      BY <1>2, <2>1
    <3>2. QED
      BY <1>3, <2>1, <3>1, LoadedSlots DEF Graph!Complete
  <2>2. QED
    BY <2>1, LoadedSlots DEF Graph!Supported
<1>4. QED
  BY <1>1, <1>2, <1>3, LoadedSlots DEF Graph!Complete

\* What converge leaves active lies between the two bounds of the graph: all
\* that uncontested services support, because converge stops at a fixpoint;
\* and no more than contested ones add to it, because what else was active
\* would be a knot.
SettledOnSupported ==
    pc = "idle" =>
        /\ active \subseteq Graph!Supported(Graph!Contested)
        /\ Graph!Supported({}) \subseteq active
        /\ Graph!Stands(active)

LEMMA ActiveIsSupported == HostInv => SettledOnSupported
<1> SUFFICES ASSUME HostInv, pc = "idle"
             PROVE  /\ active \subseteq Graph!Supported(Graph!Contested)
                    /\ Graph!Supported({}) \subseteq active
                    /\ Graph!Stands(active)
  BY DEF SettledOnSupported
<1> USE DEF HostInv, GraphInv
<1>1. \A s \in Loaded : s \in active <=> Satisfied(s)
  BY DEF LoopKnows, Stale, Ready
<1>2. active \subseteq Loaded
  BY DEF RInv, EffectsMatchActive
<1>3. ASSUME NEW s \in active, NEW v \in build[s].injects \ build[s].provides
      PROVE  \E p \in active : v \in build[p].provides
  BY <1>1, <1>2, AvailableThrough DEF Satisfied
<1>4. Graph!Stands(active)
  BY <1>3 DEF Graph!Stands
<1>5. Graph!Complete(active, {})
  <2>1. ASSUME NEW s \in Loaded,
               \A v \in build[s].injects :
                  \/ v \in build[s].provides
                  \/ v \notin Graph!Contested /\ \E p \in active : v \in build[p].provides
        PROVE  s \in active
    <3>1. ASSUME NEW v \in build[s].injects
          PROVE  ServiceAvailable(s, v)
      BY <2>1, ProvidedIsAvailable DEF Needs, ServiceAvailable
    <3>2. QED
      BY <1>1, <3>1 DEF Satisfied
  <2>2. QED
    BY <2>1, LoadedSlots DEF Graph!Complete
<1>6. Graph!Supported({}) \subseteq active
  BY <1>2, <1>5, SupportedComplete
<1> DEFINE U == Graph!Supported(Graph!Contested)
           X == active \ U
<1>7. ASSUME NEW s \in X
      PROVE  \E v \in Needs(s) : \E p \in X : v \in build[p].provides
  <2>1. s \in Loaded /\ s \in active
    BY <1>2
  <2>2. Graph!Complete(U, Graph!Contested)
    BY SupportedComplete
  <2>3. PICK v \in build[s].injects :
           /\ v \notin build[s].provides \cup Graph!Contested
           /\ \A p \in U : v \notin build[p].provides
    BY <2>1, <2>2, LoadedSlots DEF Graph!Complete
  <2>4. PICK p \in active : v \in build[p].provides
    BY <1>3, <2>1, <2>3
  <2>5. p \in X /\ v \in Needs(s)
    BY <2>3, <2>4 DEF Needs
  <2>6. QED
    BY <2>4, <2>5
<1>8. X = {}
  <2>1. X \subseteq GoingUp
    BY DEF GoingUp
  <2>2. X # {} => Knot(X)
    BY <1>2, <1>7 DEF Knot
  <2>3. QED
    BY <2>1, <2>2 DEF NoKnotUp
<1>9. QED
  BY <1>4, <1>6, <1>8

LEMMA StepRefines == SettledOnSupported' /\ [HostNext]_vars => [Graph!GNext]_Graph!gvars
<1> SUFFICES ASSUME SettledOnSupported', [HostNext]_vars
             PROVE  [Graph!GNext]_Graph!gvars
  OBVIOUS
<1> USE DEF Graph!gvars
<1>1. ASSUME NEW s \in Slots, NEW b \in Artifacts[s] \cup {None}, pc = "idle", pc' = "start",
             build' = [build EXCEPT ![s] = b]
      PROVE  Graph!Change(s)
  BY <1>1 DEF Graph!Change
<1>2. CASE HostOperation
  <2>1. \E s \in Slots : \E b \in Artifacts[s] \cup {None} :
           pc = "idle" /\ pc' = "start" /\ build' = [build EXCEPT ![s] = b]
    BY <1>2 DEF HostOperation, Load, Reload, Unload, BeginConverge
  <2>2. QED
    BY <1>1, <2>1 DEF Graph!GNext
<1>3. ASSUME SyncTools, pc' = "idle"
      PROVE  Graph!Settle
  <2>1. build' = build /\ active' = active /\ pc # "idle"
    BY <1>3 DEF SyncTools
  <2>3. (Graph!Supported(Graph!Contested))' = Graph!Supported(Graph!Contested)
    BY <2>1 DEF Graph!Supported, Graph!Complete, Graph!Loaded
  <2>4. (Graph!Supported({}))' = Graph!Supported({})
    BY <2>1 DEF Graph!Supported, Graph!Complete, Graph!Loaded
  <2>5. (Graph!Stands(active))' = Graph!Stands(active)
    BY <2>1 DEF Graph!Stands
  <2>6. QED
    BY <1>3, <2>1, <2>3, <2>4, <2>5 DEF SettledOnSupported, Graph!Settle
<1>4. ASSUME pc # "idle", pc' # "idle", build' = build
      PROVE  UNCHANGED Graph!gvars
  BY <1>4
<1>5. CASE Converge
  <2>1. pc # "idle" /\ build' = build
    BY <1>5 DEF Converge, CollectStale, DeactivateStale, CollectReady, ActivateReady, SyncTools
  <2>2. pc' = "idle" => SyncTools
    BY <1>5 DEF Converge, CollectStale, DeactivateStale, CollectReady, ActivateReady
  <2>3. QED
    BY <1>3, <1>4, <2>1, <2>2 DEF Graph!GNext
<1>6. CASE UNCHANGED vars
  BY <1>6 DEF vars, effects, loop
<1>7. QED
  BY <1>2, <1>5, <1>6 DEF HostNext

\* The safety part of ImplementsServiceGraph, for every set of artifacts,
\* contested services included: whatever order converge handles slots in, each
\* operation settles between the bounds of the graph, and on the slots supported
\* from below where no service is contested.
THEOREM RefinesServiceGraph == HostSpec => Graph!GInit /\ [][Graph!GNext]_Graph!gvars
<1>1. Init => Graph!GInit
  BY DEF Init, Graph!GInit
<1>2. QED
  BY <1>1, HostInvHolds, ActiveIsSupported, StepRefines, PTL DEF HostSpec
==============================================================================
