----------------------------- MODULE ServiceGraph -----------------------------
(***************************************************************************)
(* What the registry promises of the service graph, with no provider       *)
(* table, no loop and no order: after each change of one slot's build, the *)
(* slots that are up are those whose injects can be traced back, through   *)
(* slots that are up, to slots that inject nothing.                        *)
(*                                                                         *)
(* The promise is exact for a service that one slot only may provide.  Of  *)
(* a contested one nothing more is promised than that nobody is up for     *)
(* want of it: the registry may lose the route to a provider that is up,   *)
(* and two slots may hold each other up by what a third one gave them.     *)
(***************************************************************************)
CONSTANTS Slots, Services, Artifacts, None

VARIABLES
    build,      \* slot -> its build, or None
    settled,    \* FALSE from a change until the graph has been recomputed
    up          \* the slots that are up, once settled ({} before)

gvars == <<build, settled, up>>

Loaded == {s \in Slots : build[s] # None}

\* The services that builds of two slots provide.
Contested ==
    {v \in Services : \E s1, s2 \in Slots : s1 # s2 /\
        \E b1 \in Artifacts[s1], b2 \in Artifacts[s2] :
            v \in b1.provides /\ v \in b2.provides}

\* B holds every loaded slot whose injects are its own, given, or uncontested
\* and provided by B.
Complete(B, given) ==
    \A s \in Loaded :
        (\A v \in build[s].injects :
            \/ v \in build[s].provides \cup given
            \/ v \notin Contested /\ \E p \in B : v \in build[p].provides)
        => s \in B

\* The least such set.
Supported(given) ==
    {s \in Loaded : \A B \in SUBSET Loaded : Complete(B, given) => s \in B}

\* Nobody in B is without a service it injects.
Stands(B) ==
    \A s \in B : \A v \in build[s].injects :
        v \in build[s].provides \/ \E p \in B : v \in build[p].provides

GInit == build = [s \in Slots |-> None] /\ settled = TRUE /\ up = {}

Change(s) ==
    /\ settled = TRUE
    /\ \E b \in Artifacts[s] \cup {None} : build' = [build EXCEPT ![s] = b]
    /\ settled' = FALSE
    /\ up' = {}

\* With no contested service the two bounds are the same set.
Settle ==
    /\ settled = FALSE
    /\ settled' = TRUE
    /\ up' \in SUBSET Supported(Contested)
    /\ Supported({}) \subseteq up'
    /\ Stands(up')
    /\ UNCHANGED build

GNext == (\E s \in Slots : Change(s)) \/ Settle

GSpec == GInit /\ [][GNext]_gvars /\ WF_gvars(Settle)
==============================================================================
