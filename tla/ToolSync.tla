------------------------------- MODULE ToolSync -------------------------------
(***************************************************************************)
(* The two loops of `Registry::sync_tool_graph` (host/src/registry.rs),    *)
(* round by round, over any tool table and any declarations, against their *)
(* closed form in ToolGraph.                                               *)
(***************************************************************************)
EXTENDS ToolGraph

CONSTANT Tools

VARIABLES
    requires,       \* what each tool requires (the same in table and plugin)
    declared,       \* the tools the active slots declare
    before,         \* the tools registered when the function was entered
    registered,     \* the tools registered now
    phase

vars == <<requires, declared, before, registered, phase>>

TypeOK ==
    /\ requires \in [Tools -> SUBSET Tools]
    /\ declared \in SUBSET Tools
    /\ before \in SUBSET Tools
    /\ registered \in SUBSET Tools
    /\ phase \in {"remove", "add", "done"}

\* No slot whose tool requires itself gets this far.
Init ==
    /\ requires \in [Tools -> SUBSET Tools]
    /\ \A t \in Tools : t \notin requires[t]
    /\ declared \in SUBSET Tools
    /\ before \in SUBSET Tools
    /\ registered = before
    /\ phase = "remove"

Stale == {t \in registered : \E r \in requires[t] : r \notin registered}

Ready == {t \in declared \ registered : requires[t] \subseteq registered}

\* Mutant of RemoveRound: one round instead of a fixpoint.
RemoveOnce ==
    /\ phase = "remove"
    /\ Stale # {}
    /\ registered' = registered \ Stale
    /\ phase' = "add"
    /\ UNCHANGED <<requires, declared, before>>

RemoveRound ==
    /\ phase = "remove"
    /\ Stale # {}
    /\ registered' = registered \ Stale
    /\ UNCHANGED <<requires, declared, before, phase>>

StartAdding ==
    /\ phase = "remove"
    /\ Stale = {}
    /\ phase' = "add"
    /\ UNCHANGED <<requires, declared, before, registered>>

AddRound ==
    /\ phase = "add"
    /\ Ready # {}
    /\ registered' = registered \cup Ready
    /\ UNCHANGED <<requires, declared, before, phase>>

Return ==
    /\ phase = "add"
    /\ Ready = {}
    /\ phase' = "done"
    /\ UNCHANGED <<requires, declared, before, registered>>

Next == RemoveRound \/ StartAdding \/ AddRound \/ Return

Spec == Init /\ [][Next]_vars /\ WF_vars(Next)

------------------------------------------------------------------------------
Reference == Grow(Prune(before, requires), declared, requires)

\* Removal never drops a tool that has a closed set to stand on, and addition
\* never registers one that a smaller saturated table would do without.
Bracketed ==
    /\ phase = "remove" =>
          Prune(before, requires) \subseteq registered /\ registered \subseteq before
    /\ phase # "remove" =>
          Prune(before, requires) \subseteq registered /\ registered \subseteq Reference

\* What sync_tool_graph leaves registered is the closed form Registry uses.
ComputesReference == phase = "done" => registered = Reference

\* Both loops end, though the removals run before the additions and a tool
\* removed by the first loop can be added again by the second.
Returns == <>(phase = "done")
==============================================================================
