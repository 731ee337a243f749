------------------------------ MODULE ToolGraph ------------------------------
(***************************************************************************)
(* The tool-level dependency graph of the registry, in closed form.        *)
(* `Registry::sync_tool_graph` (host/src/registry.rs) reaches these sets   *)
(* by two loops; module ToolSync models the loops and shows that they      *)
(* compute exactly what is defined here.  req is a function from tools to  *)
(* the set of tools each one requires.                                     *)
(***************************************************************************)

\* No tool of K requires a tool outside K.
Closed(K, req) == \A t \in K : req[t] \subseteq K

\* What is left of the registered tools R once every tool whose requirements
\* are gone has been dropped: the greatest closed subset of R.
Prune(R, req) == {t \in R : \E K \in SUBSET R : t \in K /\ Closed(K, req)}

\* R already holds every tool of D whose requirements R meets.
Saturated(R, D, req) == \A t \in D : req[t] \subseteq R => t \in R

\* What the kept tools K grow to when the declared tools D whose requirements
\* are met are registered: the least saturated superset of K.
Grow(K, D, req) ==
    K \cup {t \in D : \A R \in SUBSET D : Saturated(K \cup R, D, req) => t \in K \cup R}
==============================================================================
