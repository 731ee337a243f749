--------------------------- MODULE ToolSync_proofs ---------------------------
(***************************************************************************)
(* The loops of sync_tool_graph compute their closed form, for every set   *)
(* of tools, every table and every dependency graph, cyclic or not.  The   *)
(* lemmas about the closed form itself (what Prune and Grow return) come   *)
(* first: Registry_proofs relies on them too.                              *)
(***************************************************************************)
EXTENDS ToolSync, TLAPS

\* Pruning leaves a closed set of registered tools.
LEMMA PruneClosed ==
    ASSUME NEW R, NEW req
    PROVE  Prune(R, req) \subseteq R /\ Closed(Prune(R, req), req)
<1>1. Prune(R, req) \subseteq R
  BY DEF Prune
<1>2. ASSUME NEW t \in Prune(R, req)
      PROVE  req[t] \subseteq Prune(R, req)
  <2>1. PICK K \in SUBSET R : t \in K /\ Closed(K, req)
    BY <1>2 DEF Prune
  <2>2. K \subseteq Prune(R, req)
    BY <2>1 DEF Prune
  <2>3. QED
    BY <2>1, <2>2 DEF Closed
<1>3. QED
  BY <1>1, <1>2 DEF Closed

\* It is the greatest: every closed set of registered tools survives.
LEMMA PruneGreatest ==
    ASSUME NEW R, NEW req, NEW K \in SUBSET R, Closed(K, req)
    PROVE  K \subseteq Prune(R, req)
BY DEF Prune

\* The kept tools stay, only declared ones are added, and the result is
\* saturated.
LEMMA GrowSaturated ==
    ASSUME NEW K, NEW D, NEW req
    PROVE  /\ K \subseteq Grow(K, D, req)
           /\ Grow(K, D, req) \subseteq K \cup D
           /\ Saturated(Grow(K, D, req), D, req)
<1>1. K \subseteq Grow(K, D, req) /\ Grow(K, D, req) \subseteq K \cup D
  BY DEF Grow
<1>2. ASSUME NEW t \in D, req[t] \subseteq Grow(K, D, req)
      PROVE  t \in Grow(K, D, req)
  <2>1. ASSUME NEW R \in SUBSET D, Saturated(K \cup R, D, req)
        PROVE  t \in K \cup R
    <3>1. Grow(K, D, req) \subseteq K \cup R
      BY <2>1 DEF Grow
    <3>2. QED
      BY <1>2, <2>1, <3>1 DEF Saturated
  <2>2. QED
    BY <2>1 DEF Grow
<1>3. QED
  BY <1>1, <1>2 DEF Saturated

\* It is the least: a saturated table that holds the kept tools holds it.
LEMMA GrowLeast ==
    ASSUME NEW K, NEW D, NEW req, NEW S, K \subseteq S, Saturated(S, D, req)
    PROVE  Grow(K, D, req) \subseteq S
<1> DEFINE R == S \cap D
<1>1. R \in SUBSET D
  OBVIOUS
<1>2. Saturated(K \cup R, D, req)
  BY DEF Saturated
<1>3. ASSUME NEW t \in Grow(K, D, req)
      PROVE  t \in S
  BY <1>1, <1>2, <1>3 DEF Grow
<1>4. QED
  BY <1>3

\* No tool is registered without what it requires: every member of Grow(K)
\* requires only members, provided the kept tools do.
LEMMA GrowClosed ==
    ASSUME NEW K, NEW D, NEW req, Closed(K, req)
    PROVE  Closed(Grow(K, D, req), req)
<1> DEFINE G == Grow(K, D, req)
           S == K \cup {t \in G : req[t] \subseteq G}
<1>1. K \subseteq G
  BY GrowSaturated
<1>2. S \subseteq G
  BY <1>1
<1>3. ASSUME NEW t \in D, req[t] \subseteq S
      PROVE  t \in S
  <2>1. req[t] \subseteq G
    BY <1>2, <1>3
  <2>2. t \in G
    BY <2>1, GrowSaturated DEF Saturated
  <2>3. QED
    BY <2>1, <2>2
<1>4. Saturated(S, D, req)
  BY <1>3 DEF Saturated
<1>5. G \subseteq S
  <2>1. K \subseteq S
    OBVIOUS
  <2> HIDE DEF S
  <2>2. QED
    BY <1>4, <2>1, GrowLeast
<1>6. ASSUME NEW t \in G
      PROVE  req[t] \subseteq G
  BY <1>1, <1>5, <1>6 DEF Closed
<1>7. QED
  BY <1>6 DEF Closed

------------------------------------------------------------------------------
(* The loops.                                                              *)

\* The type invariant of the loops.
THEOREM TypeCorrect == Spec => []TypeOK
<1>1. Init => TypeOK
  BY DEF Init, TypeOK
<1>2. TypeOK /\ [Next]_vars => TypeOK'
  BY DEF TypeOK, Next, vars, RemoveRound, StartAdding, AddRound, Return, Stale, Ready
<1>3. QED
  BY <1>1, <1>2, PTL DEF Spec

LEMMA StaleNotPruned ==
    ASSUME TypeOK, Prune(before, requires) \subseteq registered
    PROVE  Prune(before, requires) \cap Stale = {}
<1>1. ASSUME NEW t \in Prune(before, requires)
      PROVE  requires[t] \subseteq registered
  BY <1>1, PruneClosed DEF Closed
<1>2. QED
  BY <1>1 DEF Stale

\* Between the two loops the table is exactly the pruned one.
LEMMA PrunedWhenNoneStale ==
    ASSUME TypeOK, Stale = {}, registered \subseteq before,
           Prune(before, requires) \subseteq registered
    PROVE  registered = Prune(before, requires)
<1>1. Closed(registered, requires)
  BY DEF Closed, Stale
<1>2. registered \subseteq Prune(before, requires)
  BY <1>1, PruneGreatest
<1>3. QED
  BY <1>2

LEMMA ReadyInReference ==
    ASSUME registered \subseteq Reference
    PROVE  Ready \subseteq Reference
<1>1. ASSUME NEW t \in Ready
      PROVE  t \in Reference
  <2>1. t \in declared /\ requires[t] \subseteq Reference
    BY DEF Ready
  <2>2. QED
    BY <2>1, GrowSaturated DEF Reference, Saturated
<1>2. QED
  BY <1>1

Inv == Bracketed /\ ComputesReference

\* Whatever the table and the graph, sync_tool_graph returns with exactly the
\* tools of the closed form: the greatest closed part of the old table, and
\* the least saturated table above it.
THEOREM SyncComputesReference == Spec => []ComputesReference
<1>1. Init => Inv
  BY PruneClosed DEF Init, Inv, Bracketed, ComputesReference
<1>2. TypeOK /\ Inv /\ [Next]_vars => Inv'
  <2> SUFFICES ASSUME TypeOK, Inv, [Next]_vars
               PROVE  Inv'
    OBVIOUS
  <2> USE DEF Inv
  <2>1. CASE RemoveRound
    BY <2>1, StaleNotPruned DEF RemoveRound, Bracketed, ComputesReference
  <2>2. CASE StartAdding
    <3>1. registered = Prune(before, requires)
      BY <2>2, PrunedWhenNoneStale DEF StartAdding, Bracketed
    <3>2. registered \subseteq Reference
      BY <3>1, GrowSaturated DEF Reference
    <3>3. QED
      BY <2>2, <3>1, <3>2 DEF StartAdding, Bracketed, ComputesReference, Reference
  <2>3. CASE AddRound
    <3>1. registered \subseteq Reference
      BY <2>3 DEF AddRound, Bracketed
    <3>2. QED
      BY <2>3, <3>1, ReadyInReference
      DEF AddRound, Bracketed, ComputesReference, Reference
  <2>4. CASE Return
    <3>1. /\ registered \subseteq Reference
          /\ Prune(before, requires) \subseteq registered
      BY <2>4 DEF Return, Bracketed
    <3>2. Saturated(registered, declared, requires)
      BY <2>4 DEF Return, Ready, Saturated
    <3>3. Reference \subseteq registered
      BY <3>1, <3>2, GrowLeast DEF Reference
    <3>4. QED
      BY <2>4, <3>1, <3>3 DEF Return, Bracketed, ComputesReference, Reference
  <2>5. CASE UNCHANGED vars
    BY <2>5 DEF vars, Bracketed, ComputesReference, Reference
  <2>6. QED
    BY <2>1, <2>2, <2>3, <2>4, <2>5 DEF Next
<1>3. QED
  BY <1>1, <1>2, TypeCorrect, PTL DEF Spec, Inv
==============================================================================
