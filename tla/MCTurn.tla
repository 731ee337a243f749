--------------------------------- MODULE MCTurn ---------------------------------
(***************************************************************************)
(* Hooks for model-checking Turn: a guard that decides everywhere it can,  *)
(* an auditor that observes ahead of it and behind it, and an editor of    *)
(* the same priority as the guard.                                         *)
(***************************************************************************)
EXTENDS Turn

CONSTANTS guard, audit, edit

Waterfall(ev, p) == [on |-> ev, waterfall |-> TRUE, priority |-> p]
Observe(ev, p)   == [on |-> ev, waterfall |-> FALSE, priority |-> p]

Hooks ==
    guard :> <<Waterfall(AgentPreStep, 0), Waterfall(AgentRequest, 0),
               Waterfall(ToolsPreExecute, 0)>>
    @@ audit :> <<Observe(TurnEnd, 5), Observe(ToolsPreExecute, -1),
                  Waterfall(ToolCall, 1)>>
    @@ edit :> <<Waterfall(LlmChunk, 0), Waterfall(ToolsPreExecute, 0),
                 Waterfall(AgentRequest, -1)>>
================================================================================
