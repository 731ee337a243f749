---------------------------------- MODULE Turn ----------------------------------
(***************************************************************************)
(* One turn of the agent flow and the hooks that plugins enter it with     *)
(* (host/src/flow.rs, host/src/hooks.rs and Registry::dispatch).           *)
(*                                                                         *)
(* A turn dispatches one event after the other.  The subscribers of an     *)
(* event run in turn, each with the value as rewritten so far, and may     *)
(* rewrite it or veto the step - if they are waterfall hooks and the event *)
(* allows it.  A hook that fails, or whose reply is not a decision, counts *)
(* as `continue`.                                                          *)
(*                                                                         *)
(* Which plugins subscribe changes only between turns: run_turn borrows    *)
(* the registry.  What a value says is left out, but for who rewrote it    *)
(* last; the number of tool calls that the reply asks for is arbitrary.    *)
(***************************************************************************)
EXTENDS Integers, Sequences, SequencesExt, FiniteSets

CONSTANTS
    Slots,
    Decl,           \* Decl[s]: the hooks that the plugin of slot s declares
    MaxCalls,       \* bound on the tool calls of one reply
    Original        \* a value that nobody has rewritten

TurnStart        == "turn/start"
AgentPreStep     == "agent/pre-step"
AgentRequest     == "agent/request"
LlmChunk         == "assistant/chunk"
AssistantMessage == "assistant/message"
ToolCall         == "tool/call"
ToolsPreExecute  == "tools/pre-execute"
ToolResult       == "tool/result"
AgentTurnStopping == "agent/turn-stopping"
TurnEnd          == "turn/end"

\* The events that run_turn dispatches; the other three of the vocabulary are
\* dispatched by the dsh host.
Events == {TurnStart, AgentPreStep, AgentRequest, LlmChunk, AssistantMessage,
           ToolCall, ToolsPreExecute, ToolResult, AgentTurnStopping, TurnEnd}

Hook == [on : Events, waterfall : BOOLEAN, priority : Int]

ASSUME HooksAssumption == Decl \in [Slots -> Seq(Hook)]
ASSUME TurnAssumption == MaxCalls \in Nat /\ Original \notin Slots

AllowsRewrite == {AgentPreStep, AgentRequest, LlmChunk, ToolsPreExecute, ToolResult}
AllowsVeto    == {AgentPreStep, AgentRequest, ToolsPreExecute}

Replies == {"continue", "rewrite", "veto", "error"}

\* A subscription: the k-th hook of a slot.
Subscription == UNION {{s} \X DOMAIN Decl[s] : s \in Slots}
HookOf(sub) == Decl[sub[1]][sub[2]]

VARIABLES
    subs,           \* Hooks.subs
    stage,          \* the event being dispatched, "model", "tool", or "idle"
    queue,          \* the subscribers of the event that have still to run
    value,          \* who rewrote the value in flight last
    vetoed_by,      \* the subscriber that vetoed, or Original
    calls,          \* tool calls of the reply that are still to be made
    registered,     \* history: the active slots, in the order they registered
    replies,        \* history: the replies to this event so far
    refused         \* history: the events that were vetoed in this turn

dispatching == <<stage, queue, value, vetoed_by, replies>>
vars == <<subs, dispatching, calls, registered, refused>>

TypeOK ==
    /\ subs \in Seq(Subscription)
    /\ stage \in Events \cup {"idle", "model", "tool"}
    /\ queue \in Seq(Subscription)
    /\ value \in Slots \cup {Original}
    /\ vetoed_by \in Slots \cup {Original}
    /\ calls \in 0..MaxCalls
    /\ registered \in Seq(Slots)
    /\ replies \in Seq(Subscription \X Replies)
    /\ refused \in SUBSET AllowsVeto

Init ==
    /\ subs = <<>> /\ registered = <<>>
    /\ stage = "idle"
    /\ queue = <<>> /\ replies = <<>>
    /\ value = Original /\ vetoed_by = Original
    /\ calls = 0
    /\ refused = {}

------------------------------------------------------------------------------
(* Subscribing.                                                            *)

Subscriptions(s) == [k \in DOMAIN Decl[s] |-> <<s, k>>]

\* Mutant of ByPriority: the hooks are kept as they were registered.
AsRegistered(seq) == seq

\* The elements of seq at the positions of D, in the order R of these.
Arranged(seq, D, R) ==
    [n \in 1..Cardinality(D) |->
        seq[CHOOSE i \in D : Cardinality({j \in D : <<j, i>> \in R}) = n - 1]]

\* sort_by_key on the priority, which is stable.
ByPriority(seq) ==
    LET D == DOMAIN seq
        p(i) == HookOf(seq[i]).priority
    IN  Arranged(seq, D, {ij \in D \X D : \/ p(ij[1]) < p(ij[2])
                                          \/ p(ij[1]) = p(ij[2]) /\ ij[1] < ij[2]})

\* retain and filter: what is at the positions of D stays, in its order.
Keep(seq, D) == Arranged(seq, D, {ij \in D \X D : ij[1] < ij[2]})

\* Hooks::add_slot, when the slot becomes active.
AddSlot(s) ==
    /\ stage = "idle"
    /\ s \notin ToSet(registered)
    /\ subs' = ByPriority(subs \o Subscriptions(s))
    /\ registered' = Append(registered, s)
    /\ UNCHANGED <<dispatching, calls, refused>>

\* Hooks::remove_slot, when it is deactivated.
RemoveSlot(s) ==
    /\ stage = "idle"
    /\ s \in ToSet(registered)
    /\ subs' = Keep(subs, {i \in DOMAIN subs : subs[i][1] # s})
    /\ registered' = Keep(registered, {i \in DOMAIN registered : registered[i] # s})
    /\ UNCHANGED <<dispatching, calls, refused>>

------------------------------------------------------------------------------
(* Dispatching an event.                                                   *)

Subscribers(ev) == Keep(subs, {i \in DOMAIN subs : HookOf(subs[i]).on = ev})

Dispatch(ev) ==
    /\ stage' = ev
    /\ queue' = Subscribers(ev)
    /\ value' = Original
    /\ vetoed_by' = Original
    /\ replies' = <<>>

\* Mutant of Vetoes: a hook that fails stops the step.
VetoesOnError(sub, reply) ==
    stage \in AllowsVeto /\ HookOf(sub).waterfall /\ reply \in {"veto", "error"}

Rewrites(sub, reply) ==
    stage \in AllowsRewrite /\ HookOf(sub).waterfall /\ reply = "rewrite"
Vetoes(sub, reply) ==
    stage \in AllowsVeto /\ HookOf(sub).waterfall /\ reply = "veto"

\* The next subscriber runs; a veto ends the dispatch.
Ask(reply) ==
    LET sub == Head(queue) IN
    /\ queue # <<>>
    /\ value' = IF Rewrites(sub, reply) THEN sub[1] ELSE value
    /\ IF Vetoes(sub, reply)
       THEN queue' = <<>> /\ vetoed_by' = sub[1] /\ refused' = refused \cup {stage}
       ELSE queue' = Tail(queue) /\ UNCHANGED <<vetoed_by, refused>>
    /\ replies' = Append(replies, <<sub, reply>>)
    /\ UNCHANGED <<subs, stage, calls, registered>>

------------------------------------------------------------------------------
(* run_turn.                                                               *)

Dispatched(ev) == stage = ev /\ queue = <<>>
Accepted == vetoed_by = Original

Begin ==
    /\ stage = "idle"
    /\ Dispatch(TurnStart)
    /\ UNCHANGED <<subs, calls, registered, refused>>

Then(ev, next) ==
    /\ Dispatched(ev)
    /\ Dispatch(next)
    /\ UNCHANGED <<subs, calls, registered, refused>>

Run(ev, body) ==
    /\ Dispatched(ev)
    /\ stage' = body
    /\ UNCHANGED <<subs, queue, value, vetoed_by, calls, registered, replies, refused>>

PreStep    == Then(TurnStart, AgentPreStep)
PreStepAccepted == Accepted /\ Then(AgentPreStep, AgentRequest)
PreStepVetoed == ~Accepted /\ Then(AgentPreStep, TurnEnd)

\* vetoed_by is not looked at.
Request == Run(AgentRequest, "model")

ModelReplies ==
    /\ stage = "model"
    /\ Dispatch(LlmChunk)
    /\ UNCHANGED <<subs, calls, registered, refused>>

Close ==
    /\ stage' = "idle"
    /\ queue' = <<>> /\ replies' = <<>>
    /\ value' = Original /\ vetoed_by' = Original
    /\ calls' = 0
    /\ refused' = {}
    /\ UNCHANGED <<subs, registered>>

\* An error of the model is returned at once.
ModelFails == stage = "model" /\ Close

\* The tool calls are those of the text as rewritten.
Chunk ==
    /\ Dispatched(LlmChunk)
    /\ Dispatch(AssistantMessage)
    /\ calls' \in 0..MaxCalls
    /\ UNCHANGED <<subs, registered, refused>>

CallsLeft(ev) == ev \in {AssistantMessage, ToolResult} /\ Dispatched(ev)

NextCall ==
    /\ CallsLeft(stage)
    /\ calls > 0
    /\ calls' = calls - 1
    /\ Dispatch(ToolCall)
    /\ UNCHANGED <<subs, registered, refused>>

PreExecute == Then(ToolCall, ToolsPreExecute)

\* Mutant of PreExecuteAccepted: the veto is not looked at.
PreExecuteUnchecked == Run(ToolsPreExecute, "tool")

PreExecuteAccepted == Accepted /\ Run(ToolsPreExecute, "tool")

\* Mutant of PreExecuteVetoed: the turn returns without turn/end.
PreExecuteVetoedSilently == ~Accepted /\ Dispatched(ToolsPreExecute) /\ Close

\* A refused call ends the turn; calls that are left are dropped.
PreExecuteVetoed ==
    /\ ~Accepted
    /\ Dispatched(ToolsPreExecute)
    /\ Dispatch(TurnEnd)
    /\ calls' = 0
    /\ UNCHANGED <<subs, registered, refused>>

\* The body runs; an error of it is a result like any other.
Execute ==
    /\ stage = "tool"
    /\ Dispatch(ToolResult)
    /\ UNCHANGED <<subs, calls, registered, refused>>

Stopping ==
    /\ CallsLeft(stage)
    /\ calls = 0
    /\ Dispatch(AgentTurnStopping)
    /\ UNCHANGED <<subs, calls, registered, refused>>

End    == Then(AgentTurnStopping, TurnEnd)
Return == Dispatched(TurnEnd) /\ Close

Flow ==
    \/ PreStep \/ PreStepAccepted \/ PreStepVetoed \/ Request
    \/ ModelReplies \/ ModelFails \/ Chunk \/ NextCall \/ PreExecute
    \/ PreExecuteAccepted \/ PreExecuteVetoed \/ Execute
    \/ Stopping \/ End \/ Return

Next ==
    \/ \E s \in Slots : AddSlot(s) \/ RemoveSlot(s)
    \/ \E reply \in Replies : Ask(reply)
    \/ Begin \/ Flow

\* Every hook, every tool and the model answer, well or not.
Fairness == WF_vars(Flow) /\ WF_vars(\E reply \in Replies : Ask(reply))

Spec == Init /\ [][Next]_vars /\ Fairness

------------------------------------------------------------------------------
(* Properties.                                                             *)

Before(r, s) ==
    \E i, j \in DOMAIN registered : i < j /\ registered[i] = r /\ registered[j] = s

\* The subscribers are those of the active slots, by priority and among equals
\* by registration, however slots came and went: one that is reloaded goes
\* behind its equals, and nobody else's place changes.
SubsInOrder ==
    /\ ToSet(subs) = UNION {ToSet(Subscriptions(s)) : s \in ToSet(registered)}
    /\ \A i, j \in DOMAIN subs : i < j =>
          LET p == HookOf(subs[i]).priority
              q == HookOf(subs[j]).priority
          IN  \/ p < q
              \/ p = q /\ Before(subs[i][1], subs[j][1])
              \/ p = q /\ subs[i][1] = subs[j][1] /\ subs[i][2] < subs[j][2]

Asked == [i \in DOMAIN replies |-> replies[i][1]]

\* The replies of waterfall hooks that decide on r.
Deciding(r) ==
    {i \in DOMAIN replies : HookOf(replies[i][1]).waterfall /\ replies[i][2] = r}

\* A dispatch passes the value through the subscribers in order and ends at the
\* first veto: the value is the last rewrite of a waterfall hook, no hook that
\* observes or fails changes it, and an event that allows neither keeps its
\* value and reaches everyone.
DispatchAccounts ==
    stage \in Events =>
        /\ IF vetoed_by = Original
           THEN Asked \o queue = Subscribers(stage)
           ELSE /\ IsPrefix(Asked, Subscribers(stage))
                /\ Deciding("veto") = {Len(replies)}
                /\ vetoed_by = Last(replies)[1][1]
        /\ stage \in AllowsVeto /\ Deciding("veto") # {} => vetoed_by # Original
        /\ value = IF stage \in AllowsRewrite /\ Deciding("rewrite") # {}
                   THEN replies[Max(Deciding("rewrite"))][1][1]
                   ELSE Original

\* A tool body runs only when every subscriber of tools/pre-execute has been
\* asked about this very call and no waterfall hook vetoed it, and neither the
\* model nor a tool runs in a turn whose step was vetoed or after a vetoed call.
GatesHold ==
    /\ stage = "tool" => Asked = Subscribers(ToolsPreExecute) /\ Deciding("veto") = {}
    /\ stage \in {"model", "tool"} => refused \subseteq {AgentRequest}

\* A turn that is vetoed at a gate, or whose model has answered, comes to
\* turn/end: plugins that follow turns are not left with one that never closes.
TurnEnds ==
    (stage = LlmChunk \/ refused \cap {AgentPreStep, ToolsPreExecute} # {})
        ~> (stage = TurnEnd)

\* hooks.rs, event vocabulary: agent/request, before the model is called, may
\* be vetoed, and a veto stops the step.
VetoStopsRequest == stage = "model" => AgentRequest \notin refused
================================================================================
