-------------------------------- MODULE Bridge --------------------------------
(***************************************************************************)
(* One chat session across the Studio bridge of the OpenHanako shell.  The *)
(* page in the iframe keeps a streaming flag for the session; it posts     *)
(* prompts, interjections and Stops to the shell, whose adapter runs one   *)
(* asynchronous handler for each and posts events back; the agent behind   *)
(* the adapter runs the messages it is sent, one at a time.                *)
(*                                                                         *)
(* Left out: HTTP requests (but for the ones that switch sessions), the    *)
(* hello handshake, and the messages that do not bear on the flag:         *)
(* turn_end, errors, the echo of the user's message, tools, reasoning.     *)
(***************************************************************************)
EXTENDS Naturals, Sequences

CONSTANTS None,          \* no stream
          MaxRequests,   \* requests that the page posts, over all its loads
          MaxUpsets      \* switches, calls that fail, timeouts and reloads

ASSUME RequestsAssumption == MaxRequests \in Nat
ASSUME NoneAssumption == None \notin Nat

\* A handler is named by its place among the requests, and a stream by the
\* handler of the prompt that opened it.
Handlers == 1..MaxRequests
Streams  == Handlers \cup {None}

Kinds == {"prompt", "interject", "abort"}

VARIABLES
    flag,       \* the page: streamingSessions has the session
    shown,      \* the page: its entry of activeSessionStreams
    seq,        \* the page: the number of the last request
    pending,    \* the page: the requests that await their response
    over,       \* history: the streams that a page has been told are over
    upsets,     \* how many upsets there have been
    cut,        \* history: one was a timeout or a reload
    posted,     \* how many requests have been posted
    req,        \* the requests, by handler
    down,       \* messages to the page, in order
    pc,         \* where each handler is
    turn,       \* the adapter: the session's entry of activeTurns
    queue,      \* the agent: messages that it runs, the first one now
    spoken      \* the agent: it has said something

page    == <<flag, shown, seq, pending, over>>
shell   == <<pc, turn>>
agent   == <<queue, spoken>>
trouble == <<upsets, cut>>
vars    == <<page, posted, req, down, shell, agent, trouble>>

Message == [rid : Nat, type : {"on", "off", "stopped", "text", "done"},
            stream : Streams]
Request == [kind : Kinds, rid : Nat, stream : Streams]
Steps   == {"none", "posted", "ensure", "busy", "free", "opening",
            "running", "closing", "steer", "cancel", "done"}

TypeOK ==
    /\ flag \in BOOLEAN
    /\ shown \in Streams
    /\ seq \in Nat
    /\ pending \subseteq Nat
    /\ over \subseteq Handlers
    /\ upsets \in Nat /\ cut \in BOOLEAN
    /\ posted \in 0..MaxRequests
    /\ req \in [Handlers -> Request]
    /\ down \in Seq(Message)
    /\ pc \in [Handlers -> Steps]
    /\ turn \in Streams
    /\ queue \in Seq(Handlers)
    /\ spoken \in BOOLEAN

Init ==
    /\ flag = FALSE /\ shown = None /\ seq = 0 /\ pending = {} /\ over = {}
    /\ upsets = 0 /\ cut = FALSE /\ posted = 0
    /\ req = [h \in Handlers |-> [kind |-> "prompt", rid |-> 0, stream |-> None]]
    /\ down = <<>>
    /\ pc = [h \in Handlers |-> "none"]
    /\ turn = None
    /\ queue = <<>> /\ spoken = FALSE

Upset == upsets < MaxUpsets /\ upsets' = upsets + 1

-----------------------------------------------------------------------------
(* The page.                                                               *)

\* StudioSocket.send: the request gets the page's next number.
Post(kind, stream) ==
    /\ posted < MaxRequests
    /\ posted' = posted + 1
    /\ seq' = seq + 1
    /\ pending' = pending \cup {seq'}
    /\ req' = [req EXCEPT ![posted'] =
                  [kind |-> kind, rid |-> seq', stream |-> stream]]
    /\ pc' = [pc EXCEPT ![posted'] = "posted"]
    /\ UNCHANGED <<shown, over, down, turn, agent, trouble>>

\* The page marks the session as streaming without waiting for an answer.
Prompt == ~flag /\ Post("prompt", None) /\ flag' = TRUE

Interject == flag /\ Post("interject", None) /\ UNCHANGED flag

Stop == flag /\ Post("abort", shown) /\ UNCHANGED flag

\* Mutant of Matches: an event that names no stream removes any.
MatchesAny(stream) == shown = None \/ stream = None \/ shown = stream

\* removeStreamingSession: a stream that is known is only removed by name.
Matches(stream) == shown = None \/ shown = stream

\* Mutant of Clear: the entry is emptied and not removed.
ClearEmpties == flag' = FALSE /\ shown' = 0

Clear ==
    /\ flag' = FALSE
    /\ shown' = None

\* removeStreamingSession, and forceRemoveStreamingSession for a Stop that
\* named no stream and found none.
Removes(m) ==
    \/ m.type = "off" /\ Matches(m.stream)
    \/ m.type = "stopped" /\ (m.stream = None \/ Matches(m.stream))

\* applyStreamingStatus.
Apply(m) ==
    \/ /\ m.type = "on"
       /\ flag' = TRUE
       /\ shown' = IF m.stream = None THEN shown ELSE m.stream
    \/ Removes(m) /\ Clear
    \/ m.type # "on" /\ ~Removes(m) /\ UNCHANGED <<flag, shown>>

\* onParentMessage: a response settles its request, and an event is dropped
\* unless its request awaits one.
Deliver ==
    /\ down # <<>>
    /\ down' = Tail(down)
    /\ LET m == Head(down) IN
       IF m.rid \in pending
       THEN /\ Apply(m)
            /\ pending' = IF m.type = "done" THEN pending \ {m.rid} ELSE pending
            /\ over' = IF m.type \in {"off", "stopped"}
                       THEN over \cup ({m.stream} \ {None}) ELSE over
       ELSE UNCHANGED <<flag, shown, pending, over>>
    /\ UNCHANGED <<seq, posted, req, shell, agent, trouble>>

\* The session is left and entered again: the switch route answers that it
\* does not stream, whatever it does.
Switch ==
    /\ flag
    /\ Upset
    /\ Clear
    /\ UNCHANGED <<seq, pending, over, posted, req, down, shell, agent, cut>>

\* rpc: after WS_TIMEOUT_MS the page gives a request up.
Timeout(id) ==
    /\ id \in pending
    /\ Upset /\ cut' = TRUE
    /\ pending' = pending \ {id}
    /\ UNCHANGED <<flag, shown, seq, over, posted, req, down, shell, agent>>

\* The iframe is loaded again, and its numbers start again.  What was on the
\* way to the old page is lost; what the old page posted is not.
Reload ==
    /\ Upset /\ cut' = TRUE
    /\ Clear
    /\ seq' = 0 /\ pending' = {} /\ down' = <<>>
    /\ UNCHANGED <<over, posted, req, shell, agent>>

-----------------------------------------------------------------------------
(* The adapter.                                                            *)

Msg(h, type, stream) == [rid |-> req[h].rid, type |-> type, stream |-> stream]

Done(h) == Msg(h, "done", None)

Emit(messages) == down' = down \o messages

Goto(h, step) == pc' = [pc EXCEPT ![h] = step]

\* Mutant of Push: the session has a turn, whichever it is.
PushAny(h, type) == IF turn # None THEN <<Msg(h, type, h)>> ELSE <<>>

\* push, in a turn: nothing once the turn has lost its token.
Push(h, type) == IF turn = h THEN <<Msg(h, type, h)>> ELSE <<>>

\* Requests arrive in the order in which they were posted.
Arrives(h) ==
    /\ pc[h] = "posted"
    /\ \A g \in Handlers : pc[g] = "posted" => h <= g

Receive(h) ==
    /\ Arrives(h)
    /\ req[h].kind # "abort"
    /\ Goto(h, "ensure")
    /\ UNCHANGED <<page, posted, req, down, turn, agent, trouble>>

Stale(h) == req[h].stream # None /\ turn # None /\ turn # req[h].stream

\* A Stop that names a stream other than the one it finds is refused.
StopStale(h) ==
    /\ Arrives(h)
    /\ req[h].kind = "abort"
    /\ Stale(h)
    /\ Emit(<<Done(h)>>)
    /\ Goto(h, "done")
    /\ UNCHANGED <<page, posted, req, turn, agent, trouble>>

\* Any other takes the token away, says that the stream is over, and then
\* asks the agent.
StopTurn(h) ==
    /\ Arrives(h)
    /\ req[h].kind = "abort"
    /\ ~Stale(h)
    /\ IF turn # None
       THEN Emit(<<Msg(h, "off", turn)>>)
       ELSE Emit(<<Msg(h, "stopped", req[h].stream),
                   Msg(h, "off", req[h].stream)>>)
    /\ turn' = None
    /\ Goto(h, "cancel")
    /\ UNCHANGED <<page, posted, req, agent, trouble>>

\* ensureLive: the session may be gone.
NotLive(h) ==
    /\ pc[h] = "ensure"
    /\ Upset
    /\ Emit(<<Done(h)>>)
    /\ Goto(h, "done")
    /\ UNCHANGED <<page, posted, req, turn, agent, cut>>

\* The agent answers whether it is busy; the handler hears of it later.
List(h) ==
    /\ pc[h] = "ensure"
    /\ req[h].kind = "prompt"
    /\ Goto(h, IF queue = <<>> THEN "free" ELSE "busy")
    /\ UNCHANGED <<page, posted, req, down, turn, agent, trouble>>

\* A listing that fails counts as one that says so.
ListFails(h) ==
    /\ pc[h] = "ensure"
    /\ req[h].kind = "prompt"
    /\ Upset
    /\ Goto(h, "free")
    /\ UNCHANGED <<page, posted, req, down, turn, agent, cut>>

\* session_busy: an error, and no status.
Refuse(h) ==
    /\ pc[h] = "busy"
    /\ Emit(<<Done(h)>>)
    /\ Goto(h, "done")
    /\ UNCHANGED <<page, posted, req, turn, agent, trouble>>

\* activateTurn, and the first events of the turn.
Activate(h) ==
    /\ pc[h] = "free"
    /\ turn' = h
    /\ Emit(<<Msg(h, "on", h)>>)
    /\ Goto(h, "opening")
    /\ UNCHANGED <<page, posted, req, agent, trouble>>

\* sendWithProgress: after the transcript has been read, the handler listens
\* to the agent and sends it the message.
Send(h) ==
    /\ pc[h] = "opening"
    /\ queue' = Append(queue, h)
    /\ Goto(h, "running")
    /\ UNCHANGED <<page, posted, req, down, turn, spoken, trouble>>

SendFails(h) ==
    /\ pc[h] = "opening"
    /\ Upset
    /\ Goto(h, "closing")
    /\ UNCHANGED <<page, posted, req, down, turn, agent, cut>>

\* send_message returns, or throws, when the agent is idle.
Return(h) ==
    /\ pc[h] = "running"
    /\ queue = <<>>
    /\ Goto(h, "closing")
    /\ UNCHANGED <<page, posted, req, down, turn, agent, trouble>>

\* Mutant of Close: the token is never given back.
CloseKeeps(h) ==
    /\ pc[h] = "closing"
    /\ Emit(Push(h, "off") \o <<Done(h)>>)
    /\ Goto(h, "done")
    /\ UNCHANGED <<page, posted, req, turn, agent, trouble>>

\* Mutant of Close: it is given back before the last status is pushed.
CloseEarly(h) ==
    /\ pc[h] = "closing"
    /\ Emit(<<Done(h)>>)
    /\ turn' = IF turn = h THEN None ELSE turn
    /\ Goto(h, "done")
    /\ UNCHANGED <<page, posted, req, agent, trouble>>

\* The last events of the turn, well or not.
Close(h) ==
    /\ pc[h] = "closing"
    /\ Emit(Push(h, "off") \o <<Done(h)>>)
    /\ turn' = IF turn = h THEN None ELSE turn
    /\ Goto(h, "done")
    /\ UNCHANGED <<page, posted, req, agent, trouble>>

\* An interjection has no token: its events name no stream.
Steer(h) ==
    /\ pc[h] = "ensure"
    /\ req[h].kind = "interject"
    /\ Emit(<<Msg(h, "on", None)>>)
    /\ Goto(h, "steer")
    /\ UNCHANGED <<page, posted, req, turn, agent, trouble>>

Steered(h) ==
    /\ pc[h] = "steer"
    /\ Emit(<<Msg(h, "off", None), Done(h)>>)
    /\ Goto(h, "done")
    /\ UNCHANGED <<page, posted, req, turn, agent, trouble>>

-----------------------------------------------------------------------------
(* The agent.                                                              *)

\* studio://chat-partial: any handler that is in send_message hears it, for
\* it names the agent and no turn.  One text is enough to be late.
Speak(h) ==
    /\ queue # <<>> /\ ~spoken
    /\ pc[h] = "running"
    /\ spoken' = TRUE
    /\ Emit(Push(h, "text"))
    /\ UNCHANGED <<page, posted, req, shell, queue, trouble>>

RunEnds ==
    /\ queue # <<>>
    /\ queue' = Tail(queue)
    /\ UNCHANGED <<page, posted, req, down, shell, spoken, trouble>>

\* cancel_agent ends the run it finds, if there is one, or fails.
Cancelled(h) ==
    /\ pc[h] = "cancel"
    /\ \/ /\ queue' = IF queue = <<>> THEN <<>> ELSE Tail(queue)
          /\ UNCHANGED trouble
       \/ Upset /\ UNCHANGED <<queue, cut>>
    /\ Emit(<<Done(h)>>)
    /\ Goto(h, "done")
    /\ UNCHANGED <<page, posted, req, turn, spoken>>

-----------------------------------------------------------------------------
Handle(h) ==
    \/ Receive(h) \/ StopStale(h) \/ StopTurn(h)
    \/ NotLive(h) \/ List(h) \/ ListFails(h) \/ Refuse(h) \/ Activate(h)
    \/ Send(h) \/ SendFails(h) \/ Return(h) \/ Close(h)
    \/ Steer(h) \/ Steered(h) \/ Cancelled(h)

User == Prompt \/ Interject \/ Stop \/ Switch

Next ==
    \/ User
    \/ Deliver
    \/ \E id \in pending : Timeout(id)
    \/ Reload
    \/ \E h \in Handlers : Handle(h) \/ Speak(h)
    \/ RunEnds

\* Messages are delivered, calls are answered and runs of the agent end; the
\* user need do nothing.
Spec ==
    /\ Init /\ [][Next]_vars
    /\ WF_vars(Deliver)
    /\ \A h \in Handlers : WF_vars(Handle(h))
    /\ WF_vars(RunEnds)

-----------------------------------------------------------------------------
(* Properties.                                                             *)

\* The token in activeTurns belongs to a handler that is still in its turn.
\* One left behind by a handler that is gone would refuse every retry and
\* fork of the session from then on.
TokenInUse ==
    turn # None => pc[turn] \in {"opening", "running", "closing"}

\* A page that has been told that a stream is over never hears of it again:
\* no text arrives late and no status revives it, whoever ended it - its own
\* handler, a Stop, or a Stop that came when it had ended by itself.
NothingAfterEnd ==
    [][Deliver /\ Head(down).rid \in pending /\ Head(down).stream \in over
          => Head(down).type \notin {"on", "text"}]_vars

\* An event takes the flag of a stream that is known away only when the
\* adapter is done with that stream: neither the identity-less events of an
\* interjection nor a Stop that named no stream end one that is still live.
ClearedWhenOver ==
    [][Deliver /\ flag /\ shown # None /\ ~flag' => turn # shown]_vars

\* A stream that the page shows comes to its end, however Stops, prompts and
\* interjections cross it, unless a request was timed out or the page loaded
\* again.
ShownEnds == (flag /\ shown # None) ~> (~flag \/ cut)

\* "Roll back optimistic streaming lock on send failure": the session does
\* not stay marked as streaming.  Not so: the refusal of a prompt as
\* session_busy is an error event, which rolls nothing back.
StreamingEnds == flag ~> ~flag
=============================================================================
