----------------------------- MODULE Bridge_proofs -----------------------------
(***************************************************************************)
(* Proofs about the bridge, for any number of requests and of upsets: its  *)
(* state stays well-formed, no token outlives its turn, a page that was    *)
(* told that a stream is over hears no more of it, and no event clears the *)
(* flag of a stream that is still live.  The argument is about the order   *)
(* of the messages on the way to the page.                                 *)
(***************************************************************************)
EXTENDS Bridge, SequenceTheorems, TLAPS

USE RequestsAssumption, NoneAssumption

\* A handler that has come as far as taking the token, or is done without.
After == {"opening", "running", "closing", "done"}

Opened(h) == pc[h] \in After

\* A stream that will have nothing more to say.
Sealed(h) == Opened(h) /\ turn # h

Tells(m, h) == m.stream = h /\ m.type \in {"on", "text"}

Ends(m, h) == m.stream = h /\ m.type \in {"off", "stopped"}

\* A Stop that named no stream, and found none.
Blind(m) == m.type = "stopped" /\ m.stream = None

\* Requests that have not been posted have no handler, and every stream that
\* is named anywhere but on the way to the page was opened.
Named ==
    /\ \A h \in Handlers : h > posted => pc[h] = "none"
    /\ shown # None => Opened(shown)
    /\ \A h \in Handlers : req[h].stream # None => Opened(req[h].stream)

\* So was every one on the way.
NamedDown ==
    \A i \in 1..Len(down) : down[i].stream # None => Opened(down[i].stream)

\* Of a stream that the page knows is over, nothing is on the way.
OverSealed ==
    \A s \in over : Sealed(s) /\ \A i \in 1..Len(down) : ~Tells(down[i], s)

\* Nothing is on the way behind the end of a stream.
EndsSealed ==
    \A i \in 1..Len(down) : \A s \in Handlers :
        Ends(down[i], s) =>
            Sealed(s) /\ \A j \in 1..Len(down) : j > i => ~Tells(down[j], s)

\* The page cannot know the live stream before it has received a blind Stop
\* that is on the way: that stream is younger.
Fenced ==
    \A i \in 1..Len(down) :
        Blind(down[i]) /\ turn # None =>
            /\ shown # turn
            /\ \A j \in 1..Len(down) : j < i => ~Tells(down[j], turn)

Channel == NamedDown /\ OverSealed /\ EndsSealed /\ Fenced

IInv == TypeOK /\ TokenInUse /\ Named /\ Channel

-----------------------------------------------------------------------------
(* Types.                                                                  *)

LEMMA MsgTyped ==
    ASSUME TypeOK, NEW h \in Handlers, NEW s \in Streams,
           NEW type \in {"on", "off", "stopped", "text", "done"}
    PROVE  /\ Msg(h, type, s) \in Message
           /\ Msg(h, type, s).stream = s
           /\ Msg(h, type, s).type = type
  BY DEF TypeOK, Msg, Message, Request

LEMMA PushTyped ==
    ASSUME TypeOK, NEW h \in Handlers, NEW type \in {"off", "text"}
    PROVE  Push(h, type) \in Seq(Message)
  BY MsgTyped DEF Push, Streams

LEMMA EmitTyped ==
    ASSUME TypeOK, NEW ms \in Seq(Message), Emit(ms)
    PROVE  down' \in Seq(Message)
  BY ConcatProperties DEF TypeOK, Emit

LEMMA GotoTyped ==
    ASSUME TypeOK, NEW h \in Handlers, NEW step \in Steps, Goto(h, step)
    PROVE  /\ pc' \in [Handlers -> Steps]
           /\ pc'[h] = step
           /\ \A g \in Handlers : g # h => pc'[g] = pc[g]
  BY DEF TypeOK, Goto

LEMMA PostTyped ==
    ASSUME TypeOK, NEW kind \in Kinds, NEW s \in Streams, Post(kind, s)
    PROVE  /\ posted' = posted + 1 /\ posted' \in Handlers
           /\ seq' \in Nat /\ pending' \subseteq Nat
           /\ req' \in [Handlers -> Request]
           /\ req'[posted'].stream = s
           /\ \A g \in Handlers : g # posted' => req'[g] = req[g]
           /\ pc' \in [Handlers -> Steps]
           /\ pc'[posted'] = "posted"
           /\ \A g \in Handlers : g # posted' => pc'[g] = pc[g]
<1>1. posted' = posted + 1 /\ posted' \in Handlers /\ seq' \in Nat
  BY DEF TypeOK, Post, Handlers
<1>2. [kind |-> kind, rid |-> seq', stream |-> s] \in Request
  BY <1>1 DEF Request
<1> QED
  BY <1>1, <1>2 DEF TypeOK, Post, Steps

LEMMA HeadTyped ==
    ASSUME TypeOK, down # <<>>
    PROVE  /\ Head(down) \in Message
           /\ Tail(down) \in Seq(Message)
           /\ Len(down) \in Nat \ {0}
           /\ Len(Tail(down)) = Len(down) - 1
           /\ Head(down) = down[1]
           /\ \A i \in 1..Len(Tail(down)) : Tail(down)[i] = down[i + 1]
  BY HeadTailProperties, EmptySeq DEF TypeOK

\* Delivery only moves the page and the first message.
LEMMA DeliverTyped ==
    ASSUME TypeOK, Deliver
    PROVE  TypeOK'
<1> DEFINE m == Head(down)
<1>1. m \in Message /\ Tail(down) \in Seq(Message)
  BY HeadTyped DEF Deliver
<1>2. flag' \in BOOLEAN /\ shown' \in Streams
  BY <1>1 DEF TypeOK, Deliver, Apply, Clear, Message, Streams
<1>3. pending' \subseteq Nat /\ over' \subseteq Handlers
  BY <1>1 DEF TypeOK, Deliver, Message, Streams
<1> QED
  BY <1>1, <1>2, <1>3 DEF TypeOK, Deliver, shell, agent, trouble

LEMMA PageTyped ==
    ASSUME TypeOK, User \/ (\E id \in pending : Timeout(id)) \/ Reload
    PROVE  TypeOK'
<1>1. CASE Prompt \/ Interject \/ Stop
  <2>1. PICK kind \in Kinds, s \in Streams : Post(kind, s)
    BY <1>1 DEF Prompt, Interject, Stop, Kinds, Streams, TypeOK
  <2>2. flag' \in BOOLEAN
    BY <1>1 DEF TypeOK, Prompt, Interject, Stop
  <2>3. posted' \in 0..MaxRequests
    BY <2>1, PostTyped DEF Handlers
  <2> QED
    BY <2>1, <2>2, <2>3, PostTyped DEF TypeOK, Post, agent, trouble
<1>2. ASSUME Clear PROVE flag' \in BOOLEAN /\ shown' \in Streams
  BY <1>2 DEF Clear, Streams
<1>3. CASE Switch
  BY <1>2, <1>3 DEF TypeOK, Switch, Upset, shell, agent
<1>4. CASE \E id \in pending : Timeout(id)
  BY <1>4 DEF TypeOK, Timeout, Upset, shell, agent
<1>5. CASE Reload
  BY <1>2, <1>5, EmptySeq DEF TypeOK, Reload, Upset, shell, agent
<1> QED
  BY <1>1, <1>3, <1>4, <1>5 DEF User

\* What every step of a handler has in common.
LEMMA HandlerTyped ==
    ASSUME TypeOK, NEW h \in Handlers, NEW step \in Steps, Goto(h, step),
           NEW ms \in Seq(Message), Emit(ms),
           turn' \in Streams, queue' \in Seq(Handlers),
           upsets' \in Nat, UNCHANGED <<page, posted, req, spoken, cut>>
    PROVE  TypeOK'
  BY EmitTyped, GotoTyped DEF TypeOK, page

-----------------------------------------------------------------------------
(* A step of a handler moves the handler and emits messages.  Text and the *)
(* news of a stream are those of the turn in force, and the end of a       *)
(* stream is that of a turn no longer in force.                            *)

Fair(h, step, ms) ==
    /\ pc[h] # "none" /\ Goto(h, step) /\ Emit(ms)
    /\ Opened(h) => step \in After
    /\ \/ turn' = turn /\ (turn = h => step \in {"opening", "running", "closing"})
       \/ turn' = None
       \/ turn' = h /\ ~Opened(h) /\ step = "opening"
    /\ \A k \in 1..Len(ms) :
          /\ ms[k].stream # None => Opened(ms[k].stream) \/ ms[k].stream = turn'
          /\ \A s \in Handlers : Tells(ms[k], s) => turn' = s
          /\ \A s \in Handlers : Ends(ms[k], s) => turn' # s /\ Opened(s)
          /\ Blind(ms[k]) => turn' = None
    /\ queue' \in Seq(Handlers) /\ upsets' \in Nat /\ spoken' \in BOOLEAN
    /\ UNCHANGED <<page, posted, req, cut>>

LEMMA FairTyped ==
    ASSUME TypeOK, NEW h \in Handlers, NEW step \in Steps,
           NEW ms \in Seq(Message), Fair(h, step, ms)
    PROVE  TypeOK'
<1>1. turn' \in Streams
  BY DEF TypeOK, Fair, Streams
<1> QED
  BY <1>1, EmitTyped, GotoTyped DEF TypeOK, Fair, page

\* Handlers that have opened stay so, and a sealed stream stays sealed.
LEMMA FairOpened ==
    ASSUME TypeOK, TokenInUse, NEW h \in Handlers, NEW step \in Steps,
           NEW ms \in Seq(Message), Fair(h, step, ms)
    PROVE  /\ \A g \in Handlers : Opened(g) => Opened(g)'
           /\ \A g \in Handlers : Sealed(g) => Sealed(g)'
           /\ turn' # None => turn' \in Handlers /\ pc'[turn'] \in After
           /\ TokenInUse'
<1>1. \A g \in Handlers : Opened(g) => Opened(g)'
  BY GotoTyped DEF Fair, Opened
<1>2. TokenInUse'
  BY GotoTyped DEF TypeOK, TokenInUse, Fair, Streams
<1>3. turn' # None => turn' \in Handlers /\ pc'[turn'] \in After
  BY <1>2, FairTyped DEF TypeOK, TokenInUse, After, Streams
<1>4. \A g \in Handlers : Sealed(g) => Sealed(g)'
  BY <1>1 DEF Sealed, Fair, Handlers
<1> QED
  BY <1>1, <1>2, <1>3, <1>4

\* A message on the way after the step was there before or is one of ms.
LEMMA FairIndex ==
    ASSUME TypeOK, NEW h, NEW step, NEW ms \in Seq(Message), Fair(h, step, ms)
    PROVE  /\ Len(down) \in Nat /\ Len(ms) \in Nat
           /\ Len(down)' = Len(down) + Len(ms)
           /\ \A i \in 1..Len(down) : down'[i] = down[i]
           /\ \A i \in 1..Len(down') : i \notin 1..Len(down) =>
                 i - Len(down) \in 1..Len(ms) /\ down'[i] = ms[i - Len(down)]
<1>1. Len(down) \in Nat /\ Len(ms) \in Nat
  BY LenProperties DEF TypeOK
<1> QED
  BY <1>1, ConcatProperties DEF TypeOK, Fair, Emit

LEMMA FairKeeps ==
    ASSUME IInv, NEW h \in Handlers, NEW step \in Steps,
           NEW ms \in Seq(Message), Fair(h, step, ms)
    PROVE  IInv'
<1> USE DEF IInv, Channel
<1>1. TypeOK' /\ TokenInUse'
  BY FairTyped, FairOpened
<1>2. /\ shown' = shown /\ over' = over /\ posted' = posted /\ req' = req
      /\ over \subseteq Handlers /\ shown \in Streams
  BY DEF TypeOK, Fair, page
<1>3. Named'
  <2>1. \A g \in Handlers : g > posted => pc'[g] = "none"
    BY GotoTyped DEF Named, Fair
  <2>2. \A g \in Handlers : req[g].stream \in Streams
    BY DEF TypeOK, Request
  <2> QED
    BY <1>2, <2>1, <2>2, FairOpened DEF Named, Streams, Opened
<1>4. ASSUME NEW i \in 1..Len(down')
      PROVE  \/ i \in 1..Len(down) /\ down'[i] = down[i] /\ down[i] \in Message
             \/ i \notin 1..Len(down) /\ \E k \in 1..Len(ms) :
                    k = i - Len(down) /\ down'[i] = ms[k] /\ ms[k] \in Message
  BY FairIndex, ElementOfSeq DEF TypeOK
<1>5. NamedDown'
  <2> SUFFICES ASSUME NEW i \in 1..Len(down'), down'[i].stream # None
               PROVE  pc'[down'[i].stream] \in After
    BY DEF NamedDown, Opened
  <2>1. down'[i].stream \in Handlers
    BY <1>4 DEF Message, Streams
  <2>2. Opened(down'[i].stream) \/ down'[i].stream = turn'
    BY <1>4 DEF NamedDown, Fair
  <2> QED
    BY <2>1, <2>2, FairOpened DEF Opened
<1>6. OverSealed'
  <2> SUFFICES ASSUME NEW s \in over
               PROVE  Sealed(s)' /\ \A i \in 1..Len(down') : ~Tells(down'[i], s)
    BY <1>2 DEF OverSealed, Sealed, Opened, Tells
  <2>1. s \in Handlers /\ Sealed(s)'
    BY <1>2, FairOpened DEF OverSealed
  <2>2. \A i \in 1..Len(down') : ~Tells(down'[i], s)
    BY <1>4, <2>1 DEF OverSealed, Fair, Sealed
  <2> QED
    BY <2>1, <2>2
<1>7. EndsSealed'
  <2> SUFFICES ASSUME NEW i \in 1..Len(down'), NEW s \in Handlers, Ends(down'[i], s)
               PROVE  /\ Sealed(s)'
                      /\ \A j \in 1..Len(down') : j > i => ~Tells(down'[j], s)
    BY DEF EndsSealed, Sealed, Opened, Tells, Ends
  <2>1. Sealed(s)'
    <3>1. CASE i \in 1..Len(down)
      BY <1>4, <3>1, FairOpened DEF EndsSealed
    <3>2. CASE i \notin 1..Len(down)
      BY <1>4, <3>2, FairOpened DEF Fair, Sealed
    <3> QED
      BY <3>1, <3>2
  <2>2. ASSUME NEW j \in 1..Len(down'), j > i PROVE ~Tells(down'[j], s)
    <3>1. CASE j \in 1..Len(down)
      <4>1. i \in 1..Len(down)
        BY <2>2, <3>1, FairIndex
      <4> QED
        BY <1>4, <2>2, <3>1, <4>1 DEF EndsSealed
    <3>2. CASE j \notin 1..Len(down)
      BY <1>4, <2>1, <3>2 DEF Fair, Sealed
    <3> QED
      BY <3>1, <3>2
  <2> QED
    BY <2>1, <2>2
<1>8. Fenced'
  <2> SUFFICES ASSUME NEW i \in 1..Len(down'), Blind(down'[i]), turn' # None
               PROVE  /\ shown' # turn'
                      /\ \A j \in 1..Len(down') : j < i => ~Tells(down'[j], turn')
    BY DEF Fenced, Blind, Tells
  <2>1. i \in 1..Len(down) /\ down'[i] = down[i]
    BY <1>4 DEF Fair
  <2>2. \A j \in 1..Len(down') : j < i => j \in 1..Len(down) /\ down'[j] = down[j]
    BY <1>4, <2>1, FairIndex
  <2>3. CASE turn' = turn
    BY <1>2, <2>1, <2>2, <2>3 DEF Fenced
  <2>4. CASE turn' = h /\ ~Opened(h)
    BY <1>2, <2>2, <2>4 DEF Named, NamedDown, Tells
  <2> QED
    BY <2>3, <2>4 DEF Fair
<1> QED
  BY <1>1, <1>3, <1>5, <1>6, <1>7, <1>8

\* The messages of a step, by how many there are.
LEMMA OneMessage ==
    ASSUME NEW m \in Message
    PROVE  <<m>> \in Seq(Message) /\ Len(<<m>>) = 1 /\ <<m>>[1] = m
  OBVIOUS

LEMMA TwoMessages ==
    ASSUME NEW m \in Message, NEW n \in Message
    PROVE  /\ <<m, n>> \in Seq(Message) /\ Len(<<m, n>>) = 2
           /\ <<m, n>>[1] = m /\ <<m, n>>[2] = n
           /\ <<m>> \o <<n>> = <<m, n>>
<1>1. <<m, n>> \in Seq(Message) /\ Len(<<m, n>>) = 2 /\ <<m, n>>[1] = m /\ <<m, n>>[2] = n
  OBVIOUS
<1>2. /\ <<m>> \o <<n>> \in Seq(Message)
      /\ Len(<<m>> \o <<n>>) = 2
      /\ (<<m>> \o <<n>>)[1] = m /\ (<<m>> \o <<n>>)[2] = n
  BY OneMessage, ConcatProperties
<1>3. \A i \in 1..2 : (<<m>> \o <<n>>)[i] = <<m, n>>[i]
  BY <1>1, <1>2
<1> QED
  BY <1>1, <1>2, <1>3, SeqEqual

LEMMA DoneTyped ==
    ASSUME TypeOK, NEW h \in Handlers
    PROVE  /\ Done(h) \in Message
           /\ Done(h).stream = None /\ Done(h).type = "done"
  BY MsgTyped DEF Done, Streams

\* Steps that say nothing.
LEMMA SilentKeeps ==
    ASSUME IInv, NEW h \in Handlers,
           Receive(h) \/ List(h) \/ ListFails(h) \/ Send(h) \/ SendFails(h) \/ Return(h)
    PROVE  IInv'
<1> USE DEF IInv
<1>1. down \o <<>> = down /\ <<>> \in Seq(Message) /\ Len(<<>>) = 0
  BY ConcatEmptySeq, EmptySeq DEF TypeOK
<1>2. queue' \in Seq(Handlers) /\ upsets' \in Nat /\ spoken' \in BOOLEAN
  <2>1. queue' = queue \/ queue' = Append(queue, h)
    BY DEF Receive, List, ListFails, Send, SendFails, Return, agent
  <2>2. upsets' = upsets \/ upsets' = upsets + 1
    BY DEF Receive, List, ListFails, Send, SendFails, Return, Upset, trouble
  <2>3. spoken' = spoken
    BY DEF Receive, List, ListFails, Send, SendFails, Return, agent
  <2>4. queue' \in Seq(Handlers)
    BY <2>1, AppendProperties DEF TypeOK
  <2> QED
    BY <2>2, <2>3, <2>4 DEF TypeOK
<1>3. PICK step \in {"ensure", "free", "busy", "running", "closing"} :
          /\ Goto(h, step) /\ pc[h] # "none"
          /\ Opened(h) => step \in {"running", "closing"}
  BY DEF Receive, Arrives, List, ListFails, Send, SendFails, Return, Opened, After
<1>4. /\ turn' = turn /\ down' = down
      /\ UNCHANGED <<page, posted, req, cut>>
  BY DEF Receive, List, ListFails, Send, SendFails, Return, trouble
<1>5. turn = h => Opened(h)
  BY DEF TokenInUse, Opened, After, Handlers
<1>6. Fair(h, step, <<>>)
  BY <1>1, <1>2, <1>3, <1>4, <1>5 DEF Fair, Emit, After
<1> QED
  BY <1>1, <1>3, <1>6, FairKeeps DEF Steps

\* Steps that only answer the request.
LEMMA AnswerKeeps ==
    ASSUME IInv, NEW h \in Handlers,
           StopStale(h) \/ NotLive(h) \/ Refuse(h) \/ Cancelled(h)
    PROVE  IInv'
<1> USE DEF IInv
<1>1. queue' \in Seq(Handlers) /\ upsets' \in Nat /\ spoken' \in BOOLEAN
  <2>1. \/ queue' = queue
        \/ queue' = IF queue = <<>> THEN <<>> ELSE Tail(queue)
    BY DEF StopStale, NotLive, Refuse, Cancelled, agent
  <2>2. upsets' = upsets \/ upsets' = upsets + 1
    BY DEF StopStale, NotLive, Refuse, Cancelled, Upset, trouble
  <2>3. spoken' = spoken
    BY DEF StopStale, NotLive, Refuse, Cancelled, agent
  <2> QED
    BY <2>1, <2>2, <2>3, HeadTailProperties, EmptySeq DEF TypeOK
<1>2. /\ Goto(h, "done") /\ Emit(<<Done(h)>>) /\ turn' = turn
      /\ pc[h] \in {"posted", "ensure", "busy", "cancel"}
      /\ UNCHANGED <<page, posted, req, cut>>
  BY DEF StopStale, Arrives, NotLive, Refuse, Cancelled, trouble
<1>3. turn # h
  BY <1>2 DEF TokenInUse, Handlers
<1>4. Fair(h, "done", <<Done(h)>>)
  BY <1>1, <1>2, <1>3, DoneTyped, OneMessage
     DEF Fair, Tells, Ends, Blind, After, Handlers
<1> QED
  BY <1>4, DoneTyped, OneMessage, FairKeeps DEF Steps

LEMMA ActivateKeeps ==
    ASSUME IInv, NEW h \in Handlers, Activate(h)
    PROVE  IInv'
<1> USE DEF IInv
<1> DEFINE m == Msg(h, "on", h)
<1>1. m \in Message /\ m.stream = h /\ m.type = "on"
  BY MsgTyped DEF Streams
<1>2. Fair(h, "opening", <<m>>)
  BY <1>1, OneMessage
     DEF Activate, Fair, Tells, Ends, Blind, Opened, After, Handlers, TypeOK,
         agent, trouble
<1> QED
  BY <1>1, <1>2, OneMessage, FairKeeps DEF Steps

LEMMA SteerKeeps ==
    ASSUME IInv, NEW h \in Handlers, Steer(h) \/ Steered(h)
    PROVE  IInv'
<1> USE DEF IInv
<1> DEFINE on == Msg(h, "on", None)
           off == Msg(h, "off", None)
<1>1. /\ on \in Message /\ on.stream = None /\ on.type = "on"
      /\ off \in Message /\ off.stream = None /\ off.type = "off"
  BY MsgTyped DEF Streams
<1>2. pc[h] \in {"ensure", "steer"} => turn # h
  BY DEF TokenInUse, Handlers
<1>3. CASE Steer(h)
  <2>1. Fair(h, "steer", <<on>>)
    BY <1>1, <1>2, <1>3, OneMessage
       DEF Steer, Fair, Tells, Ends, Blind, Opened, After, Handlers, TypeOK,
           agent, trouble
  <2> QED
    BY <1>1, <2>1, OneMessage, FairKeeps DEF Steps
<1>4. CASE Steered(h)
  <2>1. Fair(h, "done", <<off, Done(h)>>)
    BY <1>1, <1>2, <1>4, DoneTyped, TwoMessages
       DEF Steered, Fair, Tells, Ends, Blind, Opened, After, Handlers, TypeOK,
           agent, trouble
  <2>2. <<off, Done(h)>> \in Seq(Message)
    BY <1>1, DoneTyped, TwoMessages
  <2> QED
    BY <1>1, <2>1, <2>2, FairKeeps DEF Steps
<1> QED
  BY <1>3, <1>4

\* A late text is dropped, and any other is of the turn in force.
LEMMA SpeakKeeps ==
    ASSUME IInv, NEW h \in Handlers, Speak(h)
    PROVE  IInv'
<1> USE DEF IInv
<1> DEFINE m == Msg(h, "text", h)
<1>1. m \in Message /\ m.stream = h /\ m.type = "text"
  BY MsgTyped DEF Streams
<1>2. Goto(h, "running") /\ turn' = turn /\ Opened(h)
  BY DEF Speak, shell, Goto, TypeOK, Opened, After
<1>3. CASE turn = h
  <2>1. Fair(h, "running", <<m>>)
    BY <1>1, <1>2, <1>3, OneMessage
       DEF Speak, Push, Fair, Tells, Ends, Blind, After, Handlers, TypeOK, trouble
  <2> QED
    BY <1>1, <2>1, OneMessage, FairKeeps DEF Steps
<1>4. CASE turn # h
  <2>1. Fair(h, "running", <<>>)
    BY <1>2, <1>4, EmptySeq
       DEF Speak, Push, Fair, After, TypeOK, trouble
  <2> QED
    BY <2>1, EmptySeq, FairKeeps DEF Steps
<1> QED
  BY <1>3, <1>4

LEMMA CloseFair ==
    ASSUME IInv, NEW h \in Handlers, Close(h)
    PROVE  IInv'
<1> USE DEF IInv
<1> DEFINE m == Msg(h, "off", h)
<1>1. m \in Message /\ m.stream = h /\ m.type = "off"
  BY MsgTyped DEF Streams
<1>2. CASE turn = h
  <2>1. Emit(<<m, Done(h)>>)
    BY <1>1, <1>2, DoneTyped, TwoMessages DEF Close, Push
  <2>2. Fair(h, "done", <<m, Done(h)>>)
    BY <1>1, <1>2, <2>1, DoneTyped, TwoMessages
       DEF Close, Fair, Tells, Ends, Blind, Opened, After, Handlers, TypeOK,
           agent, trouble
  <2>3. <<m, Done(h)>> \in Seq(Message)
    BY <1>1, DoneTyped, TwoMessages
  <2> QED
    BY <2>2, <2>3, FairKeeps DEF Steps
<1>3. CASE turn # h
  <2>1. Emit(<<Done(h)>>)
    BY <1>3, DoneTyped, OneMessage, ConcatEmptySeq DEF Close, Push
  <2>2. Fair(h, "done", <<Done(h)>>)
    BY <1>3, <2>1, DoneTyped, OneMessage
       DEF Close, Fair, Tells, Ends, Blind, Opened, After, Handlers, TypeOK,
           agent, trouble
  <2> QED
    BY <2>2, DoneTyped, OneMessage, FairKeeps DEF Steps
<1> QED
  BY <1>2, <1>3

\* A Stop ends the stream whose token it takes, or one that was over.
LEMMA StopTurnKeeps ==
    ASSUME IInv, NEW h \in Handlers, StopTurn(h)
    PROVE  IInv'
<1> USE DEF IInv
<1>1. /\ pc[h] = "posted" /\ Goto(h, "cancel") /\ turn' = None
      /\ UNCHANGED <<page, posted, req, agent, trouble>>
  BY DEF StopTurn, Arrives
<1>2. queue' \in Seq(Handlers) /\ upsets' \in Nat /\ spoken' \in BOOLEAN
  BY <1>1 DEF TypeOK, agent, trouble
<1>3. CASE turn # None
  <2> DEFINE m == Msg(h, "off", turn)
  <2>1. turn \in Handlers /\ Opened(turn)
    BY <1>3 DEF TypeOK, TokenInUse, Opened, After, Streams
  <2>2. m \in Message /\ m.stream = turn /\ m.type = "off"
    BY MsgTyped DEF TypeOK
  <2>3. Emit(<<m>>)
    BY <1>3 DEF StopTurn
  <2>4. Fair(h, "cancel", <<m>>)
    BY <1>1, <1>2, <1>3, <2>1, <2>2, <2>3, OneMessage
       DEF Fair, Tells, Ends, Blind, Opened, After, Handlers, trouble
  <2> QED
    BY <2>2, <2>4, OneMessage, FairKeeps DEF Steps
<1>4. CASE turn = None
  <2> DEFINE s == req[h].stream
             m == Msg(h, "stopped", s)
             n == Msg(h, "off", s)
  <2>1. s \in Streams /\ (s # None => Opened(s))
    BY DEF TypeOK, Request, Named
  <2>2. /\ m \in Message /\ m.stream = s /\ m.type = "stopped"
        /\ n \in Message /\ n.stream = s /\ n.type = "off"
    BY <2>1, MsgTyped
  <2>3. Emit(<<m, n>>)
    BY <1>4 DEF StopTurn
  <2>4. Fair(h, "cancel", <<m, n>>)
    BY <1>1, <1>2, <2>1, <2>2, <2>3, TwoMessages
       DEF Fair, Tells, Ends, Blind, Opened, After, Handlers, trouble
  <2>5. <<m, n>> \in Seq(Message)
    BY <2>2, TwoMessages
  <2> QED
    BY <2>4, <2>5, FairKeeps DEF Steps
<1> QED
  BY <1>3, <1>4

LEMMA HandlersKeep ==
    ASSUME IInv, NEW h \in Handlers, Handle(h) \/ Speak(h)
    PROVE  IInv'
  BY SilentKeeps, AnswerKeeps, ActivateKeeps, SteerKeeps, SpeakKeeps, CloseFair,
     StopTurnKeeps DEF Handle

-----------------------------------------------------------------------------
(* Steps of the page and of the agent.                                     *)

\* What the page keeps of a Stop in hand: a stream it shows was opened.
LEMMA PostKeeps ==
    ASSUME IInv, Prompt \/ Interject \/ Stop
    PROVE  IInv'
<1> USE DEF IInv
<1>1. PICK kind \in Kinds, s \in {None, shown} : Post(kind, s)
  BY DEF Prompt, Interject, Stop, Kinds
<1>2. s \in Streams /\ (s # None => Opened(s))
  BY DEF TypeOK, Named, Streams
<1>3. /\ posted' = posted + 1 /\ posted' \in Handlers /\ posted \in Nat
      /\ pc[posted'] = "none" /\ pc'[posted'] = "posted" /\ req'[posted'].stream = s
      /\ \A g \in Handlers : g # posted' => pc'[g] = pc[g] /\ req'[g] = req[g]
  BY <1>1, <1>2, PostTyped DEF Named, TypeOK, Handlers
<1>4. \A g \in Handlers : Opened(g) => g # posted' /\ pc'[g] \in After
  BY <1>3 DEF Opened, After
<1>5. UNCHANGED <<shown, over, down, turn>>
  BY <1>1 DEF Post
<1>6. TypeOK'
  BY PageTyped DEF User
<1>7. TokenInUse'
  BY <1>3, <1>5 DEF TokenInUse, TypeOK, Streams
<1>8. Named'
  <2>1. \A g \in Handlers : g > posted' => pc'[g] = "none"
    BY <1>3 DEF Named, Handlers
  <2>2. \A g \in Handlers : req[g].stream \in Streams
    BY DEF TypeOK, Request
  <2>3. \A g \in Handlers : req'[g].stream # None => pc'[req'[g].stream] \in After
    BY <1>2, <1>3, <1>4, <2>2 DEF Named, Streams
  <2>4. shown # None => pc'[shown] \in After
    BY <1>4 DEF Named, TypeOK, Streams
  <2> QED
    BY <1>5, <2>1, <2>3, <2>4 DEF Named, Opened
<1>9. \A i \in 1..Len(down) : down[i] \in Message
  BY ElementOfSeq DEF TypeOK
<1>10. NamedDown'
  BY <1>4, <1>5, <1>9 DEF Channel, NamedDown, Opened, Message, Streams
<1>11. \A g \in Handlers : Sealed(g) => Sealed(g)'
  BY <1>4, <1>5 DEF Sealed, Opened
<1>12. OverSealed' /\ EndsSealed' /\ Fenced'
  BY <1>5, <1>11 DEF Channel, OverSealed, EndsSealed, Fenced, Tells, Ends, Blind, TypeOK
<1> QED
  BY <1>6, <1>7, <1>8, <1>10, <1>12 DEF Channel

\* The page forgets, and what is on the way may be lost.
LEMMA ForgetKeeps ==
    ASSUME IInv, Switch \/ (\E id \in pending : Timeout(id)) \/ Reload
    PROVE  IInv'
<1> USE DEF IInv
<1>1. TypeOK'
  BY PageTyped DEF User
<1>2. /\ UNCHANGED <<over, posted, req, pc, turn>>
      /\ shown' = shown \/ shown' = None
      /\ down' = down \/ down' = <<>>
  BY DEF Switch, Timeout, Reload, Clear, shell, agent
<1>3. TokenInUse' /\ Named'
  BY <1>2 DEF TokenInUse, Named, Opened
<1>4. CASE down' = down
  <2>1. NamedDown' /\ OverSealed' /\ EndsSealed' 
    BY <1>2, <1>4
       DEF Channel, NamedDown, OverSealed, EndsSealed, Sealed, Opened, Tells, Ends
  <2>2. Fenced'
    BY <1>2, <1>4 DEF Channel, Fenced, Blind, Tells
  <2> QED
    BY <1>1, <1>3, <2>1, <2>2 DEF Channel
<1>5. CASE down' = <<>>
  <2>1. 1..Len(down') = {}
    BY <1>5
  <2>2. NamedDown' /\ OverSealed' /\ EndsSealed' /\ Fenced'
    BY <1>2, <2>1
       DEF Channel, NamedDown, OverSealed, EndsSealed, Fenced, Sealed, Opened
  <2> QED
    BY <1>1, <1>3, <2>2 DEF Channel
<1> QED
  BY <1>2, <1>4, <1>5

LEMMA RunEndsKeeps ==
    ASSUME IInv, RunEnds \/ UNCHANGED vars
    PROVE  IInv'
<1> USE DEF IInv
<1>1. UNCHANGED <<page, posted, req, down, shell, spoken, trouble>>
  BY DEF RunEnds, vars, agent
<1>2. queue' = queue \/ (queue # <<>> /\ queue' = Tail(queue))
  BY DEF RunEnds, vars, agent
<1>3. TypeOK'
  BY <1>1, <1>2, HeadTailProperties DEF TypeOK, page, shell, trouble
<1>4. TokenInUse' /\ Named' /\ Channel'
  BY <1>1 DEF page, shell, TokenInUse, Named, Channel, NamedDown, OverSealed,
              EndsSealed, Fenced, Sealed, Opened, Tells, Ends, Blind
<1> QED
  BY <1>3, <1>4

\* What the first message does to the page.
LEMMA DeliverEffect ==
    ASSUME TypeOK, Deliver
    PROVE  LET m == Head(down) IN
           /\ UNCHANGED <<posted, req, pc, turn>>
           /\ \/ shown' = shown
              \/ shown' = None
              \/ m.type = "on" /\ m.stream # None /\ shown' = m.stream
           /\ \A s \in over' : s \in over \/ Ends(m, s)
  BY DEF Deliver, Apply, Clear, Ends, shell

LEMMA DeliverIndex ==
    ASSUME TypeOK, Deliver
    PROVE  /\ Len(down) \in Nat /\ 1 \in 1..Len(down) /\ Head(down) = down[1]
           /\ Len(down)' = Len(down) - 1
           /\ \A i \in 1..Len(down') : i + 1 \in 1..Len(down) /\ down'[i] = down[i + 1]
  BY HeadTyped DEF Deliver

LEMMA DeliverKeeps ==
    ASSUME IInv, Deliver
    PROVE  IInv'
<1> USE DEF IInv, Channel
<1> DEFINE m == down[1]
<1>1. /\ UNCHANGED <<posted, req, pc, turn>>
      /\ \/ shown' = shown
         \/ shown' = None
         \/ m.type = "on" /\ m.stream # None /\ shown' = m.stream
      /\ \A s \in over' : s \in over \/ Ends(m, s)
  BY DeliverEffect, DeliverIndex
<1>2. TypeOK'
  BY DeliverTyped
<1>3. TokenInUse'
  BY <1>1 DEF TokenInUse
<1>4. Named'
  BY <1>1, DeliverIndex DEF Named, NamedDown, Opened
<1>5. NamedDown'
  BY <1>1, DeliverIndex DEF NamedDown, Opened
<1>6. OverSealed'
  <2> SUFFICES ASSUME NEW s \in over'
               PROVE  Sealed(s) /\ \A i \in 1..Len(down') : ~Tells(down'[i], s)
    BY <1>1 DEF OverSealed, Sealed, Opened, Tells
  <2>1. CASE s \in over
    BY <2>1, DeliverIndex DEF OverSealed
  <2>2. CASE Ends(m, s)
    <3>1. s \in Handlers
      BY <1>2 DEF TypeOK
    <3>2. Sealed(s) /\ \A j \in 1..Len(down) : j > 1 => ~Tells(down[j], s)
      BY <2>2, <3>1, DeliverIndex DEF EndsSealed
    <3> QED
      BY <3>2, DeliverIndex
  <2> QED
    BY <1>1, <2>1, <2>2
<1>7. EndsSealed'
  <2> SUFFICES ASSUME NEW i \in 1..Len(down'), NEW s \in Handlers, Ends(down'[i], s)
               PROVE  /\ Sealed(s)
                      /\ \A j \in 1..Len(down') : j > i => ~Tells(down'[j], s)
    BY <1>1 DEF EndsSealed, Sealed, Opened, Tells, Ends
  <2>1. i + 1 \in 1..Len(down) /\ Ends(down[i + 1], s)
    BY DeliverIndex
  <2>2. Sealed(s) /\ \A j \in 1..Len(down) : j > i + 1 => ~Tells(down[j], s)
    BY <2>1 DEF EndsSealed
  <2> QED
    BY <2>2, DeliverIndex
<1>8. Fenced'
  <2> SUFFICES ASSUME NEW i \in 1..Len(down'), Blind(down'[i]), turn # None
               PROVE  /\ shown' # turn
                      /\ \A j \in 1..Len(down') : j < i => ~Tells(down'[j], turn)
    BY <1>1 DEF Fenced, Blind, Tells
  <2>1. i + 1 \in 1..Len(down) /\ Blind(down[i + 1]) /\ i \in Nat /\ i > 0
    BY DeliverIndex
  <2>2. shown # turn /\ \A j \in 1..Len(down) : j < i + 1 => ~Tells(down[j], turn)
    BY <2>1 DEF Fenced
  <2>3. ~Tells(m, turn)
    BY <2>1, <2>2, DeliverIndex
  <2>4. shown' # turn
    BY <1>1, <2>2, <2>3 DEF Tells
  <2>5. \A j \in 1..Len(down') : j < i => ~Tells(down'[j], turn)
    BY <2>2, DeliverIndex
  <2> QED
    BY <2>4, <2>5
<1> QED
  BY <1>2, <1>3, <1>4, <1>5, <1>6, <1>7, <1>8

-----------------------------------------------------------------------------
(* The theorems.                                                           *)

LEMMA InitIInv == Init => IInv
<1> SUFFICES ASSUME Init PROVE IInv
  OBVIOUS
<1>1. 1..Len(down) = {}
  BY DEF Init
<1>2. flag \in BOOLEAN /\ cut \in BOOLEAN /\ spoken \in BOOLEAN
  BY DEF Init
<1>3. req \in [Handlers -> Request] /\ pc \in [Handlers -> Steps]
  BY DEF Init, Request, Kinds, Streams, Steps
<1>4. TypeOK
  BY <1>2, <1>3, EmptySeq DEF Init, TypeOK, Streams
<1>5. TokenInUse /\ Named
  BY DEF Init, TokenInUse, Named
<1>6. Channel
  BY <1>1 DEF Init, Channel, NamedDown, OverSealed, EndsSealed, Fenced
<1> QED
  BY <1>4, <1>5, <1>6 DEF IInv

LEMMA NextIInv == IInv /\ [Next]_vars => IInv'
  BY PostKeeps, ForgetKeeps, DeliverKeeps, HandlersKeep, RunEndsKeeps DEF Next, User

LEMMA Inductive == Spec => []IInv
  BY InitIInv, NextIInv, PTL DEF Spec

\* The state of the page, the adapter and the channel is well-formed.
THEOREM TypeCorrect == Spec => []TypeOK
<1>1. IInv => TypeOK
  BY DEF IInv
<1> QED
  BY <1>1, Inductive, PTL

\* activeTurns never keeps the token of a handler that is gone: a retry or a
\* fork is refused only while there is a turn.
THEOREM TokensInUse == Spec => []TokenInUse
<1>1. IInv => TokenInUse
  BY DEF IInv
<1> QED
  BY <1>1, Inductive, PTL

\* A page that was told that a stream is over hears neither its text nor its
\* status again, however its handler, Stops, timeouts and reloads interleave.
THEOREM SilentAfterEnd == Spec => NothingAfterEnd
<1> DEFINE A == Deliver /\ Head(down).rid \in pending /\ Head(down).stream \in over
                  => Head(down).type \notin {"on", "text"}
<1>1. IInv /\ [Next]_vars => [A]_vars
  <2> SUFFICES ASSUME IInv, Deliver, Head(down).stream \in over
               PROVE  Head(down).type \notin {"on", "text"}
    OBVIOUS
  <2>1. ~Tells(down[1], Head(down).stream)
    BY DeliverIndex DEF IInv, Channel, OverSealed
  <2> QED
    BY <2>1, DeliverIndex DEF IInv, Tells
<1>2. Spec => [][A]_vars
  BY <1>1, Inductive, PTL DEF Spec
<1> QED
  BY <1>2 DEF NothingAfterEnd

\* No event clears the flag of a stream that the adapter still runs: not the
\* end of an interjection, and not a Stop that found no turn.
THEOREM ClearsWhatIsOver == Spec => ClearedWhenOver
<1> DEFINE A == Deliver /\ flag /\ shown # None /\ ~flag' => turn # shown
<1>1. IInv /\ [Next]_vars => [A]_vars
  <2> SUFFICES ASSUME IInv, Deliver, flag, shown # None, ~flag'
               PROVE  turn # shown
    OBVIOUS
  <2> DEFINE m == down[1]
  <2>1. m = Head(down) /\ 1 \in 1..Len(down) /\ shown \in Handlers
    BY DeliverIndex DEF IInv, TypeOK, Streams
  <2>2. Ends(m, shown) \/ Blind(m)
    BY <2>1 DEF Deliver, Apply, Removes, Matches, Ends, Blind
  <2>3. CASE Ends(m, shown)
    BY <2>1, <2>3 DEF IInv, Channel, EndsSealed, Sealed
  <2>4. CASE Blind(m)
    BY <2>1, <2>4 DEF IInv, Channel, Fenced
  <2> QED
    BY <2>2, <2>3, <2>4
<1>2. Spec => [][A]_vars
  BY <1>1, Inductive, PTL DEF Spec
<1> QED
  BY <1>2 DEF ClearedWhenOver
================================================================================
