--------------------------------- MODULE Calls ---------------------------------
(***************************************************************************)
(* Calls into the guests (host/src/service.rs and the call paths of        *)
(* host/src/registry.rs).  A plugin instance is taken out of the shared    *)
(* store for the length of a call and put back afterwards; a guest may     *)
(* call the services of other guests while it runs, and a parallel batch   *)
(* runs one thread for each slot it involves.                              *)
(*                                                                         *)
(* The registry is borrowed for the whole of an operation, so the tables   *)
(* that route calls do not change under it: what is left of them is which  *)
(* slots provide a service.  A call that is refused - no provider, or the  *)
(* provider is not in the store - is answered with an error at once and    *)
(* changes nothing.                                                        *)
(***************************************************************************)
EXTENDS Naturals, Sequences, FiniteSets

CONSTANTS
    Slots,
    Providers,      \* the slots whose services guests call
    Main,           \* the thread of the registry's owner
    MaxBatch,       \* bound on the number of calls of one batch
    None

ASSUME CallsAssumption ==
    /\ Providers \subseteq Slots
    /\ Main \notin Slots /\ None \notin Slots
    /\ MaxBatch \in Nat

VARIABLES
    store,          \* Shared.slots: the instances that can be taken
    batch,          \* the slots of the calls of this operation; None: no such tool
    result,         \* for each of them the slot that answered it, or None
    work,           \* thread -> the calls it has still to make
    stack           \* thread -> the guests it is inside of, the innermost last

vars == <<store, batch, result, work, stack>>

Threads == Slots \cup {Main}

Elements(seq) == {seq[i] : i \in DOMAIN seq}

Batches == UNION {[1..n -> Slots \cup {None}] : n \in 1..MaxBatch}

\* The calls of batch b to slot s.
Group(b, s) == {i \in DOMAIN b : b[i] = s}

TypeOK ==
    /\ store \in SUBSET Slots
    /\ batch \in Seq(Slots \cup {None})
    /\ result \in [DOMAIN batch -> Slots \cup {None}]
    /\ work \in [Threads -> SUBSET DOMAIN batch]
    /\ stack \in [Threads -> Seq(Slots)]

NoWork   == [t \in Threads |-> {}]
NoGuests == [t \in Threads |-> <<>>]

Init ==
    /\ store = Slots
    /\ batch = <<>>
    /\ result = <<>>
    /\ work = NoWork
    /\ stack = NoGuests

Finished == \A t \in Threads : work[t] = {}
Held     == {s \in Slots : \E i \in DOMAIN batch : batch[i] = s}

------------------------------------------------------------------------------
\* call_tool, a service call of the registry, or one subscriber of a dispatch:
\* one call, on the thread of the caller.
CallOne(s) ==
    /\ batch = <<>>
    /\ s \in store
    /\ store' = store \ {s}
    /\ batch' = <<s>>
    /\ result' = <<None>>
    /\ work' = [NoWork EXCEPT ![Main] = {1}]
    /\ stack' = [NoGuests EXCEPT ![Main] = <<s>>]

\* call_many_parallel: every slot involved is taken before the first call.
CallMany(b) ==
    /\ batch = <<>>
    /\ store' = store \ Elements(b)
    /\ batch' = b
    /\ result' = [i \in DOMAIN b |-> None]
    /\ work' = [t \in Threads |-> IF t = Main THEN {} ELSE Group(b, t)]
    /\ stack' = NoGuests

\* A worker enters its plugin for its next call.
Enter(t) ==
    /\ t # Main
    /\ work[t] # {}
    /\ stack[t] = <<>>
    /\ stack' = [stack EXCEPT ![t] = <<t>>]
    /\ UNCHANGED <<store, batch, result, work>>

\* Mutant of CallService: the provider is not taken out of the store.
CallServiceShared(t, p) ==
    /\ stack[t] # <<>>
    /\ p \in store
    /\ stack' = [stack EXCEPT ![t] = Append(@, p)]
    /\ UNCHANGED <<store, batch, result, work>>

\* The guest that thread t is in calls a service of p (host.call_service).
CallService(t, p) ==
    /\ stack[t] # <<>>
    /\ p \in store
    /\ store' = store \ {p}
    /\ stack' = [stack EXCEPT ![t] = Append(@, p)]
    /\ UNCHANGED <<batch, result, work>>

Innermost(t) == stack[t][Len(stack[t])]
Outwards(t)  == SubSeq(stack[t], 1, Len(stack[t]) - 1)

\* A worker makes its calls in input order.
Current(t) == {i \in work[t] : \A j \in work[t] : i <= j}

\* Mutant of ServiceReturns: on an error the instance is not put back.
ServiceReturnsUnlessError(t) ==
    /\ Len(stack[t]) > 1
    /\ store' \in {store, store \cup {Innermost(t)}}
    /\ stack' = [stack EXCEPT ![t] = Outwards(t)]
    /\ UNCHANGED <<batch, result, work>>

\* The called guest returns, well or not, and is put back.
ServiceReturns(t) ==
    /\ Len(stack[t]) > 1
    /\ store' = store \cup {Innermost(t)}
    /\ stack' = [stack EXCEPT ![t] = Outwards(t)]
    /\ UNCHANGED <<batch, result, work>>

\* Mutant of CallReturns: answers are collected as they come in.
CallReturnsAsTheyCome(t) ==
    /\ Len(stack[t]) = 1
    /\ \E i \in DOMAIN batch :
          /\ result[i] = None /\ \A j \in 1..i-1 : result[j] # None
          /\ result' = [result EXCEPT ![i] = Innermost(t)]
    /\ work' = [work EXCEPT ![t] = @ \ Current(t)]
    /\ stack' = [stack EXCEPT ![t] = <<>>]
    /\ UNCHANGED <<store, batch>>

\* Mutant of CallReturns: a worker makes a call that fails again.
CallReturnsRetrying(t) ==
    /\ Len(stack[t]) = 1
    /\ \/ \E i \in Current(t) :
             /\ result' = [result EXCEPT ![i] = Innermost(t)]
             /\ work' = [work EXCEPT ![t] = @ \ {i}]
       \/ t # Main /\ UNCHANGED <<result, work>>
    /\ stack' = [stack EXCEPT ![t] = <<>>]
    /\ UNCHANGED <<store, batch>>

\* The call itself returns; a worker keeps its instance for its next call.
CallReturns(t) ==
    /\ Len(stack[t]) = 1
    /\ \E i \in Current(t) :
          /\ result' = [result EXCEPT ![i] = Innermost(t)]
          /\ work' = [work EXCEPT ![t] = @ \ {i}]
    /\ stack' = [stack EXCEPT ![t] = <<>>]
    /\ UNCHANGED <<store, batch>>

\* Mutant of Return: the workers are not joined.
ReturnEarly ==
    /\ batch # <<>>
    /\ \E t \in Threads : work[t] = {} /\ batch[1] = t
    /\ store' = store \cup Held
    /\ batch' = <<>> /\ result' = <<>>
    /\ UNCHANGED <<work, stack>>

\* All threads are joined, their instances put back and the answers returned.
Return ==
    /\ batch # <<>>
    /\ Finished
    /\ store' = store \cup Held
    /\ batch' = <<>> /\ result' = <<>>
    /\ UNCHANGED <<work, stack>>

Guest(t) ==
    \/ Enter(t) \/ ServiceReturns(t) \/ CallReturns(t)
    \/ \E p \in Providers : CallService(t, p)

Next ==
    \/ \E s \in Slots : CallOne(s)
    \/ \E b \in Batches : CallMany(b)
    \/ \E t \in Threads : Guest(t)
    \/ Return

\* A thread that can run does.  A guest may call services as long as it likes
\* but every call of it ends (a sandboxed guest runs out of fuel or time, a
\* trusted one is trusted to return): one condition for each depth.
Fairness ==
    /\ WF_vars(Return)
    /\ \A t \in Threads :
          /\ WF_vars(Enter(t))
          /\ SF_vars(CallReturns(t))
          /\ \A d \in 2..Cardinality(Slots) :
                SF_vars(Len(stack[t]) = d /\ ServiceReturns(t))

Spec == Init /\ [][Next]_vars /\ Fairness

------------------------------------------------------------------------------
(* Properties.                                                             *)

Executing == UNION {Elements(stack[t]) : t \in Threads}

\* ABI.md, "Threading": the host never enters a plugin instance that is already
\* inside a call - not through a cycle of service calls, and not from two
\* threads of a parallel batch.
NeverReentered ==
    \A t, u \in Threads : \A i \in DOMAIN stack[t], j \in DOMAIN stack[u] :
        stack[t][i] = stack[u][j] => t = u /\ i = j

\* An instance is missing from the store only while it runs or while the
\* operation in hand involves it: no path of a call, failing or not, loses one,
\* and outside of a batch a call is refused as busy only if it is recursive.
StoreAccounts == Slots \ store = Held \cup Executing

\* Each call of a batch is answered by the slot of its own tool, in its own
\* place, and the calls to one slot are made in input order.
AnswersInPlace ==
    /\ batch # <<>> /\ Finished => result = batch
    /\ \A i, j \in DOMAIN batch :
          batch[i] = batch[j] /\ i < j /\ result[j] # None => result[i] # None

\* Guests that call each other in a ring, from any number of threads, never
\* wait for each other: every operation returns.
OperationReturns == batch # <<>> ~> batch = <<>>
==============================================================================
