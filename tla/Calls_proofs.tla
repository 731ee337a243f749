------------------------------ MODULE Calls_proofs ------------------------------
(***************************************************************************)
(* What Calls promises of the instances and the answers, for any number of *)
(* slots, any services between them and batches of any length.             *)
(***************************************************************************)
EXTENDS Calls, TLAPS, SequenceTheorems

\* A thread is inside of guests only for a call it has to make, and the first
\* of them is the slot of that call: the worker's own.
Placed ==
    \A t \in Threads : stack[t] # <<>> =>
        /\ work[t] # {}
        /\ stack[t][1] \in Held
        /\ \A i \in work[t] : batch[i] = stack[t][1]
        /\ t # Main => stack[t][1] = t

\* The guests behind the first were in the store, so the operation does not
\* hold them.
Borrowed ==
    \A t \in Threads : \A i \in DOMAIN stack[t] : i # 1 => stack[t][i] \notin Held

\* A single call has no workers beside it, and a worker only calls of its own.
Split ==
    /\ work[Main] # {} => \A s \in Slots : work[s] = {}
    /\ \A s \in Slots : \A i \in work[s] : batch[i] = s

\* A call is answered by its slot, or has no slot, or is still to be made.
Pending(i) == \E t \in Threads : i \in work[t]
Answers ==
    \A i \in DOMAIN batch :
        /\ result[i] # None => result[i] = batch[i] /\ ~Pending(i)
        /\ result[i] = None => batch[i] = None \/ Pending(i)

InOrder ==
    \A i, j \in DOMAIN batch :
        batch[i] = batch[j] /\ i < j /\ result[j] # None => result[i] # None

IInv ==
    /\ TypeOK /\ Placed /\ Borrowed /\ Split
    /\ NeverReentered /\ StoreAccounts
    /\ Answers /\ InOrder

-----------------------------------------------------------------------------
\* Who is executing.
LEMMA ExecutingDef ==
    ASSUME TypeOK, NEW s
    PROVE  s \in Executing <=> \E t \in Threads : \E i \in DOMAIN stack[t] : stack[t][i] = s
BY DEF Executing, Elements

\* Taking the innermost guest off a stack.
LEMMA OutwardsProperties ==
    ASSUME TypeOK, NEW t \in Threads, Len(stack[t]) > 1
    PROVE  /\ Outwards(t) \in Seq(Slots)
           /\ Outwards(t) # <<>>
           /\ DOMAIN Outwards(t) = 1..(Len(stack[t]) - 1)
           /\ \A i \in DOMAIN Outwards(t) : Outwards(t)[i] = stack[t][i]
           /\ Len(stack[t]) \in DOMAIN stack[t]
           /\ DOMAIN stack[t] = 1..Len(stack[t])
           /\ Len(stack[t]) \in Nat
           /\ Innermost(t) \in Slots
<1> stack[t] \in Seq(Slots)
  BY DEF TypeOK
<1>1. Len(stack[t]) \in Nat /\ DOMAIN stack[t] = 1..Len(stack[t])
  BY LenProperties
<1>2. \A i \in 1..(Len(stack[t]) - 1) : stack[t][i] \in Slots
  BY <1>1
<1>3. /\ Outwards(t) \in Seq(Slots)
      /\ Len(Outwards(t)) = Len(stack[t]) - 1
      /\ \A i \in 1..(Len(stack[t]) - 1) : Outwards(t)[i] = stack[t][i]
  <2>1. Len(stack[t]) - 1 \in Int
    BY <1>1
  <2>2. /\ SubSeq(stack[t], 1, Len(stack[t]) - 1) \in Seq(Slots)
        /\ Len(SubSeq(stack[t], 1, Len(stack[t]) - 1)) = Len(stack[t]) - 1
        /\ \A i \in 1..(Len(stack[t]) - 1) :
              SubSeq(stack[t], 1, Len(stack[t]) - 1)[i] = stack[t][i]
    BY <1>1, <1>2, <2>1, SubSeqProperties
  <2> QED BY <2>2 DEF Outwards
<1>4. DOMAIN Outwards(t) = 1..(Len(stack[t]) - 1)
  BY <1>3, LenProperties
<1> QED BY <1>1, <1>3, <1>4 DEF Innermost

\* With no call to make nobody is executing, and only what the operation holds
\* is away from the store.
LEMMA QuietWhenFinished ==
    ASSUME IInv, Finished
    PROVE  /\ \A t \in Threads : stack[t] = <<>>
           /\ Executing = {}
           /\ Slots \ store = Held
<1>1. \A t \in Threads : stack[t] = <<>>
  BY DEF IInv, Placed, Finished
<1>2. Executing = {}
  BY <1>1, ExecutingDef DEF IInv
<1> QED BY <1>1, <1>2 DEF IInv, StoreAccounts

LEMMA QuietBetween ==
    ASSUME IInv, batch = <<>>
    PROVE  Finished /\ Held = {} /\ store = Slots
<1>1. DOMAIN batch = {}
  OBVIOUS
<1>2. Finished /\ Held = {}
  BY <1>1 DEF IInv, TypeOK, Finished, Held
<1> QED BY <1>2, QuietWhenFinished DEF IInv, TypeOK

-----------------------------------------------------------------------------
LEMMA Starts == Init => IInv
<1> SUFFICES ASSUME Init PROVE IInv
  OBVIOUS
<1> USE DEF Init
<1>1. TypeOK
  BY EmptySeq DEF TypeOK, NoWork, NoGuests
<1>2. \A t \in Threads : work[t] = {} /\ stack[t] = <<>>
  BY DEF NoWork, NoGuests
<1>3. Placed /\ Borrowed /\ NeverReentered
  BY <1>2 DEF Placed, Borrowed, NeverReentered
<1>4. Split
  BY <1>2 DEF Split, Threads
<1>5. Executing = {} /\ Held = {}
  BY <1>1, <1>2, ExecutingDef DEF Held
<1>6. StoreAccounts
  BY <1>5 DEF StoreAccounts
<1>7. Answers /\ InOrder
  BY DEF Answers, InOrder
<1> QED BY <1>1, <1>3, <1>4, <1>6, <1>7 DEF IInv

\* One call on the caller's thread.
LEMMA CallOneKeeps == ASSUME IInv, NEW s \in Slots, CallOne(s) PROVE IInv'
<1> USE CallsAssumption DEF CallOne
<1>1. /\ DOMAIN batch' = {1} /\ batch'[1] = s
      /\ DOMAIN result' = {1} /\ result'[1] = None
  OBVIOUS
<1>2. /\ Main \in Threads /\ Slots \subseteq Threads
      /\ \A t \in Threads \ {Main} : t \in Slots
  BY DEF Threads
<1>3. \A t \in Threads : work'[t] = IF t = Main THEN {1} ELSE {}
  BY <1>2 DEF NoWork
<1>4. \A t \in Threads : stack'[t] = IF t = Main THEN <<s>> ELSE <<>>
  BY <1>2 DEF NoGuests
<1>5. TypeOK'
  <2>1. store' \in SUBSET Slots /\ batch' \in Seq(Slots \cup {None})
    BY DEF IInv, TypeOK
  <2>2. result' \in [DOMAIN batch' -> Slots \cup {None}]
    BY <1>1
  <2>3. work' \in [Threads -> SUBSET DOMAIN batch']
    BY <1>1, <1>2, <1>3 DEF NoWork
  <2>4. stack' \in [Threads -> Seq(Slots)]
    <3>1. <<s>> \in Seq(Slots) /\ <<>> \in Seq(Slots)
      OBVIOUS
    <3>2. NoGuests \in [Threads -> Seq(Slots)]
      BY <3>1 DEF NoGuests
    <3> QED BY <3>1, <3>2
  <2> QED BY <2>1, <2>2, <2>3, <2>4 DEF TypeOK
<1>6. Held' = {s}
  BY <1>1 DEF Held
<1>7. Executing' = {s}
  <2>1. \A x : x \in Executing' <=> \E t \in Threads : \E i \in DOMAIN stack'[t] : stack'[t][i] = x
    BY <1>5 DEF Executing, Elements
  <2>2. DOMAIN <<s>> = {1} /\ <<s>>[1] = s /\ DOMAIN <<>> = {}
    OBVIOUS
  <2> QED BY <1>2, <1>4, <2>1, <2>2
<1>8. StoreAccounts'
  BY QuietBetween, <1>6, <1>7 DEF StoreAccounts
<1>9. Placed' /\ Borrowed'
  BY <1>1, <1>3, <1>4, <1>6 DEF Placed, Borrowed
<1>10. Split'
  BY <1>1, <1>2, <1>3 DEF Split
<1>11. NeverReentered'
  BY <1>4 DEF NeverReentered
<1>12. Answers' /\ InOrder'
  BY <1>1, <1>2, <1>3 DEF Answers, InOrder, Pending
<1> QED BY <1>5, <1>8, <1>9, <1>10, <1>11, <1>12 DEF IInv

\* A batch begins with nobody inside of a guest.
LEMMA CallManyKeeps == ASSUME IInv, NEW b \in Batches, CallMany(b) PROVE IInv'
<1> USE CallsAssumption DEF CallMany
<1>1. /\ b \in Seq(Slots \cup {None}) /\ \A i \in DOMAIN b : b[i] \in Slots \cup {None}
  BY DEF Batches
<1>2. /\ Main \in Threads /\ Slots \subseteq Threads
      /\ \A t \in Threads \ {Main} : t \in Slots
  BY DEF Threads
<1>3. \A t \in Threads : /\ work'[t] = IF t = Main THEN {} ELSE Group(b, t)
                         /\ stack'[t] = <<>>
  BY DEF NoGuests
<1>4. TypeOK'
  <2>1. store' \in SUBSET Slots
    BY DEF IInv, TypeOK
  <2>2. result' \in [DOMAIN batch' -> Slots \cup {None}]
    OBVIOUS
  <2>3. work' \in [Threads -> SUBSET DOMAIN batch']
    BY DEF Group
  <2>4. stack' \in [Threads -> Seq(Slots)]
    BY EmptySeq DEF NoGuests
  <2> QED BY <1>1, <2>1, <2>2, <2>3, <2>4 DEF TypeOK
<1>5. Executing' = {}
  BY <1>3, <1>4 DEF Executing, Elements
<1>6. Held' = Elements(b) \cap Slots
  BY DEF Held, Elements
<1>7. StoreAccounts'
  BY QuietBetween, <1>5, <1>6 DEF StoreAccounts
<1>8. Placed' /\ Borrowed' /\ NeverReentered'
  BY <1>3 DEF Placed, Borrowed, NeverReentered
<1>9. Split'
  BY <1>2, <1>3 DEF Split, Group
<1>10. Answers' /\ InOrder'
  BY <1>1, <1>2, <1>3 DEF Answers, InOrder, Pending, Group
<1> QED BY <1>4, <1>7, <1>8, <1>9, <1>10 DEF IInv

\* A worker enters its own plugin, which the operation holds and nobody is in.
LEMMA EnterKeeps == ASSUME IInv, NEW t \in Threads, Enter(t) PROVE IInv'
<1> USE DEF Enter
<1>1. t \in Slots
  BY DEF Threads
<1>2. \A u \in Threads : stack'[u] = IF u = t THEN <<t>> ELSE stack[u]
  BY DEF IInv, TypeOK
<1>3. DOMAIN <<t>> = {1} /\ <<t>>[1] = t /\ <<t>> # <<>> /\ <<t>> \in Seq(Slots)
  BY <1>1
<1>4. TypeOK'
  BY <1>3 DEF IInv, TypeOK
<1>5. Held' = Held
  BY DEF Held
<1>6. t \in Held
  BY <1>1 DEF IInv, TypeOK, Split, Held
<1>7. \A u \in Threads \ {t} : \A i \in DOMAIN stack[u] : stack[u][i] # t
  <2> SUFFICES ASSUME NEW u \in Threads \ {t}, NEW i \in DOMAIN stack[u], stack[u][i] = t
               PROVE  FALSE
    OBVIOUS
  <2>1. i = 1
    BY <1>6 DEF IInv, Borrowed
  <2>2. work[u] # {} /\ u = Main
    BY <2>1 DEF IInv, Placed
  <2> QED BY <1>1, <2>2 DEF IInv, Split
<1>8. \A x : x \in Executing' <=> x \in Executing \/ x = t
  <2>1. \A x : x \in Executing' <=> \E u \in Threads : \E i \in DOMAIN stack'[u] : stack'[u][i] = x
    BY <1>4 DEF Executing, Elements
  <2>2. \A x : x \in Executing <=> \E u \in Threads : \E i \in DOMAIN stack[u] : stack[u][i] = x
    BY ExecutingDef DEF IInv
  <2>3. DOMAIN stack[t] = {}
    OBVIOUS
  <2> QED BY <1>2, <1>3, <2>1, <2>2, <2>3
<1>9. StoreAccounts'
  BY <1>5, <1>6, <1>8 DEF IInv, StoreAccounts
<1>10. Placed'
  BY <1>1, <1>2, <1>3, <1>5, <1>6 DEF IInv, Placed, Split
<1>11. Borrowed'
  BY <1>2, <1>3, <1>5 DEF IInv, Borrowed
<1>12. NeverReentered'
  BY <1>2, <1>3, <1>7 DEF IInv, NeverReentered
<1>13. Split' /\ Answers' /\ InOrder'
  BY DEF IInv, Split, Answers, InOrder, Pending
<1> QED BY <1>4, <1>9, <1>10, <1>11, <1>12, <1>13 DEF IInv

\* The provider was in the store: it is neither held nor inside of a call.
LEMMA CallServiceKeeps ==
    ASSUME IInv, NEW t \in Threads, NEW p \in Providers, CallService(t, p) PROVE IInv'
<1> USE DEF CallService
<1>1. p \in Slots /\ p \notin Held /\ p \notin Executing
  BY CallsAssumption DEF IInv, StoreAccounts
<1> DEFINE n == Len(stack[t])
<1>2. stack[t] \in Seq(Slots) /\ n \in Nat \ {0} /\ DOMAIN stack[t] = 1..n
  BY LenProperties, EmptySeq DEF IInv, TypeOK
<1>3. \A u \in Threads : stack'[u] = IF u = t THEN Append(stack[t], p) ELSE stack[u]
  BY DEF IInv, TypeOK
<1>4. /\ Append(stack[t], p) \in Seq(Slots)
      /\ Append(stack[t], p) # <<>>
      /\ DOMAIN Append(stack[t], p) = 1..(n + 1)
      /\ \A i \in 1..n : Append(stack[t], p)[i] = stack[t][i]
      /\ Append(stack[t], p)[n + 1] = p
  <2> HIDE DEF n
  <2>1. Len(Append(stack[t], p)) = n + 1
    BY <1>1, <1>2, AppendProperties DEF n
  <2>2. Append(stack[t], p) \in Seq(Slots) /\ Append(stack[t], p) # <<>>
    BY <1>1, <1>2, AppendProperties
  <2>3. DOMAIN Append(stack[t], p) = 1..(n + 1)
    BY <2>1, <2>2, LenProperties
  <2>4. /\ \A i \in 1..n : Append(stack[t], p)[i] = stack[t][i]
        /\ Append(stack[t], p)[n + 1] = p
    BY <1>1, <1>2, AppendProperties DEF n
  <2> QED BY <2>2, <2>3, <2>4
<1> HIDE DEF n
<1>5. TypeOK'
  BY <1>4 DEF IInv, TypeOK
<1>6. Held' = Held
  BY DEF Held
<1>7. \A u \in Threads : \A i \in DOMAIN stack[u] : stack[u][i] # p
  BY <1>1, ExecutingDef DEF IInv
<1>8. \A x : x \in Executing' <=> x \in Executing \/ x = p
  <2>1. \A x : x \in Executing' <=> \E u \in Threads : \E i \in DOMAIN stack'[u] : stack'[u][i] = x
    BY <1>5 DEF Executing, Elements
  <2>2. \A x : x \in Executing <=> \E u \in Threads : \E i \in DOMAIN stack[u] : stack[u][i] = x
    BY ExecutingDef DEF IInv
  <2>3. \A i \in 1..(n + 1) : i \in 1..n \/ i = n + 1
    BY <1>2
  <2>4. \A i \in 1..n : i \in 1..(n + 1)
    BY <1>2
  <2>5. n + 1 \in 1..(n + 1)
    BY <1>2
  <2>6. ASSUME NEW x PROVE x \in Executing' => x \in Executing \/ x = p
    BY <1>2, <1>3, <1>4, <2>1, <2>2, <2>3
  <2>7. p \in Executing'
    <3>1. n + 1 \in DOMAIN stack'[t] /\ stack'[t][n + 1] = p
      BY <1>3, <1>4, <2>5
    <3> QED BY <2>1, <3>1
  <2>8. ASSUME NEW x \in Executing PROVE x \in Executing'
    <3>1. PICK u \in Threads : \E i \in DOMAIN stack[u] : stack[u][i] = x
      BY <2>2
    <3>2. PICK i \in DOMAIN stack[u] : stack[u][i] = x
      BY <3>1
    <3>3. i \in DOMAIN stack'[u] /\ stack'[u][i] = x
      BY <1>2, <1>3, <1>4, <2>4, <3>2
    <3> QED BY <2>1, <3>3
  <2> QED BY <2>6, <2>7, <2>8
<1>9. StoreAccounts'
  BY <1>1, <1>6, <1>8 DEF IInv, StoreAccounts
<1>10. Placed'
  <2>1. 1 \in 1..n /\ Append(stack[t], p)[1] = stack[t][1]
    BY <1>2, <1>4
  <2>2. stack[t] # <<>>
    OBVIOUS
  <2> QED BY <1>3, <1>4, <1>6, <2>1, <2>2 DEF IInv, Placed
<1>11. Borrowed'
  <2> SUFFICES ASSUME NEW u \in Threads, NEW i \in DOMAIN stack'[u], i # 1
               PROVE  stack'[u][i] \notin Held
    BY <1>6 DEF Borrowed
  <2>1. CASE u = t /\ i = n + 1
    BY <1>1, <1>3, <1>4, <2>1
  <2>2. CASE u = t /\ i # n + 1
    BY <1>2, <1>3, <1>4, <2>2 DEF IInv, Borrowed
  <2>3. CASE u # t
    BY <1>3, <2>3 DEF IInv, Borrowed
  <2> QED BY <2>1, <2>2, <2>3
<1>12. NeverReentered'
  <2> SUFFICES ASSUME NEW u \in Threads, NEW v \in Threads,
                      NEW i \in DOMAIN stack'[u], NEW j \in DOMAIN stack'[v],
                      stack'[u][i] = stack'[v][j]
               PROVE  u = v /\ i = j
    BY DEF NeverReentered
  <2>0. ASSUME NEW w \in Threads, NEW k \in DOMAIN stack'[w]
        PROVE  (w = t /\ k = n + 1) \/ (k \in DOMAIN stack[w] /\ stack'[w][k] = stack[w][k])
    <3>1. CASE w = t
      <4>1. k \in 1..(n + 1)
        BY <1>3, <1>4, <3>1
      <4>2. k = n + 1 \/ k \in 1..n
        BY <1>2, <4>1
      <4>3. CASE k = n + 1
        BY <3>1, <4>3
      <4>4. CASE k \in 1..n
        <5>1. k \in DOMAIN stack[w]
          BY <1>2, <3>1, <4>4
        <5>2. stack'[w][k] = stack[w][k]
          BY <1>3, <1>4, <3>1, <4>4
        <5> QED BY <5>1, <5>2
      <4> QED BY <4>2, <4>3, <4>4
    <3>2. CASE w # t
      BY <1>3, <3>2
    <3> QED BY <3>1, <3>2
  <2>1. (u = t /\ i = n + 1) \/ (i \in DOMAIN stack[u] /\ stack'[u][i] = stack[u][i])
    BY <2>0
  <2>2. (v = t /\ j = n + 1) \/ (j \in DOMAIN stack[v] /\ stack'[v][j] = stack[v][j])
    BY <2>0
  <2>3. stack'[t][n + 1] = p
    BY <1>3, <1>4
  <2> QED BY <1>7, <2>1, <2>2, <2>3 DEF IInv, NeverReentered
<1>13. Split' /\ Answers' /\ InOrder'
  BY DEF IInv, Split, Answers, InOrder, Pending
<1> QED BY <1>5, <1>9, <1>10, <1>11, <1>12, <1>13 DEF IInv

\* The innermost guest is put back: it was not held, and it was nowhere else.
LEMMA ServiceReturnsKeeps ==
    ASSUME IInv, NEW t \in Threads, ServiceReturns(t) PROVE IInv'
<1> USE DEF ServiceReturns
<1> DEFINE n == Len(stack[t])
<1>0. TypeOK
  BY DEF IInv
<1>1. /\ Outwards(t) \in Seq(Slots) /\ Outwards(t) # <<>>
      /\ DOMAIN Outwards(t) = 1..(n - 1) /\ DOMAIN stack[t] = 1..n
      /\ \A i \in 1..(n - 1) : Outwards(t)[i] = stack[t][i]
      /\ n \in Nat /\ n > 1 /\ n \in DOMAIN stack[t]
      /\ Innermost(t) = stack[t][n] /\ Innermost(t) \in Slots
  BY <1>0, OutwardsProperties DEF Innermost
<1> HIDE DEF n
<1>2. \A u \in Threads : stack'[u] = IF u = t THEN Outwards(t) ELSE stack[u]
  BY DEF IInv, TypeOK
<1>3. TypeOK'
  BY <1>1 DEF IInv, TypeOK
<1>4. Held' = Held
  BY DEF Held
<1>5. /\ Innermost(t) \notin Held
      /\ \A u \in Threads : \A i \in DOMAIN stack[u] :
            stack[u][i] = Innermost(t) => u = t /\ i = n
  BY <1>1 DEF IInv, Borrowed, NeverReentered
\* A guest of the new stacks is one of the old ones, but for the innermost.
<1>6. ASSUME NEW u \in Threads, NEW i
      PROVE  i \in DOMAIN stack'[u] <=> i \in DOMAIN stack[u] /\ ~(u = t /\ i = n)
  <2>1. i \in 1..(n - 1) <=> i \in 1..n /\ i # n
    BY <1>1
  <2> QED BY <1>1, <1>2, <2>1
<1>7. \A u \in Threads : \A i \in DOMAIN stack'[u] :
         i \in DOMAIN stack[u] /\ stack'[u][i] = stack[u][i]
  BY <1>1, <1>2, <1>6
<1>8. \A x : x \in Executing' <=> x \in Executing /\ x # Innermost(t)
  <2>1. \A x : x \in Executing' <=> \E u \in Threads : \E i \in DOMAIN stack'[u] : stack'[u][i] = x
    BY <1>3 DEF Executing, Elements
  <2>2. \A x : x \in Executing <=> \E u \in Threads : \E i \in DOMAIN stack[u] : stack[u][i] = x
    BY <1>0, ExecutingDef
  <2>3. ASSUME NEW x \in Executing' PROVE x \in Executing /\ x # Innermost(t)
    <3>1. PICK u \in Threads : \E i \in DOMAIN stack'[u] : stack'[u][i] = x
      BY <2>1
    <3>2. PICK i \in DOMAIN stack'[u] : stack'[u][i] = x
      BY <3>1
    <3>3. i \in DOMAIN stack[u] /\ stack[u][i] = x /\ ~(u = t /\ i = n)
      BY <1>6, <1>7, <3>2
    <3> QED BY <1>5, <2>2, <3>3
  <2>4. ASSUME NEW x \in Executing, x # Innermost(t) PROVE x \in Executing'
    <3>1. PICK u \in Threads : \E i \in DOMAIN stack[u] : stack[u][i] = x
      BY <2>2
    <3>2. PICK i \in DOMAIN stack[u] : stack[u][i] = x
      BY <3>1
    <3>3. ~(u = t /\ i = n)
      BY <1>1, <2>4, <3>2
    <3>4. i \in DOMAIN stack'[u]
      BY <1>6, <3>3
    <3>5. stack'[u][i] = x
      BY <1>7, <3>2, <3>4
    <3> QED BY <2>1, <3>4, <3>5
  <2> QED BY <2>3, <2>4
<1>9. StoreAccounts'
  BY <1>1, <1>4, <1>5, <1>8 DEF IInv, StoreAccounts
<1>10. Placed'
  <2>1. 1 \in 1..(n - 1) /\ Outwards(t)[1] = stack[t][1] /\ stack[t] # <<>>
    BY <1>1
  <2> QED BY <1>1, <1>2, <1>4, <2>1 DEF IInv, Placed
<1>11. Borrowed'
  BY <1>4, <1>7 DEF IInv, Borrowed
<1>12. NeverReentered'
  BY <1>7 DEF IInv, NeverReentered
<1>13. Split' /\ Answers' /\ InOrder'
  BY DEF IInv, Split, Answers, InOrder, Pending
<1> QED BY <1>3, <1>9, <1>10, <1>11, <1>12, <1>13 DEF IInv

\* The answer comes from the slot of the call, at the call's own index.
LEMMA CallReturnsKeeps ==
    ASSUME IInv, NEW t \in Threads, CallReturns(t) PROVE IInv'
<1>1. PICK i \in Current(t) :
         /\ result' = [result EXCEPT ![i] = Innermost(t)]
         /\ work' = [work EXCEPT ![t] = @ \ {i}]
  BY DEF CallReturns
<1>2. /\ Len(stack[t]) = 1 /\ stack' = [stack EXCEPT ![t] = <<>>]
      /\ store' = store /\ batch' = batch
  BY DEF CallReturns
<1>3. i \in work[t] /\ i \in DOMAIN batch /\ \A j \in work[t] : i <= j
  BY DEF IInv, TypeOK, Current
<1>4. /\ stack[t] # <<>> /\ Innermost(t) = stack[t][1]
      /\ DOMAIN stack[t] = {1} /\ stack[t][1] \in Slots
  <2>1. stack[t] \in Seq(Slots)
    BY DEF IInv, TypeOK
  <2>2. DOMAIN stack[t] = 1..1 /\ stack[t][1] \in Slots
    BY <1>2, <2>1, LenProperties
  <2> QED BY <1>2, <2>1, <2>2, EmptySeq DEF Innermost
<1>5. batch[i] = Innermost(t) /\ Innermost(t) \in Held
  BY <1>3, <1>4 DEF IInv, Placed
<1>6. \A u \in Threads : /\ stack'[u] = IF u = t THEN <<>> ELSE stack[u]
                         /\ work'[u] = IF u = t THEN work[t] \ {i} ELSE work[u]
  BY <1>1, <1>2 DEF IInv, TypeOK
<1>7. \A j \in DOMAIN batch : result'[j] = IF j = i THEN batch[i] ELSE result[j]
  BY <1>1, <1>5 DEF IInv, TypeOK
<1>8. TypeOK'
  <2>1. result' \in [DOMAIN batch' -> Slots \cup {None}]
    BY <1>1, <1>2, <1>4 DEF IInv, TypeOK
  <2>2. work' \in [Threads -> SUBSET DOMAIN batch']
    BY <1>1, <1>2 DEF IInv, TypeOK
  <2>3. stack' \in [Threads -> Seq(Slots)]
    BY <1>2, EmptySeq DEF IInv, TypeOK
  <2> QED BY <1>2, <2>1, <2>2, <2>3 DEF IInv, TypeOK
<1>9. Held' = Held
  BY <1>2 DEF Held
<1>10. DOMAIN <<>> = {}
  OBVIOUS
<1>11. \A x : x \in Executing => x \in Executing' \/ x = Innermost(t)
  <2>1. \A x : x \in Executing' <=> \E u \in Threads : \E k \in DOMAIN stack'[u] : stack'[u][k] = x
    BY <1>8 DEF Executing, Elements
  <2>2. \A x : x \in Executing <=> \E u \in Threads : \E k \in DOMAIN stack[u] : stack[u][k] = x
    BY ExecutingDef DEF IInv
  <2> QED BY <1>4, <1>6, <2>1, <2>2
<1>12. \A x : x \in Executing' => x \in Executing
  <2>1. \A x : x \in Executing' <=> \E u \in Threads : \E k \in DOMAIN stack'[u] : stack'[u][k] = x
    BY <1>8 DEF Executing, Elements
  <2>2. \A x : x \in Executing <=> \E u \in Threads : \E k \in DOMAIN stack[u] : stack[u][k] = x
    BY ExecutingDef DEF IInv
  <2> QED BY <1>6, <1>10, <2>1, <2>2
<1>13. StoreAccounts'
  BY <1>2, <1>5, <1>9, <1>11, <1>12 DEF IInv, StoreAccounts
<1>14. Placed' /\ Borrowed' /\ NeverReentered'
  BY <1>2, <1>6, <1>9, <1>10 DEF IInv, Placed, Borrowed, NeverReentered
<1>15. Split'
  BY <1>2, <1>6 DEF IInv, Split, Threads
\* Nobody else has this call to make.
<1>16. \A u \in Threads \ {t} : i \notin work[u]
  <2>1. ASSUME NEW u \in Threads \ {t}, i \in work[u] PROVE FALSE
    <3>1. CASE t = Main
      BY <1>3, <2>1, <3>1 DEF IInv, Split, Threads
    <3>2. CASE t # Main
      <4>1. t \in Slots /\ batch[i] = t
        BY <1>3, <3>2 DEF IInv, Split, Threads
      <4>2. u # Main
        BY <1>3, <2>1, <4>1 DEF IInv, Split
      <4> QED BY <2>1, <4>1, <4>2 DEF IInv, Split, Threads
    <3> QED BY <3>1, <3>2
  <2> QED BY <2>1
<1>17. \A j \in DOMAIN batch : Pending(j)' <=> Pending(j) /\ j # i
  BY <1>3, <1>6, <1>16 DEF Pending
<1>18. Pending(i) /\ batch[i] # None
  BY <1>3, <1>4, <1>5, CallsAssumption DEF Pending
<1>19. Answers'
  BY <1>2, <1>7, <1>17, <1>18 DEF IInv, Answers
<1>20. InOrder'
  <2> SUFFICES ASSUME NEW k \in DOMAIN batch, NEW j \in DOMAIN batch,
                      batch[k] = batch[j], k < j, result'[j] # None
               PROVE  result'[k] # None
    BY <1>2 DEF InOrder
  <2>1. CASE j # i
    BY <1>7, <1>18, <2>1 DEF IInv, InOrder
  <2>2. CASE j = i
    <3> SUFFICES ASSUME result[k] = None PROVE FALSE
      BY <1>7, <1>18
    <3>1. PICK u \in Threads : k \in work[u]
      BY <1>18, <2>2 DEF IInv, Answers, Pending
    <3>2. u = t
      <4>1. CASE t = Main
        BY <1>3, <3>1, <4>1 DEF IInv, Split, Threads
      <4>2. CASE t # Main
        <5>1. t \in Slots /\ batch[i] = t
          BY <1>3, <4>2 DEF IInv, Split, Threads
        <5>2. u # Main
          BY <1>3, <3>1, <5>1 DEF IInv, Split
        <5> QED BY <2>2, <3>1, <5>1, <5>2 DEF IInv, Split, Threads
      <4> QED BY <4>1, <4>2
    <3>3. i <= k
      BY <1>3, <3>1, <3>2
    <3>4. i \in Nat /\ k \in Nat
      BY <1>3 DEF IInv, TypeOK
    <3> QED BY <2>2, <3>3, <3>4
  <2> QED BY <2>1, <2>2
<1> QED BY <1>8, <1>13, <1>14, <1>15, <1>19, <1>20 DEF IInv

\* Everyone has come back, and what was held is put back.
LEMMA ReturnKeeps == ASSUME IInv, Return PROVE IInv'
<1> USE DEF Return
<1>1. /\ \A t \in Threads : stack[t] = <<>>
      /\ Slots \ store = Held
  BY QuietWhenFinished
<1>2. \A t \in Threads : stack'[t] = <<>> /\ work'[t] = {}
  BY <1>1 DEF Finished
<1>3. DOMAIN batch' = {} /\ DOMAIN result' = {}
  OBVIOUS
<1>4. TypeOK'
  <2>1. store' \in SUBSET Slots
    BY DEF IInv, TypeOK, Held
  <2>2. batch' \in Seq(Slots \cup {None}) /\ result' \in [DOMAIN batch' -> Slots \cup {None}]
    BY <1>3, EmptySeq
  <2>3. work' \in [Threads -> SUBSET DOMAIN batch']
    <3>1. work' \in [Threads -> SUBSET DOMAIN batch]
      BY DEF IInv, TypeOK
    <3> QED BY <1>2, <3>1
  <2>4. stack' \in [Threads -> Seq(Slots)]
    BY DEF IInv, TypeOK
  <2> QED BY <2>1, <2>2, <2>3, <2>4 DEF TypeOK
<1>5. Held' = {}
  BY <1>3 DEF Held
<1>6. Executing' = {}
  BY <1>2, <1>4 DEF Executing, Elements
<1>7. StoreAccounts'
  BY <1>1, <1>5, <1>6 DEF StoreAccounts, IInv, TypeOK
<1>8. Placed' /\ Borrowed' /\ NeverReentered'
  BY <1>2 DEF Placed, Borrowed, NeverReentered
<1>9. Split'
  BY <1>2 DEF Split, Threads
<1>10. Answers' /\ InOrder'
  BY <1>3 DEF Answers, InOrder
<1> QED BY <1>4, <1>7, <1>8, <1>9, <1>10 DEF IInv

LEMMA Keeps == IInv /\ [Next]_vars => IInv'
<1> SUFFICES ASSUME IInv, [Next]_vars PROVE IInv'
  OBVIOUS
<1>1. ASSUME NEW s \in Slots, CallOne(s) PROVE IInv'
  BY <1>1, CallOneKeeps
<1>2. ASSUME NEW b \in Batches, CallMany(b) PROVE IInv'
  BY <1>2, CallManyKeeps
<1>3. ASSUME NEW t \in Threads, Guest(t) PROVE IInv'
  BY <1>3, EnterKeeps, ServiceReturnsKeeps, CallReturnsKeeps, CallServiceKeeps DEF Guest
<1>4. CASE Return
  BY <1>4, ReturnKeeps
<1>5. CASE UNCHANGED vars
  BY <1>5 DEF vars, IInv, TypeOK, Placed, Borrowed, Split, NeverReentered, StoreAccounts,
              Answers, InOrder, Pending, Held, Executing
<1> QED BY <1>1, <1>2, <1>3, <1>4, <1>5 DEF Next

-----------------------------------------------------------------------------
\* Whatever is called, by whom and in how many threads, the store, the pending
\* calls and the stacks of guests stay well-formed.
THEOREM TypeCorrect == Spec => []TypeOK
<1>1. IInv => TypeOK
  BY DEF IInv
<1> QED BY <1>1, Starts, Keeps, PTL DEF Spec

\* A plugin instance that is inside of a call is never entered again, through
\* no cycle of service calls and from no second thread of a batch.
THEOREM InstancesAreNotReentered == Spec => []NeverReentered
<1>1. IInv => NeverReentered
  BY DEF IInv
<1> QED BY <1>1, Starts, Keeps, PTL DEF Spec

\* Failing or not, no path of a call loses an instance: what is missing from
\* the store is running or held by the operation.
THEOREM NoInstanceIsLost == Spec => []StoreAccounts
<1>1. IInv => StoreAccounts
  BY DEF IInv
<1> QED BY <1>1, Starts, Keeps, PTL DEF Spec

\* A batch of any length returns at each index the answer of the slot of that
\* call's tool, and each slot's calls were made in input order.
THEOREM AnswersAreInPlace == Spec => []AnswersInPlace
<1>1. IInv => AnswersInPlace
  <2> SUFFICES ASSUME IInv PROVE AnswersInPlace
    OBVIOUS
  <2>1. ASSUME Finished PROVE result = batch
    <3>1. \A i \in DOMAIN batch : ~Pending(i)
      BY <2>1 DEF Finished, Pending
    <3>2. \A i \in DOMAIN batch : result[i] = batch[i]
      BY <3>1 DEF IInv, Answers
    <3>3. batch = [i \in DOMAIN batch |-> batch[i]]
      BY DEF IInv, TypeOK
    <3>4. result = [i \in DOMAIN batch |-> result[i]]
      BY DEF IInv, TypeOK
    <3> QED BY <3>2, <3>3, <3>4
  <2> QED BY <2>1 DEF AnswersInPlace, IInv, InOrder
<1> QED BY <1>1, Starts, Keeps, PTL DEF Spec
=============================================================================
