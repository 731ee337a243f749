------------------------------- MODULE Turn_proofs -------------------------------
(***************************************************************************)
(* What Turn promises of hooks and of a turn, for any slots, any hooks and *)
(* any number of tool calls.                                               *)
(***************************************************************************)
EXTENDS Turn, FiniteSetTheorems, SequenceTheorems, TLAPS

------------------------------------------------------------------------------
(* Sequences that are arranged.                                            *)

\* A strict total order on D.
Orders(R, D) ==
    /\ \A i \in D : <<i, i>> \notin R
    /\ \A i, j, k \in D : <<i, j>> \in R /\ <<j, k>> \in R => <<i, k>> \in R
    /\ \A i, j \in D : i = j \/ <<i, j>> \in R \/ <<j, i>> \in R

Below(i, D, R) == {j \in D : <<j, i>> \in R}

\* Of a finite set in order, whoever comes later has more below.
LEMMA RankGrows ==
    ASSUME NEW D, IsFiniteSet(D), NEW R, Orders(R, D), NEW i \in D
    PROVE  /\ Cardinality(Below(i, D, R)) \in 0..(Cardinality(D) - 1)
           /\ \A j \in D : <<i, j>> \in R =>
                 Cardinality(Below(i, D, R)) < Cardinality(Below(j, D, R))
<1> DEFINE B == Below(i, D, R)
           C == B \cup {i}
<1>1. B \in SUBSET D /\ C \in SUBSET D /\ i \notin B
  BY DEF Below, Orders
<1>2. IsFiniteSet(B) /\ IsFiniteSet(C) /\ Cardinality(C) = Cardinality(B) + 1
  <2>1. IsFiniteSet(B)
    BY <1>1, FS_Subset
  <2> HIDE DEF B
  <2> QED  BY <1>1, <2>1, FS_AddElement
<1>3. Cardinality(B) \in Nat /\ Cardinality(C) \in Nat /\ Cardinality(D) \in Nat
  BY <1>2, FS_CardinalityType
<1>4. Cardinality(C) <= Cardinality(D)
  BY <1>1, FS_Subset
<1>5. ASSUME NEW j \in D, <<i, j>> \in R
      PROVE  Cardinality(B) < Cardinality(Below(j, D, R))
  <2>1. C \in SUBSET Below(j, D, R) /\ Below(j, D, R) \in SUBSET D
    BY <1>5 DEF Below, Orders
  <2>2. IsFiniteSet(Below(j, D, R)) /\ Cardinality(Below(j, D, R)) \in Nat
    BY <2>1, FS_Subset, FS_CardinalityType
  <2>3. Cardinality(C) <= Cardinality(Below(j, D, R))
    BY <2>1, <2>2, FS_Subset
  <2> QED  BY <1>2, <1>3, <2>2, <2>3
<1> QED  BY <1>2, <1>3, <1>4, <1>5

\* No two share a place.
LEMMA RankDiffers ==
    ASSUME NEW D, IsFiniteSet(D), NEW R, Orders(R, D), NEW i \in D, NEW j \in D,
           Cardinality(Below(i, D, R)) = Cardinality(Below(j, D, R))
    PROVE  i = j
<1>1. Cardinality(Below(i, D, R)) \in Int
  BY RankGrows
<1>2. <<i, j>> \notin R
  <2> SUFFICES ASSUME <<i, j>> \in R  PROVE FALSE
    OBVIOUS
  <2>1. Cardinality(Below(i, D, R)) < Cardinality(Below(j, D, R))
    BY RankGrows
  <2> QED  BY <1>1, <2>1
<1>3. <<j, i>> \notin R
  <2> SUFFICES ASSUME <<j, i>> \in R  PROVE FALSE
    OBVIOUS
  <2>1. Cardinality(Below(j, D, R)) < Cardinality(Below(i, D, R))
    BY RankGrows
  <2> QED  BY <1>1, <2>1
<1> QED  BY <1>2, <1>3 DEF Orders

\* Every place from the first to the last is somebody's.
LEMMA RankTaken ==
    ASSUME NEW D, IsFiniteSet(D), NEW R, Orders(R, D), NEW n \in 0..(Cardinality(D) - 1)
    PROVE  \E i \in D : Cardinality(Below(i, D, R)) = n
<1> SUFFICES ASSUME \A i \in D : Cardinality(Below(i, D, R)) # n  PROVE FALSE
  OBVIOUS
<1> DEFINE c == Cardinality(D)
           T == (0..(c - 1)) \ {n}
           f == [i \in D |-> Cardinality(Below(i, D, R))]
<1>1. c \in Nat
  BY FS_CardinalityType
<1>2. IsFiniteSet(T) /\ Cardinality(T) < Cardinality(D)
  <2> DEFINE U == 0..(c - 1)
  <2>1. IsFiniteSet(U) /\ Cardinality(U) = c
    BY <1>1, FS_Interval
  <2>2. n \in U /\ T = U \ {n}
    OBVIOUS
  <2>3. IsFiniteSet(U \ {n}) /\ Cardinality(U \ {n}) = Cardinality(U) - 1
    <3> HIDE DEF U
    <3> QED  BY <2>1, <2>2, FS_RemoveElement
  <2> HIDE DEF U, T
  <2> QED  BY <1>1, <2>1, <2>2, <2>3
<1>3. f \in [D -> T]
  BY RankGrows
<1>4. PICK i, j \in D : i # j /\ f[i] = f[j]
  <2> HIDE DEF f, T
  <2> QED  BY <1>2, <1>3, FS_PigeonHole
<1>5. Cardinality(Below(i, D, R)) = Cardinality(Below(j, D, R))
  BY <1>4
<1> QED  BY <1>4, <1>5, RankDiffers

\* The arrangement of D: everybody of it, each before those that it is before in R.
Places(o, D, R) ==
    /\ Cardinality(D) \in Nat
    /\ o \in [1..Cardinality(D) -> D]
    /\ \A i \in D : \E n \in 1..Cardinality(D) : o[n] = i
    /\ \A m, n \in 1..Cardinality(D) : m < n => <<o[m], o[n]>> \in R

LEMMA ArrangedPlaces ==
    ASSUME NEW seq, NEW D, IsFiniteSet(D), NEW R, Orders(R, D)
    PROVE  \E o : /\ Places(o, D, R)
                  /\ Arranged(seq, D, R) = [n \in 1..Cardinality(D) |-> seq[o[n]]]
<1> DEFINE c == Cardinality(D)
           o == [n \in 1..c |-> CHOOSE i \in D : Cardinality(Below(i, D, R)) = n - 1]
<1>0. c \in Nat
  BY FS_CardinalityType
<1>1. \A n \in 1..c : o[n] \in D /\ Cardinality(Below(o[n], D, R)) = n - 1
  <2> TAKE n \in 1..c
  <2>1. n - 1 \in 0..(c - 1)
    BY <1>0
  <2>2. \E i \in D : Cardinality(Below(i, D, R)) = n - 1
    BY <2>1, RankTaken
  <2> QED  BY <2>2
<1>2. Arranged(seq, D, R) = [n \in 1..c |-> seq[o[n]]]
  BY DEF Arranged, Below
<1> HIDE DEF o
<1>3. o \in [1..c -> D]
  BY <1>1 DEF o
<1>4. \A i \in D : \E n \in 1..c : o[n] = i
  <2> TAKE i \in D
  <2> DEFINE n == Cardinality(Below(i, D, R)) + 1
  <2>1. n \in 1..c /\ n - 1 = Cardinality(Below(i, D, R))
    BY <1>0, RankGrows
  <2>2. o[n] \in D /\ Cardinality(Below(o[n], D, R)) = Cardinality(Below(i, D, R))
    BY <1>1, <2>1
  <2>3. o[n] = i
    BY <2>2, RankDiffers
  <2> QED  BY <2>1, <2>3
<1>5. \A m, n \in 1..c : m < n => <<o[m], o[n]>> \in R
  <2> TAKE m, n \in 1..c
  <2> HAVE m < n
  <2>1. /\ Cardinality(Below(o[m], D, R)) < Cardinality(Below(o[n], D, R))
        /\ o[m] \in D /\ o[n] \in D
    BY <1>0, <1>1
  <2>2. Cardinality(Below(o[m], D, R)) \in Int /\ Cardinality(Below(o[n], D, R)) \in Int
    BY <2>1, RankGrows
  <2>3. o[m] # o[n]
    BY <2>1, <2>2
  <2>4. <<o[n], o[m]>> \notin R
    <3> SUFFICES ASSUME <<o[n], o[m]>> \in R  PROVE FALSE
      OBVIOUS
    <3>1. Cardinality(Below(o[n], D, R)) < Cardinality(Below(o[m], D, R))
      BY <2>1, RankGrows
    <3> QED  BY <2>1, <2>2, <3>1
  <2> QED  BY <2>1, <2>3, <2>4 DEF Orders
<1>6. Places(o, D, R)
  BY <1>0, <1>3, <1>4, <1>5 DEF Places
<1>7. Arranged(seq, D, R) = [n \in 1..Cardinality(D) |-> seq[o[n]]]
  BY <1>2
<1> QED  BY <1>6, <1>7

\* new is what is at the positions of D in seq, at o[1], o[2], ...
Takes(new, seq, D, o) ==
    /\ Len(new) \in Nat
    /\ DOMAIN new = 1..Len(new)
    /\ o \in [1..Len(new) -> D]
    /\ \A n \in 1..Len(new) : new[n] = seq[o[n]]
    /\ \A i \in D : \E n \in 1..Len(new) : o[n] = i

\* An arrangement of a sequence is one, of the same elements.
LEMMA ArrangedTakes ==
    ASSUME NEW X, NEW seq \in Seq(X), NEW D \in SUBSET (DOMAIN seq), NEW R, Orders(R, D)
    PROVE  /\ Arranged(seq, D, R) \in Seq(X)
           /\ \E o : /\ Takes(Arranged(seq, D, R), seq, D, o)
                     /\ \A m, n \in 1..Len(Arranged(seq, D, R)) :
                           m < n => <<o[m], o[n]>> \in R
<1>1. IsFiniteSet(D)
  <2>1. DOMAIN seq = 1..Len(seq) /\ Len(seq) \in Nat
    BY LenProperties
  <2>2. IsFiniteSet(DOMAIN seq)
    BY <2>1, FS_Interval
  <2> QED  BY <2>2, FS_Subset
<1>2. PICK o : /\ Places(o, D, R)
               /\ Arranged(seq, D, R) = [n \in 1..Cardinality(D) |-> seq[o[n]]]
  BY <1>1, ArrangedPlaces
<1> DEFINE new == Arranged(seq, D, R)
<1>3. \A i \in D : seq[i] \in X
  BY LenProperties
<1>4. /\ Cardinality(D) \in Nat
      /\ new \in [1..Cardinality(D) -> X]
  BY <1>2, <1>3 DEF Places
<1>5. new \in Seq(X) /\ Len(new) = Cardinality(D)
  <2> HIDE DEF new
  <2> QED  BY <1>4
<1>6. DOMAIN new = 1..Len(new)
  BY <1>4, <1>5
<1>7. Takes(new, seq, D, o)
  BY <1>2, <1>4, <1>5, <1>6 DEF Takes, Places
<1>8. \A m, n \in 1..Len(new) : m < n => <<o[m], o[n]>> \in R
  BY <1>2, <1>5 DEF Places
<1> QED  BY <1>5, <1>7, <1>8

\* What is kept stays in its order.
LEMMA KeepTakes ==
    ASSUME NEW X, NEW seq \in Seq(X), NEW D \in SUBSET (DOMAIN seq)
    PROVE  /\ Keep(seq, D) \in Seq(X)
           /\ \E o : /\ Takes(Keep(seq, D), seq, D, o)
                     /\ \A m, n \in 1..Len(Keep(seq, D)) : m < n => o[m] < o[n]
<1> DEFINE R == {ij \in D \X D : ij[1] < ij[2]}
<1>1. D \subseteq Nat
  BY LenProperties
<1>2. \A i, j \in D : <<i, j>> \in R <=> i < j
  OBVIOUS
<1>3. Orders(R, D)
  <2> HIDE DEF R
  <2> QED  BY <1>1, <1>2 DEF Orders
<1>4. Keep(seq, D) = Arranged(seq, D, R)
  BY DEF Keep
<1> HIDE DEF R
<1>5. PICK o : /\ Takes(Arranged(seq, D, R), seq, D, o)
               /\ \A m, n \in 1..Len(Arranged(seq, D, R)) :
                     m < n => <<o[m], o[n]>> \in R
  BY <1>3, ArrangedTakes
<1>6. Arranged(seq, D, R) \in Seq(X)
  BY <1>3, ArrangedTakes
<1>7. \A m, n \in 1..Len(Keep(seq, D)) : m < n => o[m] < o[n]
  BY <1>2, <1>4, <1>5 DEF Takes
<1> QED  BY <1>4, <1>5, <1>6, <1>7

\* What retain does to the set of the elements.
LEMMA KeepSet ==
    ASSUME NEW X, NEW seq \in Seq(X), NEW D \in SUBSET (DOMAIN seq)
    PROVE  ToSet(Keep(seq, D)) = {seq[i] : i \in D}
<1> DEFINE new == Keep(seq, D)
<1>1. PICK o : Takes(new, seq, D, o)
  BY KeepTakes
<1> HIDE DEF new
<1>2. ToSet(new) \subseteq {seq[i] : i \in D}
  BY <1>1 DEF Takes, ToSet
<1>3. {seq[i] : i \in D} \subseteq ToSet(new)
  BY <1>1 DEF Takes, ToSet
<1> QED  BY <1>2, <1>3 DEF new

LEMMA ConcatSet ==
    ASSUME NEW X, NEW s \in Seq(X), NEW t \in Seq(X)
    PROVE  ToSet(s \o t) = ToSet(s) \cup ToSet(t)
<1>1. /\ Len(s) \in Nat /\ Len(t) \in Nat
      /\ DOMAIN s = 1..Len(s) /\ DOMAIN t = 1..Len(t)
      /\ DOMAIN (s \o t) = 1..(Len(s) + Len(t))
      /\ \A i \in 1..(Len(s) + Len(t)) :
            (s \o t)[i] = IF i <= Len(s) THEN s[i] ELSE t[i - Len(s)]
  <2>1. s \o t \in Seq(X) /\ Len(s \o t) = Len(s) + Len(t)
    BY ConcatProperties
  <2>2. DOMAIN (s \o t) = 1..Len(s \o t)
    BY <2>1, LenProperties
  <2> QED  BY <2>1, <2>2, LenProperties, ConcatProperties
<1> DEFINE u == s \o t
<1>2. ToSet(u) \subseteq ToSet(s) \cup ToSet(t)
  <2> SUFFICES ASSUME NEW i \in DOMAIN u  PROVE u[i] \in ToSet(s) \cup ToSet(t)
    BY DEF ToSet
  <2>1. CASE i <= Len(s)
    BY <1>1, <2>1 DEF ToSet
  <2>2. CASE i > Len(s)
    <3>1. i - Len(s) \in DOMAIN t /\ u[i] = t[i - Len(s)]
      BY <1>1, <2>2
    <3> QED  BY <3>1 DEF ToSet
  <2> QED  BY <1>1, <2>1, <2>2
<1>3. ToSet(s) \subseteq ToSet(u)
  BY <1>1 DEF ToSet
<1>4. ToSet(t) \subseteq ToSet(u)
  <2> SUFFICES ASSUME NEW i \in DOMAIN t  PROVE t[i] \in ToSet(u)
    BY DEF ToSet
  <2>1. i + Len(s) \in DOMAIN u /\ u[i + Len(s)] = t[i]
    BY <1>1
  <2> QED  BY <2>1 DEF ToSet
<1> QED  BY <1>2, <1>3, <1>4

------------------------------------------------------------------------------
(* Types.                                                                  *)

LEMMA SubscriptionParts ==
    ASSUME NEW sub \in Subscription
    PROVE  /\ sub[1] \in Slots
           /\ sub[2] \in DOMAIN Decl[sub[1]] /\ sub[2] \in Nat
           /\ sub = <<sub[1], sub[2]>>
           /\ HookOf(sub) \in Hook /\ HookOf(sub).priority \in Int
<1>1. PICK s \in Slots : sub \in {s} \X DOMAIN Decl[s]
  BY DEF Subscription
<1>2. Decl[s] \in Seq(Hook)
  BY HooksAssumption
<1>3. DOMAIN Decl[s] = 1..Len(Decl[s]) /\ Len(Decl[s]) \in Nat
  BY <1>2, LenProperties
<1>4. sub[1] = s /\ sub[2] \in DOMAIN Decl[s] /\ sub = <<sub[1], sub[2]>>
  BY <1>1
<1>5. Decl[s][sub[2]] \in Hook
  BY <1>2, <1>3, <1>4, ElementOfSeq
<1>6. Decl[s][sub[2]].priority \in Int
  BY <1>5 DEF Hook
<1> QED  BY <1>3, <1>4, <1>5, <1>6 DEF HookOf

LEMMA SubscriptionsType ==
    ASSUME NEW s \in Slots
    PROVE  /\ Subscriptions(s) \in Seq(Subscription)
           /\ \A k \in DOMAIN Subscriptions(s) : k \in Nat /\ Subscriptions(s)[k] = <<s, k>>
<1>1. Decl[s] \in Seq(Hook)
  BY HooksAssumption
<1>2. DOMAIN Decl[s] = 1..Len(Decl[s]) /\ Len(Decl[s]) \in Nat
  BY <1>1, LenProperties
<1>3. \A k \in DOMAIN Decl[s] : <<s, k>> \in Subscription
  BY DEF Subscription
<1>4. Subscriptions(s) \in [1..Len(Decl[s]) -> Subscription]
  BY <1>2, <1>3 DEF Subscriptions
<1> QED  BY <1>2, <1>4 DEF Subscriptions

\* Sorting keeps what is sorted, in order of priority and then of position.
LEMMA ByPriorityTakes ==
    ASSUME NEW seq \in Seq(Subscription)
    PROVE  /\ ByPriority(seq) \in Seq(Subscription)
           /\ \E o : /\ Takes(ByPriority(seq), seq, DOMAIN seq, o)
                     /\ \A m, n \in 1..Len(ByPriority(seq)) : m < n =>
                           LET p == HookOf(seq[o[m]]).priority
                               q == HookOf(seq[o[n]]).priority
                           IN  p < q \/ (p = q /\ o[m] < o[n])
<1> DEFINE D == DOMAIN seq
           p(i) == HookOf(seq[i]).priority
           R == {ij \in D \X D : \/ p(ij[1]) < p(ij[2])
                                 \/ p(ij[1]) = p(ij[2]) /\ ij[1] < ij[2]}
<1>1. D \subseteq Nat
  BY LenProperties
<1>2. \A i \in D : p(i) \in Int
  <2> TAKE i \in D
  <2>1. seq[i] \in Subscription
    BY LenProperties
  <2> QED  BY <2>1, SubscriptionParts
<1> HIDE DEF p
<1>3. \A i, j \in D : <<i, j>> \in R <=> (p(i) < p(j) \/ (p(i) = p(j) /\ i < j))
  OBVIOUS
<1>4. Orders(R, D)
  <2> HIDE DEF R
  <2>1. \A i \in D : <<i, i>> \notin R
    BY <1>1, <1>2, <1>3
  <2>2. \A i, j \in D : i = j \/ <<i, j>> \in R \/ <<j, i>> \in R
    <3> TAKE i, j \in D
    <3>1. p(i) \in Int /\ p(j) \in Int /\ i \in Int /\ j \in Int
      BY <1>1, <1>2
    <3>2. p(i) < p(j) \/ p(j) < p(i) \/ (p(i) = p(j) /\ (i < j \/ j < i \/ i = j))
      BY <3>1
    <3> QED  BY <1>3, <3>2
  <2>3. \A i, j, k \in D : <<i, j>> \in R /\ <<j, k>> \in R => <<i, k>> \in R
    <3> TAKE i, j, k \in D
    <3>1. /\ p(i) \in Int /\ p(j) \in Int /\ p(k) \in Int
          /\ i \in Int /\ j \in Int /\ k \in Int
      BY <1>1, <1>2
    <3> QED  BY <1>3, <3>1
  <2> QED  BY <2>1, <2>2, <2>3 DEF Orders
<1>5. ByPriority(seq) = Arranged(seq, D, R)
  BY DEF ByPriority, p
<1> HIDE DEF R
<1>6. Arranged(seq, D, R) \in Seq(Subscription)
  BY <1>4, ArrangedTakes
<1>7. PICK o : /\ Takes(Arranged(seq, D, R), seq, D, o)
               /\ \A m, n \in 1..Len(Arranged(seq, D, R)) :
                     m < n => <<o[m], o[n]>> \in R
  BY <1>4, ArrangedTakes
<1>8. ASSUME NEW m \in 1..Len(ByPriority(seq)), NEW n \in 1..Len(ByPriority(seq)), m < n
      PROVE  p(o[m]) < p(o[n]) \/ (p(o[m]) = p(o[n]) /\ o[m] < o[n])
  <2>1. o[m] \in D /\ o[n] \in D /\ <<o[m], o[n]>> \in R
    BY <1>5, <1>7, <1>8 DEF Takes
  <2> QED  BY <1>3, <2>1
<1> QED  BY <1>5, <1>6, <1>7, <1>8 DEF p

LEMMA ByPrioritySet ==
    ASSUME NEW seq \in Seq(Subscription)
    PROVE  ToSet(ByPriority(seq)) = ToSet(seq)
<1> DEFINE new == ByPriority(seq)
<1>1. PICK o : Takes(new, seq, DOMAIN seq, o)
  BY ByPriorityTakes
<1> HIDE DEF new
<1>2. ToSet(new) \subseteq ToSet(seq)
  BY <1>1 DEF Takes, ToSet
<1>3. ToSet(seq) \subseteq ToSet(new)
  BY <1>1 DEF Takes, ToSet
<1> QED  BY <1>2, <1>3 DEF new

LEMMA SubscribersType ==
    ASSUME TypeOK, NEW ev
    PROVE  Subscribers(ev) \in Seq(Subscription)
<1>1. {i \in DOMAIN subs : HookOf(subs[i]).on = ev} \in SUBSET (DOMAIN subs)
  OBVIOUS
<1> QED  BY <1>1, KeepTakes DEF Subscribers, TypeOK

\* A dispatch starts with no reply and the value as it was given.
LEMMA DispatchType ==
    ASSUME TypeOK, NEW ev \in Events, Dispatch(ev), UNCHANGED <<subs, registered>>,
           calls' \in 0..MaxCalls, refused' = refused
    PROVE  TypeOK'
<1>1. queue' \in Seq(Subscription)
  BY SubscribersType DEF Dispatch
<1>2. replies' \in Seq(Subscription \X Replies)
  BY DEF Dispatch
<1> QED  BY <1>1, <1>2 DEF TypeOK, Dispatch

LEMMA CloseType ==
    ASSUME TypeOK, Close
    PROVE  TypeOK'
<1>1. queue' \in Seq(Subscription) /\ replies' \in Seq(Subscription \X Replies)
  BY DEF Close
<1> QED  BY <1>1, TurnAssumption DEF TypeOK, Close

LEMMA TurnTypeInit == Init => TypeOK
<1> SUFFICES ASSUME Init  PROVE TypeOK
  OBVIOUS
<1>1. <<>> \in Seq(Subscription) /\ <<>> \in Seq(Slots) /\ <<>> \in Seq(Subscription \X Replies)
  OBVIOUS
<1> QED  BY <1>1, TurnAssumption DEF Init, TypeOK

\* Every event that run_turn dispatches, and the bodies in between.
LEMMA FlowParts ==
    ASSUME TypeOK, Flow
    PROVE  \/ \E ev \in Events : /\ Dispatch(ev)
                                 /\ UNCHANGED <<subs, registered, refused>>
                                 /\ calls' \in 0..MaxCalls
           \/ \E body \in {"model", "tool"} : \E ev \in Events : Run(ev, body)
           \/ Close
<1>1. calls \in 0..MaxCalls /\ MaxCalls \in Nat
  BY TurnAssumption DEF TypeOK
<1>2. calls > 0 => calls - 1 \in 0..MaxCalls
  BY <1>1
<1>3. 0 \in 0..MaxCalls
  BY <1>1
<1> USE DEF Events
<1>4. CASE PreStep \/ PreStepAccepted \/ PreStepVetoed \/ PreExecute \/ End
  BY <1>1, <1>4 DEF PreStep, PreStepAccepted, PreStepVetoed, PreExecute, End, Then
<1>5. CASE ModelReplies \/ Execute \/ Stopping
  BY <1>1, <1>5 DEF ModelReplies, Execute, Stopping
<1>6. CASE Chunk
  BY <1>6 DEF Chunk
<1>7. CASE NextCall
  BY <1>2, <1>7 DEF NextCall
<1>8. CASE PreExecuteVetoed
  BY <1>3, <1>8 DEF PreExecuteVetoed
<1>9. CASE Request \/ PreExecuteAccepted
  BY <1>9 DEF Request, PreExecuteAccepted
<1>10. CASE ModelFails \/ Return
  BY <1>10 DEF ModelFails, Return
<1> QED  BY <1>4, <1>5, <1>6, <1>7, <1>8, <1>9, <1>10 DEF Flow

LEMMA TurnTypeStep == TypeOK /\ [Next]_vars => TypeOK'
<1> SUFFICES ASSUME TypeOK, [Next]_vars  PROVE TypeOK'
  OBVIOUS
<1>1. ASSUME NEW s \in Slots, AddSlot(s)
      PROVE  TypeOK'
  <2>1. subs \o Subscriptions(s) \in Seq(Subscription)
    BY SubscriptionsType DEF TypeOK
  <2>2. subs' \in Seq(Subscription)
    BY <1>1, <2>1, ByPriorityTakes DEF AddSlot
  <2>3. registered' \in Seq(Slots)
    BY <1>1 DEF AddSlot, TypeOK
  <2> QED  BY <1>1, <2>2, <2>3 DEF AddSlot, TypeOK, dispatching
<1>2. ASSUME NEW s \in Slots, RemoveSlot(s)
      PROVE  TypeOK'
  <2> DEFINE D == {i \in DOMAIN subs : subs[i][1] # s}
             E == {i \in DOMAIN registered : registered[i] # s}
  <2>1. D \in SUBSET (DOMAIN subs) /\ E \in SUBSET (DOMAIN registered)
    OBVIOUS
  <2>2. Keep(subs, D) \in Seq(Subscription)
    BY <2>1, KeepTakes DEF TypeOK
  <2>3. Keep(registered, E) \in Seq(Slots)
    BY <2>1, KeepTakes DEF TypeOK
  <2> QED  BY <1>2, <2>2, <2>3 DEF RemoveSlot, TypeOK, dispatching
<1>3. ASSUME NEW reply \in Replies, Ask(reply)
      PROVE  TypeOK'
  <2>1. queue # <<>> /\ queue \in Seq(Subscription)
    BY <1>3 DEF Ask, TypeOK
  <2>2. Head(queue) \in Subscription /\ Tail(queue) \in Seq(Subscription)
    BY <2>1, HeadTailProperties
  <2>3. Head(queue)[1] \in Slots
    BY <2>2, SubscriptionParts
  <2>4. queue' \in Seq(Subscription)
    <3>1. queue' = <<>> \/ queue' = Tail(queue)
      BY <1>3 DEF Ask
    <3>2. <<>> \in Seq(Subscription)
      OBVIOUS
    <3> QED  BY <2>2, <3>1, <3>2, Zenon
  <2>5. replies' \in Seq(Subscription \X Replies)
    BY <1>3, <2>2 DEF Ask, TypeOK
  <2>6. refused' \in SUBSET AllowsVeto
    <3>1. CASE Vetoes(Head(queue), reply)
      BY <1>3, <3>1 DEF Ask, Vetoes, TypeOK
    <3>2. CASE ~Vetoes(Head(queue), reply)
      BY <1>3, <3>2 DEF Ask, TypeOK
    <3> QED  BY <3>1, <3>2
  <2>7. value' \in Slots \cup {Original} /\ vetoed_by' \in Slots \cup {Original}
    BY <1>3, <2>3 DEF Ask, TypeOK
  <2> QED  BY <1>3, <2>4, <2>5, <2>6, <2>7 DEF Ask, TypeOK
<1>4. CASE Begin
  BY <1>4, DispatchType DEF Begin, Events, TypeOK
<1>5. CASE Flow
  <2>1. ASSUME NEW ev \in Events, Dispatch(ev), UNCHANGED <<subs, registered, refused>>,
               calls' \in 0..MaxCalls
        PROVE  TypeOK'
    BY <2>1, DispatchType
  <2>2. ASSUME NEW body \in {"model", "tool"}, NEW ev \in Events, Run(ev, body)
        PROVE  TypeOK'
    BY <2>2 DEF Run, TypeOK
  <2> QED  BY <1>5, <2>1, <2>2, FlowParts, CloseType
<1>6. CASE UNCHANGED vars
  BY <1>6 DEF vars, dispatching, TypeOK
<1> QED  BY <1>1, <1>2, <1>3, <1>4, <1>5, <1>6 DEF Next

\* The type invariant of a turn.
THEOREM TurnTypeCorrect == Spec => []TypeOK
BY TurnTypeInit, TurnTypeStep, PTL DEF Spec

------------------------------------------------------------------------------
(* Subscribers.                                                            *)

Earlier(reg, r, t) == \E a, b \in DOMAIN reg : a < b /\ reg[a] = r /\ reg[b] = t

Precedes(x, y, reg) ==
    LET p == HookOf(x).priority
        q == HookOf(y).priority
    IN  \/ p < q
        \/ p = q /\ Earlier(reg, x[1], y[1])
        \/ p = q /\ x[1] = y[1] /\ x[2] < y[2]

\* SubsInOrder, of any list of subscriptions and any registrations.
Ordered(sq, reg)  == \A i, j \in DOMAIN sq : i < j => Precedes(sq[i], sq[j], reg)
Complete(sq, reg) == ToSet(sq) = UNION {ToSet(Subscriptions(s)) : s \in ToSet(reg)}

LEMMA OrderParts ==
    /\ SubsInOrder <=> Complete(subs, registered) /\ Ordered(subs, registered)
    /\ SubsInOrder' <=> Complete(subs', registered') /\ Ordered(subs', registered')
BY DEF SubsInOrder, Complete, Ordered, Precedes, Earlier, Before

LEMMA SubscriptionSlot ==
    ASSUME NEW s, NEW x \in ToSet(Subscriptions(s))
    PROVE  x[1] = s
<1>1. DOMAIN Subscriptions(s) = DOMAIN Decl[s]
  BY DEF Subscriptions
<1>2. PICK k \in DOMAIN Decl[s] : x = Subscriptions(s)[k]
  BY <1>1 DEF ToSet
<1>3. x = <<s, k>>
  BY <1>2 DEF Subscriptions
<1> QED  BY <1>3

LEMMA SubscriptionOwner ==
    ASSUME NEW reg \in Seq(Slots), NEW sq \in Seq(Subscription), Complete(sq, reg),
           NEW i \in DOMAIN sq
    PROVE  \E a \in DOMAIN reg : reg[a] = sq[i][1]
<1>1. sq[i] \in ToSet(sq)
  BY DEF ToSet
<1>2. PICK s \in ToSet(reg) : sq[i] \in ToSet(Subscriptions(s))
  BY <1>1 DEF Complete
<1>3. sq[i][1] = s
  BY <1>2, SubscriptionSlot
<1> QED  BY <1>2, <1>3 DEF ToSet

LEMMA AppendEarlier ==
    ASSUME NEW reg \in Seq(Slots), NEW s \in Slots
    PROVE  /\ \A r, t : Earlier(reg, r, t) => Earlier(Append(reg, s), r, t)
           /\ \A a \in DOMAIN reg : Earlier(Append(reg, s), reg[a], s)
           /\ ToSet(Append(reg, s)) = ToSet(reg) \cup {s}
<1> DEFINE new == Append(reg, s)
<1>1. /\ Len(reg) \in Nat
      /\ DOMAIN reg = 1..Len(reg)
      /\ DOMAIN new = 1..(Len(reg) + 1)
      /\ \A a \in 1..Len(reg) : new[a] = reg[a]
      /\ new[Len(reg) + 1] = s
  OBVIOUS
<1> HIDE DEF new
<1>2. \A a \in DOMAIN reg : a \in DOMAIN new /\ new[a] = reg[a]
  BY <1>1
<1>3. Len(reg) + 1 \in DOMAIN new
  BY <1>1
<1>4. \A r, t : Earlier(reg, r, t) => Earlier(new, r, t)
  BY <1>2 DEF Earlier
<1>5. \A a \in DOMAIN reg : Earlier(new, reg[a], s)
  <2> TAKE a \in DOMAIN reg
  <2>1. a < Len(reg) + 1
    BY <1>1
  <2> QED  BY <1>1, <1>2, <1>3, <2>1 DEF Earlier
<1>6. ToSet(new) \subseteq ToSet(reg) \cup {s}
  <2> SUFFICES ASSUME NEW a \in DOMAIN new  PROVE new[a] \in ToSet(reg) \cup {s}
    BY DEF ToSet
  <2>1. a \in DOMAIN reg \/ a = Len(reg) + 1
    BY <1>1
  <2> QED  BY <1>1, <1>2, <2>1 DEF ToSet
<1>7. ToSet(reg) \cup {s} \subseteq ToSet(new)
  BY <1>1, <1>2, <1>3 DEF ToSet
<1> QED  BY <1>4, <1>5, <1>6, <1>7 DEF new

\* A slot that becomes active goes behind its equals.
LEMMA AddedInOrder ==
    ASSUME NEW sq \in Seq(Subscription), NEW reg \in Seq(Slots), NEW s \in Slots,
           Complete(sq, reg), Ordered(sq, reg)
    PROVE  Ordered(ByPriority(sq \o Subscriptions(s)), Append(reg, s))
<1> DEFINE all == sq \o Subscriptions(s)
           new == ByPriority(all)
           L == Len(sq)
<1>1. /\ all \in Seq(Subscription)
      /\ L \in Nat /\ DOMAIN sq = 1..L /\ DOMAIN all = 1..Len(all) /\ Len(all) \in Nat
      /\ \A i \in DOMAIN all : i <= L => all[i] = sq[i]
      /\ \A i \in DOMAIN all : i > L => all[i] = <<s, i - L>>
  <2>1. Subscriptions(s) \in Seq(Subscription)
    BY SubscriptionsType
  <2>2. /\ all \in Seq(Subscription)
        /\ Len(all) = L + Len(Subscriptions(s))
        /\ \A i \in 1..(L + Len(Subscriptions(s))) :
              all[i] = IF i <= L THEN sq[i] ELSE Subscriptions(s)[i - L]
    BY <2>1, ConcatProperties
  <2>3. /\ L \in Nat /\ DOMAIN sq = 1..L
        /\ Len(Subscriptions(s)) \in Nat
        /\ DOMAIN Subscriptions(s) = 1..Len(Subscriptions(s))
    BY <2>1, LenProperties
  <2>4. DOMAIN all = 1..Len(all) /\ Len(all) \in Nat
    BY <2>2, LenProperties
  <2> HIDE DEF all, L
  <2>5. ASSUME NEW i \in DOMAIN all, i > L
        PROVE  all[i] = <<s, i - L>>
    <3>1. i - L \in DOMAIN Subscriptions(s) /\ all[i] = Subscriptions(s)[i - L]
      BY <2>2, <2>3, <2>4, <2>5
    <3> QED  BY <3>1, SubscriptionsType
  <2> QED  BY <2>2, <2>3, <2>4, <2>5
<1> HIDE DEF all, L
<1>2. PICK o : /\ Takes(new, all, DOMAIN all, o)
               /\ \A m, n \in 1..Len(new) : m < n =>
                     LET p == HookOf(all[o[m]]).priority
                         q == HookOf(all[o[n]]).priority
                     IN  p < q \/ (p = q /\ o[m] < o[n])
  BY <1>1, ByPriorityTakes
<1> HIDE DEF new
<1>3. ASSUME NEW i \in DOMAIN all, NEW j \in DOMAIN all, i < j,
             HookOf(all[i]).priority = HookOf(all[j]).priority
      PROVE  Precedes(all[i], all[j], Append(reg, s))
  <2>0. HookOf(all[i]).priority \in Int
    <3>1. all[i] \in Subscription
      BY <1>1, LenProperties
    <3> QED  BY <3>1, SubscriptionParts
  <2>1. CASE j <= L
    <3>1. i \in DOMAIN sq /\ j \in DOMAIN sq /\ all[i] = sq[i] /\ all[j] = sq[j]
      BY <1>1, <1>3, <2>1
    <3>2. Precedes(sq[i], sq[j], reg)
      BY <1>3, <3>1 DEF Ordered
    <3> QED  BY <1>3, <2>0, <3>1, <3>2, AppendEarlier DEF Precedes
  <2>2. CASE i <= L /\ j > L
    <3>1. i \in DOMAIN sq /\ all[i] = sq[i] /\ all[j][1] = s
      BY <1>1, <2>2
    <3>2. PICK a \in DOMAIN reg : reg[a] = sq[i][1]
      BY <3>1, SubscriptionOwner
    <3>3. Earlier(Append(reg, s), all[i][1], all[j][1])
      BY <3>1, <3>2, AppendEarlier
    <3> QED  BY <1>3, <3>3 DEF Precedes
  <2>3. CASE i > L
    <3>1. i - L < j - L /\ all[i] = <<s, i - L>> /\ all[j] = <<s, j - L>>
      BY <1>1, <1>3, <2>3
    <3> QED  BY <1>3, <3>1 DEF Precedes
  <2> QED  BY <1>1, <2>1, <2>2, <2>3
<1>4. ASSUME NEW m \in DOMAIN new, NEW n \in DOMAIN new, m < n
      PROVE  Precedes(new[m], new[n], Append(reg, s))
  <2>1. /\ m \in 1..Len(new) /\ n \in 1..Len(new)
        /\ o[m] \in DOMAIN all /\ o[n] \in DOMAIN all
        /\ new[m] = all[o[m]] /\ new[n] = all[o[n]]
    BY <1>2 DEF Takes
  <2>2. CASE HookOf(all[o[m]]).priority < HookOf(all[o[n]]).priority
    BY <2>1, <2>2 DEF Precedes
  <2>3. CASE HookOf(all[o[m]]).priority = HookOf(all[o[n]]).priority /\ o[m] < o[n]
    BY <1>3, <2>1, <2>3
  <2> QED  BY <1>2, <1>4, <2>1, <2>2, <2>3
<1> QED  BY <1>4 DEF Ordered, new, all

LEMMA AddedComplete ==
    ASSUME NEW sq \in Seq(Subscription), NEW reg \in Seq(Slots), NEW s \in Slots,
           Complete(sq, reg)
    PROVE  Complete(ByPriority(sq \o Subscriptions(s)), Append(reg, s))
<1>1. sq \o Subscriptions(s) \in Seq(Subscription)
  BY SubscriptionsType
<1>2. ToSet(ByPriority(sq \o Subscriptions(s))) = ToSet(sq) \cup ToSet(Subscriptions(s))
  <2>1. ToSet(ByPriority(sq \o Subscriptions(s))) = ToSet(sq \o Subscriptions(s))
    BY <1>1, ByPrioritySet
  <2>2. Subscriptions(s) \in Seq(Subscription)
    BY SubscriptionsType
  <2>3. ToSet(sq \o Subscriptions(s)) = ToSet(sq) \cup ToSet(Subscriptions(s))
    BY <2>2, ConcatSet
  <2> QED  BY <2>1, <2>3
<1>3. ToSet(Append(reg, s)) = ToSet(reg) \cup {s}
  BY AppendEarlier
<1> QED  BY <1>2, <1>3 DEF Complete

\* When a slot goes, the others keep their places.
LEMMA RemovedInOrder ==
    ASSUME NEW sq \in Seq(Subscription), NEW reg \in Seq(Slots), NEW s \in Slots,
           Complete(sq, reg), Ordered(sq, reg)
    PROVE  LET sq2 == Keep(sq, {i \in DOMAIN sq : sq[i][1] # s})
               reg2 == Keep(reg, {i \in DOMAIN reg : reg[i] # s})
           IN  Complete(sq2, reg2) /\ Ordered(sq2, reg2)
<1> DEFINE D == {i \in DOMAIN sq : sq[i][1] # s}
           E == {i \in DOMAIN reg : reg[i] # s}
           sq2 == Keep(sq, D)
           reg2 == Keep(reg, E)
<1>1. PICK o : Takes(sq2, sq, D, o) /\ \A m, n \in 1..Len(sq2) : m < n => o[m] < o[n]
  <2>1. D \in SUBSET (DOMAIN sq)
    OBVIOUS
  <2> HIDE DEF D
  <2> QED  BY <2>1, KeepTakes
<1>2. PICK u : Takes(reg2, reg, E, u) /\ \A m, n \in 1..Len(reg2) : m < n => u[m] < u[n]
  <2>1. E \in SUBSET (DOMAIN reg)
    OBVIOUS
  <2> HIDE DEF E
  <2> QED  BY <2>1, KeepTakes
<1>3. ToSet(sq2) = {x \in ToSet(sq) : x[1] # s}
  <2>1. ToSet(sq2) = {sq[i] : i \in D}
    BY KeepSet
  <2> QED  BY <2>1 DEF ToSet
<1>4. ToSet(reg2) = ToSet(reg) \ {s}
  <2>1. ToSet(reg2) = {reg[i] : i \in E}
    BY KeepSet
  <2> QED  BY <2>1 DEF ToSet
<1> HIDE DEF sq2, reg2
<1>5. Complete(sq2, reg2)
  <2>1. \A t, x : x \in ToSet(Subscriptions(t)) => x[1] = t
    BY SubscriptionSlot
  <2> QED  BY <1>3, <1>4, <2>1 DEF Complete
<1>6. \A r, t : r # s /\ t # s /\ Earlier(reg, r, t) => Earlier(reg2, r, t)
  <2> TAKE r, t
  <2> HAVE r # s /\ t # s /\ Earlier(reg, r, t)
  <2>1. PICK a, b \in DOMAIN reg : a < b /\ reg[a] = r /\ reg[b] = t
    BY DEF Earlier
  <2>2. a \in E /\ b \in E /\ a \in Int /\ b \in Int
    BY <2>1, LenProperties
  <2>3. PICK m, n \in 1..Len(reg2) : u[m] = a /\ u[n] = b
    BY <1>2, <2>2 DEF Takes
  <2>4. m < n
    <3>1. m \in Int /\ n \in Int
      BY <1>2 DEF Takes
    <3>2. ~(n < m) /\ m # n
      BY <1>2, <2>1, <2>2, <2>3
    <3> QED  BY <3>1, <3>2
  <2>5. reg2[m] = r /\ reg2[n] = t /\ m \in DOMAIN reg2 /\ n \in DOMAIN reg2
    BY <1>2, <2>1, <2>3 DEF Takes
  <2> QED  BY <2>4, <2>5 DEF Earlier
<1>7. ASSUME NEW m \in DOMAIN sq2, NEW n \in DOMAIN sq2, m < n
      PROVE  Precedes(sq2[m], sq2[n], reg2)
  <2>1. /\ o[m] \in D /\ o[n] \in D /\ o[m] < o[n]
        /\ sq2[m] = sq[o[m]] /\ sq2[n] = sq[o[n]]
    BY <1>1, <1>7 DEF Takes
  <2>2. Precedes(sq[o[m]], sq[o[n]], reg) /\ sq[o[m]][1] # s /\ sq[o[n]][1] # s
    BY <2>1 DEF Ordered
  <2> QED  BY <1>6, <2>1, <2>2 DEF Precedes
<1> QED  BY <1>5, <1>7 DEF Ordered, sq2, reg2

LEMMA OrderStep == TypeOK /\ SubsInOrder /\ [Next]_vars => SubsInOrder'
<1> SUFFICES ASSUME TypeOK, SubsInOrder, [Next]_vars  PROVE SubsInOrder'
  OBVIOUS
<1>0. /\ subs \in Seq(Subscription) /\ registered \in Seq(Slots)
      /\ Complete(subs, registered) /\ Ordered(subs, registered)
  BY OrderParts DEF TypeOK
<1>1. ASSUME NEW s \in Slots, AddSlot(s)
      PROVE  SubsInOrder'
  <2>1. subs' = ByPriority(subs \o Subscriptions(s)) /\ registered' = Append(registered, s)
    BY <1>1 DEF AddSlot
  <2> QED  BY <1>0, <2>1, AddedInOrder, AddedComplete, OrderParts
<1>2. ASSUME NEW s \in Slots, RemoveSlot(s)
      PROVE  SubsInOrder'
  <2>1. /\ subs' = Keep(subs, {i \in DOMAIN subs : subs[i][1] # s})
        /\ registered' = Keep(registered, {i \in DOMAIN registered : registered[i] # s})
    BY <1>2 DEF RemoveSlot
  <2> QED  BY <1>0, <2>1, RemovedInOrder, OrderParts
<1>3. ASSUME UNCHANGED <<subs, registered>>
      PROVE  SubsInOrder'
  BY <1>0, <1>3, OrderParts
<1>4. CASE \E reply \in Replies : Ask(reply)
  BY <1>3, <1>4 DEF Ask
<1>5. CASE Begin
  BY <1>3, <1>5 DEF Begin
<1>6. CASE Flow
  BY <1>3, <1>6, FlowParts DEF Run, Close
<1>7. CASE UNCHANGED vars
  BY <1>3, <1>7 DEF vars
<1> QED  BY <1>1, <1>2, <1>4, <1>5, <1>6, <1>7 DEF Next

\* The hooks that events are dispatched to are those of the active slots, by
\* priority and then by registration, for whatever hooks plugins declare and
\* however often they come and go.
THEOREM SubscribersInOrder == Spec => []SubsInOrder
<1>1. Init => SubsInOrder
  <2> SUFFICES ASSUME Init  PROVE SubsInOrder
    OBVIOUS
  <2>1. subs = <<>> /\ registered = <<>> /\ DOMAIN subs = {} /\ DOMAIN registered = {}
    BY DEF Init
  <2> QED  BY <2>1 DEF SubsInOrder, ToSet
<1> QED  BY <1>1, OrderStep, TurnTypeCorrect, PTL DEF Spec

------------------------------------------------------------------------------
(* What a dispatch has come to.                                            *)

AskedOf(rs) == [i \in DOMAIN rs |-> rs[i][1]]
DecidingOf(rs, r) == {i \in DOMAIN rs : HookOf(rs[i][1]).waterfall /\ rs[i][2] = r}

LEMMA PrefixOfConcat ==
    ASSUME NEW X, NEW s \in Seq(X), NEW t \in Seq(X)
    PROVE  IsPrefix(s, s \o t)
<1>1. /\ Len(s) \in Nat /\ Len(t) \in Nat
      /\ Len(s \o t) = Len(s) + Len(t)
  BY ConcatProperties, LenProperties
<1>2. SubSeq(s, 1, Len(s)) = SubSeq(s \o t, 1, Len(s))
  <2>1. CASE Len(s) = 0
    BY <2>1, SubSeqEmpty
  <2>2. CASE Len(s) > 0
    BY <1>1, <2>2, SubSeqOfConcat1
  <2> QED  BY <1>1, <2>1, <2>2
<1> QED  BY <1>1, <1>2 DEF IsPrefix

LEMMA AppendHead ==
    ASSUME NEW X, NEW s \in Seq(X), NEW q \in Seq(X), q # <<>>
    PROVE  Append(s, Head(q)) \o Tail(q) = s \o q
<1>1. Head(q) \in X /\ Tail(q) \in Seq(X) /\ <<Head(q)>> \in Seq(X)
  BY HeadTailProperties
<1>2. Append(s, Head(q)) = s \o <<Head(q)>>
  BY <1>1, AppendIsConcat
<1>3. <<Head(q)>> \o Tail(q) = q
  BY <1>1
<1> QED  BY <1>1, <1>2, <1>3, ConcatAssociative

LEMMA MaxIs ==
    ASSUME NEW S \in SUBSET Int, NEW m \in S, \A i \in S : m >= i
    PROVE  Max(S) = m
<1>1. Max(S) \in S /\ \A i \in S : Max(S) >= i
  BY DEF Max
<1>2. Max(S) >= m /\ m >= Max(S)
  BY <1>1
<1>3. Max(S) \in Int /\ m \in Int
  BY <1>1
<1> QED  BY <1>2, <1>3

\* What one more reply adds.
LEMMA OneMore ==
    ASSUME NEW rs \in Seq(Subscription \X Replies), NEW x \in Subscription,
           NEW reply \in Replies
    PROVE  LET new == Append(rs, <<x, reply>>)
               L == Len(rs)
           IN  /\ L \in Nat /\ Len(new) = L + 1 /\ new[L + 1] = <<x, reply>>
               /\ AskedOf(rs) \in Seq(Subscription)
               /\ AskedOf(new) = Append(AskedOf(rs), x)
               /\ \A i \in 1..L : new[i] = rs[i]
               /\ \A r : DecidingOf(rs, r) \subseteq 1..L
               /\ \A r : IF HookOf(x).waterfall /\ reply = r
                         THEN DecidingOf(new, r) = DecidingOf(rs, r) \cup {L + 1}
                         ELSE DecidingOf(new, r) = DecidingOf(rs, r)
<1> DEFINE new == Append(rs, <<x, reply>>)
           L == Len(rs)
<1>1. /\ L \in Nat /\ Len(new) = L + 1 /\ new[L + 1] = <<x, reply>>
      /\ DOMAIN rs = 1..L /\ DOMAIN new = 1..(L + 1)
      /\ \A i \in 1..L : new[i] = rs[i] /\ rs[i] \in Subscription \X Replies
  OBVIOUS
<1> HIDE DEF new, L
<1>2. AskedOf(rs) \in [1..L -> Subscription]
  BY <1>1 DEF AskedOf
<1>3. AskedOf(rs) \in Seq(Subscription) /\ Len(AskedOf(rs)) = L
  BY <1>1, <1>2
<1>4. AskedOf(new) \in [1..(L + 1) -> Subscription]
  <2>1. \A i \in 1..(L + 1) : i \in 1..L \/ i = L + 1
    BY <1>1
  <2>2. \A i \in 1..(L + 1) : new[i][1] \in Subscription
    BY <1>1, <2>1
  <2> QED  BY <1>1, <2>2 DEF AskedOf
<1>5. AskedOf(new) = Append(AskedOf(rs), x)
  <2>1. AskedOf(new) \in Seq(Subscription) /\ Len(AskedOf(new)) = L + 1
    BY <1>1, <1>4
  <2>2. /\ Append(AskedOf(rs), x) \in Seq(Subscription)
        /\ Len(Append(AskedOf(rs), x)) = L + 1
        /\ \A i \in 1..L : Append(AskedOf(rs), x)[i] = AskedOf(rs)[i]
        /\ Append(AskedOf(rs), x)[L + 1] = x
    BY <1>3, AppendProperties
  <2>3. \A i \in 1..L : AskedOf(new)[i] = AskedOf(rs)[i]
    BY <1>1 DEF AskedOf
  <2>4. AskedOf(new)[L + 1] = x
    BY <1>1 DEF AskedOf
  <2>5. \A i \in 1..(L + 1) : AskedOf(new)[i] = Append(AskedOf(rs), x)[i]
    <3> TAKE i \in 1..(L + 1)
    <3>1. i \in 1..L \/ i = L + 1
      BY <1>1
    <3> QED  BY <2>2, <2>3, <2>4, <3>1
  <2> QED  BY <2>1, <2>2, <2>5, SeqEqual
<1>6. \A r : DecidingOf(rs, r) \subseteq 1..L
  BY <1>1 DEF DecidingOf
<1>7. ASSUME NEW r
      PROVE  IF HookOf(x).waterfall /\ reply = r
             THEN DecidingOf(new, r) = DecidingOf(rs, r) \cup {L + 1}
             ELSE DecidingOf(new, r) = DecidingOf(rs, r)
  <2>1. \A i \in 1..L : i \in DecidingOf(new, r) <=> i \in DecidingOf(rs, r)
    BY <1>1 DEF DecidingOf
  <2>2. L + 1 \in DecidingOf(new, r) <=> HookOf(x).waterfall /\ reply = r
    BY <1>1 DEF DecidingOf
  <2>3. /\ \A i \in DecidingOf(new, r) : i \in 1..L \/ i = L + 1
        /\ \A i \in DecidingOf(rs, r) : i \in 1..L
    BY <1>1 DEF DecidingOf
  <2>4. CASE HookOf(x).waterfall /\ reply = r
    <3>1. L + 1 \in DecidingOf(new, r)
      BY <2>2, <2>4
    <3>2. DecidingOf(new, r) = DecidingOf(rs, r) \cup {L + 1}
      BY <2>1, <2>3, <3>1
    <3> QED  BY <2>4, <3>2
  <2>5. CASE ~(HookOf(x).waterfall /\ reply = r)
    <3>1. L + 1 \notin DecidingOf(new, r)
      BY <2>2, <2>5
    <3>2. DecidingOf(new, r) = DecidingOf(rs, r)
      BY <2>1, <2>3, <3>1
    <3> QED  BY <2>5, <3>2
  <2> QED  BY <2>4, <2>5
<1> QED  BY <1>1, <1>3, <1>5, <1>6, <1>7 DEF new, L

\* DispatchAccounts as a relation, with what else is needed to carry it over a
\* reply: a veto has emptied the queue, and a rewrite is the last of them.
Account(sg, of, q, v, by, rs) ==
    /\ by = Original => AskedOf(rs) \o q = of
    /\ by # Original => /\ q = <<>>
                        /\ IsPrefix(AskedOf(rs), of)
                        /\ DecidingOf(rs, "veto") = {Len(rs)}
                        /\ by = Last(rs)[1][1]
    /\ sg \in AllowsVeto /\ DecidingOf(rs, "veto") # {} => by # Original
    /\ IF sg \in AllowsRewrite /\ DecidingOf(rs, "rewrite") # {}
       THEN \E m \in DecidingOf(rs, "rewrite") :
               /\ \A i \in DecidingOf(rs, "rewrite") : m >= i
               /\ v = rs[m][1][1]
       ELSE v = Original

AccountInv ==
    IF stage \in Events
    THEN Account(stage, Subscribers(stage), queue, value, vetoed_by, replies)
    ELSE queue = <<>>

LEMMA AccountEnough == TypeOK /\ AccountInv => DispatchAccounts
<1> SUFFICES ASSUME TypeOK, AccountInv, stage \in Events
             PROVE  DispatchAccounts
  BY DEF DispatchAccounts
<1>1. Account(stage, Subscribers(stage), queue, value, vetoed_by, replies)
  BY DEF AccountInv
<1>2. Asked = AskedOf(replies) /\ \A r : Deciding(r) = DecidingOf(replies, r)
  BY DEF Asked, AskedOf, Deciding, DecidingOf
<1>3. Deciding("rewrite") \in SUBSET Int
  <2>1. DOMAIN replies = 1..Len(replies) /\ Len(replies) \in Nat
    BY LenProperties DEF TypeOK
  <2> QED  BY <2>1 DEF Deciding
<1>4. value = IF stage \in AllowsRewrite /\ Deciding("rewrite") # {}
              THEN replies[Max(Deciding("rewrite"))][1][1]
              ELSE Original
  <2>1. CASE stage \in AllowsRewrite /\ Deciding("rewrite") # {}
    <3>1. PICK m \in Deciding("rewrite") :
             /\ \A i \in Deciding("rewrite") : m >= i
             /\ value = replies[m][1][1]
      BY <1>1, <1>2, <2>1 DEF Account
    <3>2. Max(Deciding("rewrite")) = m
      BY <1>3, <3>1, MaxIs
    <3> QED  BY <2>1, <3>1, <3>2
  <2>2. CASE ~(stage \in AllowsRewrite /\ Deciding("rewrite") # {})
    BY <1>1, <1>2, <2>2 DEF Account
  <2> QED  BY <2>1, <2>2
<1> QED  BY <1>1, <1>2, <1>4 DEF DispatchAccounts, Account

\* A dispatch that starts accounts for everybody.
LEMMA DispatchStarts ==
    ASSUME TypeOK, NEW ev \in Events, Dispatch(ev), subs' = subs
    PROVE  AccountInv'
<1>1. Subscribers(ev) \in Seq(Subscription)
  BY SubscribersType
<1>2. /\ stage' = ev /\ queue' = Subscribers(ev) /\ Subscribers(ev)' = Subscribers(ev)
      /\ value' = Original /\ vetoed_by' = Original /\ replies' = <<>>
  BY DEF Dispatch, Subscribers
<1>3. AskedOf(<<>>) = <<>> /\ \A r : DecidingOf(<<>>, r) = {}
  BY DEF AskedOf, DecidingOf
<1>4. <<>> \o Subscribers(ev) = Subscribers(ev)
  BY <1>1
<1>5. Account(ev, Subscribers(ev), Subscribers(ev), Original, Original, <<>>)
  BY <1>3, <1>4 DEF Account
<1> QED  BY <1>2, <1>5 DEF AccountInv

\* A reply is accounted for.
LEMMA ReplyAccounts ==
    ASSUME TypeOK, AccountInv, NEW reply \in Replies, Ask(reply)
    PROVE  AccountInv'
<1> DEFINE x == Head(queue)
           new == Append(replies, <<x, reply>>)
           L == Len(replies)
           of == Subscribers(stage)
<1>1. /\ queue # <<>> /\ queue \in Seq(Subscription)
      /\ stage \in Events
      /\ Account(stage, of, queue, value, vetoed_by, replies)
  BY DEF Ask, TypeOK, AccountInv
<1>2. x \in Subscription /\ Tail(queue) \in Seq(Subscription) /\ x[1] \in Slots
  BY <1>1, HeadTailProperties, SubscriptionParts
<1>3. vetoed_by = Original /\ AskedOf(replies) \o queue = of
  BY <1>1 DEF Account
<1>4. /\ L \in Nat /\ Len(new) = L + 1 /\ new[L + 1] = <<x, reply>>
      /\ AskedOf(replies) \in Seq(Subscription)
      /\ AskedOf(new) = Append(AskedOf(replies), x)
      /\ \A i \in 1..L : new[i] = replies[i]
      /\ \A r : DecidingOf(replies, r) \subseteq 1..L
      /\ \A r : IF HookOf(x).waterfall /\ reply = r
                THEN DecidingOf(new, r) = DecidingOf(replies, r) \cup {L + 1}
                ELSE DecidingOf(new, r) = DecidingOf(replies, r)
  BY <1>2, OneMore DEF TypeOK
<1>5. AskedOf(new) \o Tail(queue) = of
  BY <1>1, <1>3, <1>4, AppendHead
<1>6. /\ replies' = new /\ stage' = stage /\ subs' = subs
      /\ value' = IF Rewrites(x, reply) THEN x[1] ELSE value
  BY DEF Ask
<1>7. Subscribers(stage)' = of
  BY <1>6 DEF Subscribers
<1> HIDE DEF new, x, L, of
<1>8. IF stage \in AllowsRewrite /\ DecidingOf(new, "rewrite") # {}
      THEN \E m \in DecidingOf(new, "rewrite") :
              /\ \A i \in DecidingOf(new, "rewrite") : m >= i
              /\ value' = new[m][1][1]
      ELSE value' = Original
  <2>1. CASE Rewrites(x, reply)
    <3>1. /\ stage \in AllowsRewrite
          /\ DecidingOf(new, "rewrite") = DecidingOf(replies, "rewrite") \cup {L + 1}
      BY <1>4, <2>1 DEF Rewrites
    <3>2. value' = new[L + 1][1][1]
      BY <1>4, <1>6, <2>1
    <3>3. \A i \in DecidingOf(new, "rewrite") : L + 1 >= i
      BY <1>4, <3>1
    <3> QED  BY <3>1, <3>2, <3>3
  <2>2. CASE ~Rewrites(x, reply) /\ stage \in AllowsRewrite
    <3>1. DecidingOf(new, "rewrite") = DecidingOf(replies, "rewrite") /\ value' = value
      BY <1>4, <1>6, <2>2 DEF Rewrites
    <3>2. CASE DecidingOf(replies, "rewrite") # {}
      <4>1. PICK m \in DecidingOf(replies, "rewrite") :
               /\ \A i \in DecidingOf(replies, "rewrite") : m >= i
               /\ value = replies[m][1][1]
        BY <1>1, <2>2, <3>2 DEF Account
      <4>2. new[m] = replies[m]
        BY <1>4
      <4> QED  BY <2>2, <3>1, <4>1, <4>2
    <3>3. CASE DecidingOf(replies, "rewrite") = {}
      BY <1>1, <3>1, <3>3 DEF Account
    <3> QED  BY <3>2, <3>3
  <2>3. CASE stage \notin AllowsRewrite
    BY <1>1, <1>6, <2>3 DEF Account, Rewrites
  <2> QED  BY <2>1, <2>2, <2>3
<1>9. stage \in AllowsVeto => DecidingOf(replies, "veto") = {}
  BY <1>1, <1>3 DEF Account
<1>10. CASE Vetoes(x, reply)
  <2>1. queue' = <<>> /\ vetoed_by' = x[1]
    BY <1>10 DEF Ask, x
  <2>2. vetoed_by' # Original
    BY <1>2, <2>1, TurnAssumption
  <2>3. IsPrefix(AskedOf(new), of)
    <3>1. AskedOf(new) \in Seq(Subscription)
      BY <1>2, <1>4
    <3> QED  BY <1>2, <1>5, <3>1, PrefixOfConcat
  <2>4. DecidingOf(new, "veto") = {Len(new)}
    BY <1>4, <1>9, <1>10 DEF Vetoes
  <2>5. vetoed_by' = Last(new)[1][1]
    BY <1>4, <2>1 DEF Last
  <2>6. Account(stage, of, queue', value', vetoed_by', new)
    BY <1>8, <2>1, <2>2, <2>3, <2>4, <2>5 DEF Account
  <2> QED  BY <1>1, <1>6, <1>7, <2>6 DEF AccountInv
<1>11. CASE ~Vetoes(x, reply)
  <2>1. queue' = Tail(queue) /\ vetoed_by' = Original
    BY <1>3, <1>11 DEF Ask, x
  <2>2. ~(stage \in AllowsVeto /\ DecidingOf(new, "veto") # {})
    BY <1>4, <1>9, <1>11 DEF Vetoes
  <2>3. Account(stage, of, queue', value', vetoed_by', new)
    BY <1>5, <1>8, <2>1, <2>2 DEF Account
  <2> QED  BY <1>1, <1>6, <1>7, <2>3 DEF AccountInv
<1> QED  BY <1>10, <1>11

LEMMA AccountStep == TypeOK /\ AccountInv /\ [Next]_vars => AccountInv'
<1> SUFFICES ASSUME TypeOK, AccountInv, [Next]_vars  PROVE AccountInv'
  OBVIOUS
<1>1. ASSUME NEW s \in Slots, AddSlot(s) \/ RemoveSlot(s)
      PROVE  AccountInv'
  <2>1. stage = "idle" /\ stage' = stage /\ queue' = queue
    BY <1>1 DEF AddSlot, RemoveSlot, dispatching
  <2> QED  BY <2>1 DEF AccountInv, Events, TurnStart, AgentPreStep, AgentRequest, LlmChunk,
             AssistantMessage, ToolCall, ToolsPreExecute, ToolResult, AgentTurnStopping, TurnEnd
<1>2. CASE \E reply \in Replies : Ask(reply)
  BY <1>2, ReplyAccounts
<1>3. CASE Begin
  BY <1>3, DispatchStarts DEF Begin, Events
<1>4. CASE Flow
  <2>1. ASSUME NEW body \in {"model", "tool"}, NEW ev \in Events, Run(ev, body)
        PROVE  AccountInv'
    <3>1. stage' = body /\ queue' = <<>>
      BY <2>1 DEF Run, Dispatched
    <3> QED  BY <3>1 DEF AccountInv, Events, TurnStart, AgentPreStep, AgentRequest, LlmChunk,
             AssistantMessage, ToolCall, ToolsPreExecute, ToolResult, AgentTurnStopping, TurnEnd
  <2>2. ASSUME Close
        PROVE  AccountInv'
    BY <2>2 DEF Close, AccountInv, Events, TurnStart, AgentPreStep, AgentRequest, LlmChunk,
         AssistantMessage, ToolCall, ToolsPreExecute, ToolResult, AgentTurnStopping, TurnEnd
  <2> QED  BY <1>4, <2>1, <2>2, FlowParts, DispatchStarts
<1>5. CASE UNCHANGED vars
  <2>1. /\ stage' = stage /\ queue' = queue /\ value' = value /\ vetoed_by' = vetoed_by
        /\ replies' = replies /\ Subscribers(stage)' = Subscribers(stage)
    BY <1>5 DEF vars, dispatching, Subscribers
  <2> QED  BY <2>1 DEF AccountInv
<1> QED  BY <1>1, <1>2, <1>3, <1>4, <1>5 DEF Next

LEMMA AccountHolds == Spec => []AccountInv
<1>1. Init => AccountInv
  BY DEF Init, AccountInv, Events, TurnStart, AgentPreStep, AgentRequest, LlmChunk,
     AssistantMessage, ToolCall, ToolsPreExecute, ToolResult, AgentTurnStopping, TurnEnd
<1> QED  BY <1>1, AccountStep, TurnTypeCorrect, PTL DEF Spec

\* Every dispatch takes the value through the subscribers in order and ends at
\* the first veto, for any number of hooks and any replies of them.
THEOREM DispatchesAccount == Spec => []DispatchAccounts
BY AccountHolds, AccountEnough, TurnTypeCorrect, PTL

------------------------------------------------------------------------------
(* The gates.                                                              *)

\* What may have been refused in the turn when it has come to a stage.
RefusedBy ==
    /\ stage \in {"idle", TurnStart} => refused = {}
    /\ stage = AgentPreStep =>
          refused \subseteq {AgentPreStep} /\ (Accepted => refused = {})
    /\ stage \in {AgentRequest, "model", LlmChunk, AssistantMessage, ToolCall, "tool",
                  ToolResult, AgentTurnStopping} => refused \subseteq {AgentRequest}
    /\ stage = ToolsPreExecute =>
          /\ refused \subseteq {AgentRequest, ToolsPreExecute}
          /\ Accepted => refused \subseteq {AgentRequest}

\* Past the gate, nothing has changed since everybody was asked.
ToolAsked ==
    stage = "tool" => /\ AskedOf(replies) = Subscribers(ToolsPreExecute)
                      /\ DecidingOf(replies, "veto") = {}

LEMMA GatesEnough == RefusedBy /\ ToolAsked => GatesHold
<1>1. Asked = AskedOf(replies) /\ Deciding("veto") = DecidingOf(replies, "veto")
  BY DEF Asked, AskedOf, Deciding, DecidingOf
<1> QED  BY <1>1 DEF GatesHold, RefusedBy, ToolAsked

LEMMA RefusedStep == TypeOK /\ RefusedBy /\ [Next]_vars => RefusedBy'
<1> SUFFICES ASSUME TypeOK, RefusedBy, [Next]_vars  PROVE RefusedBy'
  OBVIOUS
<1> USE DEF TurnStart, AgentPreStep, AgentRequest, LlmChunk, AssistantMessage, ToolCall,
            ToolsPreExecute, ToolResult, AgentTurnStopping, TurnEnd
<1>1. ASSUME NEW s \in Slots, AddSlot(s) \/ RemoveSlot(s)
      PROVE  RefusedBy'
  BY <1>1 DEF AddSlot, RemoveSlot, dispatching, RefusedBy, Accepted
<1>2. ASSUME NEW reply \in Replies, Ask(reply)
      PROVE  RefusedBy'
  <2>1. CASE Vetoes(Head(queue), reply)
    <3>1. queue # <<>> /\ queue \in Seq(Subscription)
      BY <1>2 DEF Ask, TypeOK
    <3>2. Head(queue)[1] \in Slots
      BY <3>1, HeadTailProperties, SubscriptionParts
    <3>3. ~Accepted' /\ refused' = refused \cup {stage} /\ stage' = stage
          /\ stage \in AllowsVeto
      BY <1>2, <2>1, <3>2, TurnAssumption DEF Ask, Accepted, Vetoes
    <3> QED  BY <3>3 DEF RefusedBy, AllowsVeto
  <2>2. CASE ~Vetoes(Head(queue), reply)
    BY <1>2, <2>2 DEF Ask, RefusedBy, Accepted
  <2> QED  BY <2>1, <2>2
<1>3. CASE Begin
  BY <1>3 DEF Begin, Dispatch, RefusedBy
<1>4. CASE Flow
  <2>1. CASE PreStep \/ PreStepVetoed
    BY <2>1 DEF PreStep, PreStepVetoed, Then, Dispatched, Dispatch, RefusedBy
  <2>2. CASE PreStepAccepted
    BY <2>2 DEF PreStepAccepted, Then, Dispatched, Dispatch, RefusedBy
  <2>3. CASE PreExecute \/ End
    BY <2>3 DEF PreExecute, End, Then, Dispatched, Dispatch, RefusedBy
  <2>4. CASE Request \/ ModelReplies \/ Chunk
    BY <2>4 DEF Request, Run, ModelReplies, Chunk, Dispatched, Dispatch, RefusedBy
  <2>5. CASE NextCall \/ Stopping
    BY <2>5 DEF NextCall, Stopping, CallsLeft, Dispatched, Dispatch, RefusedBy
  <2>6. CASE PreExecuteAccepted
    BY <2>6 DEF PreExecuteAccepted, Run, Dispatched, RefusedBy
  <2>7. CASE PreExecuteVetoed
    BY <2>7 DEF PreExecuteVetoed, Dispatch, RefusedBy
  <2>8. CASE Execute
    BY <2>8 DEF Execute, Dispatch, RefusedBy
  <2>9. CASE ModelFails \/ Return
    BY <2>9 DEF ModelFails, Return, Close, RefusedBy
  <2> QED  BY <1>4, <2>1, <2>2, <2>3, <2>4, <2>5, <2>6, <2>7, <2>8, <2>9 DEF Flow
<1>5. CASE UNCHANGED vars
  BY <1>5 DEF vars, dispatching, RefusedBy, Accepted
<1> QED  BY <1>1, <1>2, <1>3, <1>4, <1>5 DEF Next

LEMMA ToolAskedStep == TypeOK /\ AccountInv /\ ToolAsked /\ [Next]_vars => ToolAsked'
<1> SUFFICES ASSUME TypeOK, AccountInv, ToolAsked, [Next]_vars, stage' = "tool"
             PROVE  ToolAsked'
  BY DEF ToolAsked
<1>1. stage = "tool" => queue = <<>>
  BY DEF AccountInv, Events, TurnStart, AgentPreStep, AgentRequest, LlmChunk,
     AssistantMessage, ToolCall, ToolsPreExecute, ToolResult, AgentTurnStopping, TurnEnd
<1>2. ASSUME NEW s \in Slots, AddSlot(s) \/ RemoveSlot(s)
      PROVE  FALSE
  BY <1>2 DEF AddSlot, RemoveSlot, dispatching
<1>3. ASSUME NEW reply \in Replies, Ask(reply)
      PROVE  FALSE
  BY <1>1, <1>3 DEF Ask
<1>4. ASSUME NEW ev \in Events, Dispatch(ev)
      PROVE  FALSE
  BY <1>4 DEF Dispatch, Events, TurnStart, AgentPreStep, AgentRequest, LlmChunk,
     AssistantMessage, ToolCall, ToolsPreExecute, ToolResult, AgentTurnStopping, TurnEnd
<1>5. CASE PreExecuteAccepted
  <2>1. /\ stage = ToolsPreExecute /\ queue = <<>> /\ vetoed_by = Original
        /\ replies' = replies /\ subs' = subs
    BY <1>5 DEF PreExecuteAccepted, Accepted, Run, Dispatched
  <2>2. Account(stage, Subscribers(stage), queue, value, vetoed_by, replies)
    BY <2>1 DEF AccountInv, Events
  <2>3. AskedOf(replies) \o <<>> = Subscribers(ToolsPreExecute)
    BY <2>1, <2>2 DEF Account
  <2>4. AskedOf(replies) \in Seq(Subscription)
    <3>1. \A i \in DOMAIN replies : replies[i][1] \in Subscription
      BY LenProperties DEF TypeOK
    <3>2. DOMAIN replies = 1..Len(replies) /\ Len(replies) \in Nat
      BY LenProperties DEF TypeOK
    <3>3. AskedOf(replies) \in [1..Len(replies) -> Subscription]
      BY <3>1, <3>2 DEF AskedOf
    <3> QED  BY <3>2, <3>3
  <2>5. AskedOf(replies) = Subscribers(ToolsPreExecute)
    BY <2>3, <2>4
  <2>6. DecidingOf(replies, "veto") = {}
    BY <2>1, <2>2 DEF Account, AllowsVeto
  <2>7. Subscribers(ToolsPreExecute)' = Subscribers(ToolsPreExecute)
    BY <2>1 DEF Subscribers
  <2> QED  BY <2>1, <2>5, <2>6, <2>7 DEF ToolAsked
<1>6. CASE Flow /\ ~PreExecuteAccepted
  <2> USE DEF Events
  <2>1. CASE PreStep \/ PreStepAccepted \/ PreStepVetoed \/ PreExecute \/ End
    BY <1>4, <2>1 DEF PreStep, PreStepAccepted, PreStepVetoed, PreExecute, End, Then
  <2>2. CASE ModelReplies \/ Execute \/ Stopping \/ Chunk \/ NextCall \/ PreExecuteVetoed
    BY <1>4, <2>2 DEF ModelReplies, Execute, Stopping, Chunk, NextCall, PreExecuteVetoed
  <2>3. CASE Request \/ ModelFails \/ Return
    BY <2>3 DEF Request, Run, ModelFails, Return, Close
  <2> QED  BY <1>6, <2>1, <2>2, <2>3 DEF Flow
<1>7. CASE Begin
  BY <1>4, <1>7 DEF Begin, Events
<1>8. CASE UNCHANGED vars
  <2>1. stage' = stage /\ replies' = replies
        /\ Subscribers(ToolsPreExecute)' = Subscribers(ToolsPreExecute)
    BY <1>8 DEF vars, dispatching, Subscribers
  <2> QED  BY <2>1 DEF ToolAsked
<1> QED  BY <1>2, <1>3, <1>5, <1>6, <1>7, <1>8 DEF Next

\* No tool runs unless everybody was asked about this call and nobody refused,
\* and nothing runs in a turn that was refused at a gate before it.
THEOREM GatesAreHeld == Spec => []GatesHold
<1>1. Init => RefusedBy /\ ToolAsked
  BY DEF Init, RefusedBy, ToolAsked, TurnStart, AgentPreStep, AgentRequest, LlmChunk,
     AssistantMessage, ToolCall, ToolsPreExecute, ToolResult, AgentTurnStopping
<1> QED
  BY <1>1, RefusedStep, ToolAskedStep, GatesEnough, AccountHolds, TurnTypeCorrect, PTL DEF Spec
==============================================================================
