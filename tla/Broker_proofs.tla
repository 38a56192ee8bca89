---------------------------- MODULE Broker_proofs ----------------------------
(***************************************************************************)
(* Proofs about Broker, for any numbers of exchanges, queues, keys, clients *)
(* and messages: no pointer to a queue outlives the queue, and a name and   *)
(* an object belong together.                                              *)
(*                                                                         *)
(* IInv is the inductive invariant.  That deleting a queue takes away every *)
(* pointer to it rests on three facts: a list of bindings has one queue     *)
(* (BindingsOK), an address is under one name (OneObjectPerName), and a     *)
(* queue with a subscriber is not in the map of the others                 *)
(* (UnsubMeansNone).  That the loop finds its queues rests on when the      *)
(* handlers run (LoopOK).                                                  *)
(***************************************************************************)
EXTENDS Broker, SequenceTheorems, TLAPS

\* An object's name and its subscribers, each of them once.
IsQueue(o) ==
  /\ "name" \in DOMAIN o /\ "m_vSubscribeConsumers" \in DOMAIN o
  /\ o.m_vSubscribeConsumers \in Seq(Clients)
  /\ IsInjective(o.m_vSubscribeConsumers)

Subscribers(o) == ToSet(o.m_vSubscribeConsumers)

\* p is o but for its messages and counters.
Same(o, p) == /\ IsQueue(p) /\ p.name = o.name
              /\ p.m_vSubscribeConsumers = o.m_vSubscribeConsumers

QueuesOK   == \A a \in DOMAIN objects : IsQueue(objects[a])
PointersOK == /\ DOMAIN m_mSubcribeQueues \subseteq Queues
              /\ \A q \in DOMAIN m_mSubcribeQueues : m_mSubcribeQueues[q] \in DOMAIN objects
              /\ \A q \in DOMAIN m_mUnSubcribeQueues : m_mUnSubcribeQueues[q] \in DOMAIN objects
BindingsOK ==
  \A n \in DOMAIN m_mExchanges :
    /\ "bindings" \in DOMAIN m_mExchanges[n]
    /\ \A k \in DOMAIN m_mExchanges[n].bindings :
         \E a \in DOMAIN objects : m_mExchanges[n].bindings[k] = <<a>>

\* The queues PushMessage goes over push to clients that are there.
SubscribersOnline ==
  \A q \in DOMAIN m_mSubcribeQueues : Subscribers(objects[m_mSubcribeQueues[q]]) \subseteq online

QueueTablesOK == /\ QueuesOK /\ PointersOK /\ OneObjectPerName
                 /\ UnsubMeansNone /\ SubscribersOnline

LoopOK ==
  /\ loop \in [phase : {"push", "receive", "acks", "dead"}, cur : Queues \cup {None},
               todo : SUBSET Queues]
  /\ loop.cur \in DOMAIN m_mSubcribeQueues \cup {None}
  /\ loop.todo \subseteq DOMAIN m_mSubcribeQueues
  /\ loop.phase \in {"receive", "acks"} => loop.cur = None /\ loop.todo = {}

IInv == QueueTablesOK /\ BindingsOK /\ LoopOK /\ online \subseteq Clients
-----------------------------------------------------------------------------
(* MessageQueue *)

(* Taking and putting messages leaves name and subscribers alone. *)
LEMMA MessagesOnly ==
  ASSUME NEW o, IsQueue(o), NEW e, NEW new, NEW i
  PROVE  /\ Same(o, o)
         /\ Same(o, PopFrontMsg(o, e))
         /\ Same(o, [PopFrontMsg(o, e) EXCEPT !.m_iPushIndex = i])
         /\ Same(o, ClearMessage(o))
         /\ Same(o, AddMessage(o, new))
         /\ Same(o, [AddMessage(o, new) EXCEPT !.m_iDurableIndex = i])
         /\ Same(o, AddMessageFront(o, new))
<1>1. Same(o, o) /\ Same(o, PopFrontMsg(o, e))
  BY DEF Same, IsQueue, PopFrontMsg
<1>2. Same(o, [PopFrontMsg(o, e) EXCEPT !.m_iPushIndex = i])
  BY <1>1 DEF Same, IsQueue
<1>3. Same(o, ClearMessage(o))
  BY DEF Same, IsQueue, ClearMessage
<1>4. Same(o, AddMessage(o, new)) /\ Same(o, AddMessageFront(o, new))
  BY DEF Same, IsQueue, AddMessage, AddMessageFront
<1>5. Same(o, [AddMessage(o, new) EXCEPT !.m_iDurableIndex = i])
  BY <1>4 DEF Same, IsQueue
<1>6. QED
  BY <1>1, <1>2, <1>3, <1>4, <1>5

(* An element removed at its position. *)
LEMMA RemoveAtFacts ==
  ASSUME NEW S, NEW s \in Seq(S), NEW j \in 1 .. Len(s)
  PROVE  /\ RemoveAt(s, j) \in Seq(S) /\ Len(RemoveAt(s, j)) = Len(s) - 1
         /\ \A k \in 1 .. Len(RemoveAt(s, j)) :
              RemoveAt(s, j)[k] = IF k < j THEN s[k] ELSE s[k + 1]
<1>1. /\ SubSeq(s, 1, j - 1) \in Seq(S) /\ Len(SubSeq(s, 1, j - 1)) = j - 1
      /\ \A k \in 1 .. j - 1 : SubSeq(s, 1, j - 1)[k] = s[k]
  BY ElementOfSeq
<1>2. /\ SubSeq(s, j + 1, Len(s)) \in Seq(S) /\ Len(SubSeq(s, j + 1, Len(s))) = Len(s) - j
      /\ \A k \in 1 .. Len(s) - j : SubSeq(s, j + 1, Len(s))[k] = s[k + j]
  BY ElementOfSeq
<1> DEFINE r == RemoveAt(s, j)
           u == SubSeq(s, 1, j - 1)
           w == SubSeq(s, j + 1, Len(s))
<1>3. Len(s) \in Nat /\ j \in Nat /\ j <= Len(s) /\ j > 0
  OBVIOUS
<1> HIDE DEF u, w, r
<1>4. /\ u \in Seq(S) /\ w \in Seq(S)
      /\ Len(u) = j - 1 /\ Len(w) = Len(s) - j /\ r = u \o w
  BY <1>1, <1>2 DEF u, w, r, RemoveAt
<1>5. /\ r \in Seq(S) /\ Len(r) = Len(u) + Len(w)
      /\ \A k \in 1 .. Len(u) + Len(w) : r[k] = IF k <= Len(u) THEN u[k] ELSE w[k - Len(u)]
  BY <1>4, ConcatProperties
<1>6. Len(u) + Len(w) = Len(s) - 1
  BY <1>3, <1>4
<1>7. /\ r \in Seq(S) /\ Len(r) = Len(s) - 1
      /\ \A k \in 1 .. Len(s) - 1 : r[k] = IF k <= j - 1 THEN u[k] ELSE w[k - (j - 1)]
  BY <1>4, <1>5, <1>6
<1>8. ASSUME NEW k \in 1 .. Len(s) - 1, k < j
      PROVE  r[k] = s[k]
  BY <1>1, <1>3, <1>7, <1>8 DEF u
<1>9. ASSUME NEW k \in 1 .. Len(s) - 1, ~(k < j)
      PROVE  r[k] = s[k + 1]
  <2>1. r[k] = w[k - (j - 1)] /\ k - (j - 1) \in 1 .. Len(s) - j
    BY <1>3, <1>7, <1>9
  <2>2. w[k - (j - 1)] = s[k - (j - 1) + j]
    BY <1>2, <2>1 DEF w
  <2>3. k - (j - 1) + j = k + 1
    BY <1>3
  <2>4. QED
    BY <2>1, <2>2, <2>3
<1>10. QED
  BY <1>7, <1>8, <1>9 DEF r

(* One occurrence removed from a sequence without repetitions. *)
LEMMA RemovesIt ==
  ASSUME NEW S, NEW s \in Seq(S), IsInjective(s), NEW c
  PROVE  /\ RemoveFirst(s, c) \in Seq(S)
         /\ IsInjective(RemoveFirst(s, c))
         /\ ToSet(RemoveFirst(s, c)) = ToSet(s) \ {c}
<1>1. CASE ~\E i \in 1 .. Len(s) : s[i] = c
  BY <1>1 DEF RemoveFirst, ToSet
<1>2. CASE \E i \in 1 .. Len(s) : s[i] = c
  <2> DEFINE I == {i \in 1 .. Len(s) : s[i] = c}
  <2>1. PICK j \in 1 .. Len(s) : s[j] = c
    BY <1>2
  <2>2. I = {j}
    BY <2>1 DEF IsInjective
  <2>3. Min(I) = j
    <3>1. j \in {j} /\ \A y \in {j} : j <= y
      BY <2>1
    <3>2. \A x \in {j} : (\A y \in {j} : x <= y) => x = j
      OBVIOUS
    <3>3. QED
      BY <2>2, <3>1, <3>2 DEF Min
  <2>4. SelectInSeq(s, LAMBDA v : v = c) = j
    BY <2>2, <2>3 DEF SelectInSeq
  <2> DEFINE r == RemoveFirst(s, c)
  <2>5. r = RemoveAt(s, j)
    BY <1>2, <2>4 DEF RemoveFirst
  <2>6. /\ r \in Seq(S) /\ Len(r) = Len(s) - 1
        /\ \A k \in 1 .. Len(r) : r[k] = IF k < j THEN s[k] ELSE s[k + 1]
    BY <2>1, <2>5, RemoveAtFacts
  <2> HIDE DEF r
  <2>7. IsInjective(r)
    <3> DEFINE at(k) == IF k < j THEN k ELSE k + 1
    <3>1. \A k \in 1 .. Len(r) : at(k) \in 1 .. Len(s) /\ r[k] = s[at(k)]
      BY <2>1, <2>6
    <3>2. \A k, l \in 1 .. Len(r) : at(k) = at(l) => k = l
      BY <2>1
    <3>3. \A k, l \in 1 .. Len(s) : s[k] = s[l] => k = l
      BY <2>1 DEF IsInjective
    <3> HIDE DEF at
    <3>4. \A k, l \in 1 .. Len(r) : r[k] = r[l] => k = l
      BY <3>1, <3>2, <3>3
    <3>5. QED
      BY <2>6, <3>4 DEF IsInjective
  <2>8. ToSet(r) \subseteq ToSet(s) \ {c}
    <3>1. ASSUME NEW k \in 1 .. Len(r)
          PROVE  r[k] \in ToSet(s) /\ r[k] # c
      <4>1. k \in 1 .. Len(s) /\ k + 1 \in 1 .. Len(s)
        BY <2>6
      <4>2. \A i \in 1 .. Len(s) : s[i] \in ToSet(s) /\ (i # j => s[i] # c)
        BY <2>1 DEF ToSet, IsInjective
      <4>3. QED
        BY <2>1, <2>6, <4>1, <4>2
    <3>2. QED
      BY <2>6, <3>1 DEF ToSet
  <2>9. ASSUME NEW i \in 1 .. Len(s), s[i] # c
        PROVE  s[i] \in ToSet(r)
    <3>1. CASE i < j
      BY <2>1, <2>6, <3>1 DEF ToSet
    <3>2. CASE i > j
      <4>1. i - 1 \in 1 .. Len(r) /\ ~(i - 1 < j) /\ (i - 1) + 1 = i
        BY <2>1, <2>6, <3>2
      <4>2. r[i - 1] = s[i]
        BY <2>6, <4>1
      <4>3. QED
        BY <2>6, <4>1, <4>2 DEF ToSet
    <3>3. QED
      BY <2>1, <2>9, <3>1, <3>2
  <2>10. ToSet(s) \ {c} \subseteq ToSet(r)
    <3>1. ASSUME NEW x \in ToSet(s), x # c
          PROVE  x \in ToSet(r)
      <4>1. PICK i \in 1 .. Len(s) : x = s[i]
        BY <3>1 DEF ToSet
      <4>2. QED
        BY <2>9, <3>1, <4>1
    <3>2. QED
      BY <3>1
  <2>11. ToSet(r) = ToSet(s) \ {c}
    BY <2>8, <2>10
  <2>12. QED
    BY <2>6, <2>7, <2>11 DEF r
<1>3. QED
  BY <1>1, <1>2

(* A client comes. *)
LEMMA Subscribes ==
  ASSUME NEW o, IsQueue(o), NEW c \in Clients, NEW level
  PROVE  /\ IsQueue(AddSubscribe(o, c, level)) /\ AddSubscribe(o, c, level).name = o.name
         /\ Subscribers(AddSubscribe(o, c, level)) = Subscribers(o) \cup {c}
<1> DEFINE s == o.m_vSubscribeConsumers
           t == IF c \in ToSet(s) THEN s ELSE Append(s, c)
<1>1. s \in Seq(Clients) /\ IsInjective(s)
  BY DEF IsQueue
<1>2. t \in Seq(Clients) /\ IsInjective(t) /\ ToSet(t) = ToSet(s) \cup {c}
  <2>1. CASE c \in ToSet(s)
    BY <1>1, <2>1
  <2>2. CASE c \notin ToSet(s)
    <3>1. /\ t \in Seq(Clients) /\ Len(t) = Len(s) + 1 /\ t[Len(t)] = c
          /\ \A i \in 1 .. Len(s) : t[i] = s[i]
      BY <1>1, <2>2
    <3>2. \A i \in 1 .. Len(s) : s[i] # c
      BY <1>1, <2>2 DEF ToSet
    <3>3. IsInjective(t)
      BY <1>1, <3>1, <3>2 DEF IsInjective
    <3>4. ToSet(t) = ToSet(s) \cup {c}
      BY <1>1, <3>1 DEF ToSet
    <3>5. QED
      BY <3>1, <3>3, <3>4
  <2>3. QED
    BY <2>1, <2>2
<1>3. AddSubscribe(o, c, level) = [o EXCEPT !.m_vSubscribeConsumers = t, !.m_iConfirmLevel = level]
  BY DEF AddSubscribe
<1>4. QED
  BY <1>2, <1>3 DEF IsQueue, Subscribers

(* A client goes. *)
LEMMA Cancels ==
  ASSUME NEW o, IsQueue(o), NEW c
  PROVE  /\ IsQueue(CancelSubscribe(o, c)) /\ CancelSubscribe(o, c).name = o.name
         /\ Subscribers(CancelSubscribe(o, c)) = Subscribers(o) \ {c}
<1> DEFINE t == RemoveFirst(o.m_vSubscribeConsumers, c)
<1>1. t \in Seq(Clients) /\ IsInjective(t) /\ ToSet(t) = Subscribers(o) \ {c}
  BY RemovesIt DEF IsQueue, Subscribers
<1>2. CancelSubscribe(o, c) =
        [o EXCEPT !.m_vSubscribeConsumers = t, !.m_iConfirmLevel = IF t = <<>> THEN 0 ELSE @]
  BY DEF CancelSubscribe
<1>3. QED
  BY <1>1, <1>2 DEF IsQueue, Subscribers

(* Nobody subscribed and no subscribers is the same. *)
LEMMA NoSubscribers ==
  ASSUME NEW o, IsQueue(o)
  PROVE  IsSubscribe(o) <=> Subscribers(o) # {}
<1> DEFINE s == o.m_vSubscribeConsumers
<1>1. s \in Seq(Clients)
  BY DEF IsQueue
<1>2. s = <<>> \/ s[1] \in ToSet(s)
  BY <1>1, EmptySeq DEF ToSet
<1>3. ToSet(<<>>) = {}
  BY DEF ToSet
<1>4. QED
  BY <1>2, <1>3 DEF IsSubscribe, Subscribers
-----------------------------------------------------------------------------
(* Exchange *)

\* Exchange y has bindings that x has, none of them to a queue in A.
Fewer(x, y, A) ==
  /\ "bindings" \in DOMAIN y
  /\ \A k \in DOMAIN y.bindings :
       /\ k \in DOMAIN x.bindings /\ y.bindings[k] = x.bindings[k]
       /\ \A a \in A : y.bindings[k] # <<a>>

(* Queues deleted are in no binding that stays. *)
LEMMA Deletes ==
  ASSUME NEW x, "bindings" \in DOMAIN x, NEW A
  PROVE  Fewer(x, DeleteBindingQueue(x, A), A)
<1> DEFINE gone == {k \in DOMAIN x.bindings : \E a \in A : ToSet(x.bindings[k]) \subseteq {a}}
           y == DeleteBindingQueue(x, A)
<1>1. y = [x EXCEPT !.bindings = Drop(x.bindings, gone)]
  BY DEF DeleteBindingQueue
<1>2. "bindings" \in DOMAIN y /\ y.bindings = Drop(x.bindings, gone)
  BY <1>1
<1>3. \A k \in DOMAIN y.bindings : k \in DOMAIN x.bindings \ gone /\ y.bindings[k] = x.bindings[k]
  BY <1>2 DEF Drop
<1>4. ASSUME NEW k \in DOMAIN x.bindings, NEW a \in A, x.bindings[k] = <<a>>
      PROVE  k \in gone
  <2>1. ToSet(<<a>>) = {a}
    BY DEF ToSet
  <2>2. QED
    BY <1>4, <2>1
<1>5. QED
  BY <1>2, <1>3, <1>4 DEF Fewer

(* What Unbind leaves of the exchanges. *)
LEMMA Unbinds ==
  ASSUME BindingsOK, NEW ns, NEW A
  PROVE  /\ \A n \in DOMAIN Unbind(ns, A) :
              n \in DOMAIN m_mExchanges /\ Fewer(m_mExchanges[n], Unbind(ns, A)[n], {})
         /\ \A n \in DOMAIN Unbind(ns, A) \cap ns : Fewer(m_mExchanges[n], Unbind(ns, A)[n], A)
<1>1. \A n \in DOMAIN m_mExchanges :
        /\ Fewer(m_mExchanges[n], DeleteBindingQueue(m_mExchanges[n], A), A)
        /\ Fewer(m_mExchanges[n], m_mExchanges[n], {})
  BY Deletes DEF BindingsOK, Fewer
<1>2. \A n \in DOMAIN Unbind(ns, A) :
        /\ n \in DOMAIN m_mExchanges
        /\ Unbind(ns, A)[n] = IF n \in ns THEN DeleteBindingQueue(m_mExchanges[n], A)
                              ELSE m_mExchanges[n]
  BY DEF Unbind
<1>3. QED
  BY <1>1, <1>2 DEF Fewer

(* Bindings may go, and with them the queues they are not to any more. *)
LEMMA BindingsKept ==
  ASSUME BindingsOK, NEW A,
         \A n \in DOMAIN m_mExchanges' :
           n \in DOMAIN m_mExchanges /\ Fewer(m_mExchanges[n], m_mExchanges'[n], A),
         DOMAIN objects \ A \subseteq DOMAIN objects'
  PROVE  BindingsOK'
<1> SUFFICES ASSUME NEW n \in DOMAIN m_mExchanges'
             PROVE  /\ "bindings" \in DOMAIN m_mExchanges'[n]
                    /\ \A k \in DOMAIN m_mExchanges'[n].bindings :
                         \E a \in DOMAIN objects' : m_mExchanges'[n].bindings[k] = <<a>>
  BY DEF BindingsOK
<1>1. n \in DOMAIN m_mExchanges /\ Fewer(m_mExchanges[n], m_mExchanges'[n], A)
  OBVIOUS
<1>2. ASSUME NEW k \in DOMAIN m_mExchanges'[n].bindings
      PROVE  \E a \in DOMAIN objects' : m_mExchanges'[n].bindings[k] = <<a>>
  <2>1. /\ k \in DOMAIN m_mExchanges[n].bindings
        /\ m_mExchanges'[n].bindings[k] = m_mExchanges[n].bindings[k]
        /\ \A a \in A : m_mExchanges'[n].bindings[k] # <<a>>
    BY <1>1 DEF Fewer
  <2>2. PICK a \in DOMAIN objects : m_mExchanges[n].bindings[k] = <<a>>
    BY <1>1, <2>1 DEF BindingsOK
  <2>3. QED
    BY <2>1, <2>2
<1>3. QED
  BY <1>1, <1>2 DEF Fewer

(* The exchanges stay as they are, and so do the queues. *)
LEMMA BindingsStay ==
  ASSUME BindingsOK, UNCHANGED m_mExchanges, DOMAIN objects \subseteq DOMAIN objects'
  PROVE  BindingsOK'
BY DEF BindingsOK
-----------------------------------------------------------------------------
(* The maps of queues *)

\* A listed name and its address.
At(q, a) == \/ q \in DOMAIN m_mSubcribeQueues /\ a = m_mSubcribeQueues[q]
            \/ q \in DOMAIN m_mUnSubcribeQueues /\ a = m_mUnSubcribeQueues[q]

(* An address has one name, a name one address. *)
LEMMA OneName ==
  ASSUME QueueTablesOK, NEW q, NEW r, NEW a, NEW b, At(q, a), At(r, b)
  PROVE  /\ a \in DOMAIN objects /\ objects[a].name = q
         /\ q = r <=> a = b
<1>1. \A p, d : At(p, d) => d \in DOMAIN objects /\ objects[d].name = p
  BY DEF QueueTablesOK, PointersOK, OneObjectPerName, At
<1>2. q = r => a = b
  BY DEF QueueTablesOK, OneObjectPerName, At
<1>3. QED
  BY <1>1, <1>2

(* Queues may be deleted, go from one map to the other or out of both, get and
   lose subscribers. *)
LEMMA Moves ==
  ASSUME QueueTablesOK, DOMAIN m_mSubcribeQueues' \subseteq Queues,
         \A a \in DOMAIN objects' :
           /\ a \in DOMAIN objects /\ IsQueue(objects'[a])
           /\ objects'[a].name = objects[a].name,
         \A q \in DOMAIN m_mSubcribeQueues' :
           /\ At(q, m_mSubcribeQueues'[q]) /\ m_mSubcribeQueues'[q] \in DOMAIN objects'
           /\ Subscribers(objects'[m_mSubcribeQueues'[q]]) \subseteq online',
         \A q \in DOMAIN m_mUnSubcribeQueues' :
           /\ At(q, m_mUnSubcribeQueues'[q]) /\ m_mUnSubcribeQueues'[q] \in DOMAIN objects'
           /\ ~IsSubscribe(objects'[m_mUnSubcribeQueues'[q]])
  PROVE  QueueTablesOK'
<1>1. QueuesOK' /\ PointersOK'
  BY DEF QueuesOK, PointersOK
<1>2. OneObjectPerName'
  <2>1. /\ \A q \in DOMAIN m_mSubcribeQueues' : objects'[m_mSubcribeQueues'[q]].name = q
        /\ \A q \in DOMAIN m_mUnSubcribeQueues' : objects'[m_mUnSubcribeQueues'[q]].name = q
    BY OneName
  <2>2. \A q \in DOMAIN m_mSubcribeQueues' \cap DOMAIN m_mUnSubcribeQueues' :
          m_mSubcribeQueues'[q] = m_mUnSubcribeQueues'[q]
    BY OneName
  <2>3. QED
    BY <2>1, <2>2 DEF OneObjectPerName
<1>3. UnsubMeansNone' /\ SubscribersOnline'
  BY DEF UnsubMeansNone, SubscribersOnline
<1>4. QED
  BY <1>1, <1>2, <1>3 DEF QueueTablesOK

(* The maps stay, and of the objects what the maps are about. *)
LEMMA MapsStay ==
  ASSUME QueueTablesOK, UNCHANGED <<m_mSubcribeQueues, m_mUnSubcribeQueues>>,
         online \subseteq online', DOMAIN objects' = DOMAIN objects,
         \A a \in DOMAIN objects : Same(objects[a], objects'[a])
  PROVE  QueueTablesOK'
<1>1. QueuesOK' /\ PointersOK' /\ OneObjectPerName'
  BY DEF QueueTablesOK, QueuesOK, PointersOK, OneObjectPerName, Same
<1>2. UnsubMeansNone' /\ SubscribersOnline'
  BY DEF QueueTablesOK, PointersOK, UnsubMeansNone, SubscribersOnline, Same, IsSubscribe,
         Subscribers
<1>3. QED
  BY <1>1, <1>2 DEF QueueTablesOK
-----------------------------------------------------------------------------
(* The loop *)

(* A step that leaves the tables alone. *)
LEMMA TablesStay ==
  ASSUME IInv, UNCHANGED tables, online \subseteq online'
  PROVE  QueueTablesOK' /\ BindingsOK'
<1>1. \A a \in DOMAIN objects : Same(objects[a], objects'[a])
  BY MessagesOnly DEF IInv, QueueTablesOK, QueuesOK, tables
<1>2. QED
  BY <1>1, MapsStay, BindingsStay DEF IInv, tables

(* A handler runs when PushMessage has no queue in hand. *)
LEMMA LoopStays ==
  ASSUME LoopOK, UNCHANGED loop, loop.phase = "receive" \/ UNCHANGED m_mSubcribeQueues
  PROVE  LoopOK'
BY DEF LoopOK

LEMMA VisitQueueKeeps ==
  ASSUME IInv, NEW q \in loop.todo, VisitQueue(q)
  PROVE  IInv'
<1>1. /\ loop.phase = "push" /\ loop.cur = None
      /\ UNCHANGED <<m_mExchanges, objects, online>>
  BY DEF VisitQueue, clients
<1>2. q \in DOMAIN m_mSubcribeQueues /\ q \in Queues /\ IsQueue(objects[m_mSubcribeQueues[q]])
  BY DEF IInv, LoopOK, QueueTablesOK, PointersOK, QueuesOK
<1>3. BindingsOK' /\ online' \subseteq Clients
  BY <1>1, BindingsStay DEF IInv
<1>4. CASE /\ loop' = [loop EXCEPT !.cur = q, !.todo = @ \ {q}]
           /\ UNCHANGED <<m_mSubcribeQueues, m_mUnSubcribeQueues>>
  <2>1. LoopOK'
    BY <1>2, <1>4 DEF IInv, LoopOK
  <2>2. QED
    BY <1>1, <1>3, <1>4, <2>1, TablesStay DEF IInv, tables
<1>5. ASSUME NEW next \in loop.todo \ {q},
             ~IsSubscribe(objects[m_mSubcribeQueues[q]]),
             m_mSubcribeQueues' = Drop(m_mSubcribeQueues, {next}),
             m_mUnSubcribeQueues' = Put(m_mUnSubcribeQueues, q, m_mSubcribeQueues[q]),
             loop' = [loop EXCEPT !.todo = @ \ {q, next}]
      PROVE  IInv'
  <2>1. /\ DOMAIN m_mSubcribeQueues' = DOMAIN m_mSubcribeQueues \ {next}
        /\ \A r \in DOMAIN m_mSubcribeQueues' : m_mSubcribeQueues'[r] = m_mSubcribeQueues[r]
    BY <1>5 DEF Drop
  <2>2. /\ DOMAIN m_mUnSubcribeQueues' = DOMAIN m_mUnSubcribeQueues \cup {q}
        /\ \A r \in DOMAIN m_mUnSubcribeQueues' :
             m_mUnSubcribeQueues'[r] = IF r = q THEN m_mSubcribeQueues[q] ELSE m_mUnSubcribeQueues[r]
    BY <1>5 DEF Put
  <2>3. LoopOK'
    BY <1>1, <1>5, <2>1 DEF IInv, LoopOK
  <2>4. \A a \in DOMAIN objects' :
          a \in DOMAIN objects /\ IsQueue(objects'[a]) /\ objects'[a].name = objects[a].name
    BY <1>1 DEF IInv, QueueTablesOK, QueuesOK
  <2>5. \A r \in DOMAIN m_mSubcribeQueues' :
          /\ At(r, m_mSubcribeQueues'[r]) /\ m_mSubcribeQueues'[r] \in DOMAIN objects'
          /\ Subscribers(objects'[m_mSubcribeQueues'[r]]) \subseteq online'
    BY <1>1, <2>1 DEF IInv, QueueTablesOK, PointersOK, SubscribersOnline, At
  <2>6. \A r \in DOMAIN m_mUnSubcribeQueues' :
          /\ At(r, m_mUnSubcribeQueues'[r]) /\ m_mUnSubcribeQueues'[r] \in DOMAIN objects'
          /\ ~IsSubscribe(objects'[m_mUnSubcribeQueues'[r]])
    BY <1>1, <1>2, <1>5, <2>2 DEF IInv, QueueTablesOK, PointersOK, UnsubMeansNone, At
  <2>7. QueueTablesOK'
    BY <2>1, <2>4, <2>5, <2>6, Moves DEF IInv, QueueTablesOK, PointersOK
  <2>8. QED
    BY <1>3, <2>3, <2>7 DEF IInv
<1>6. CASE /\ loop' = [loop EXCEPT !.phase = "dead"]
           /\ UNCHANGED <<m_mSubcribeQueues, m_mUnSubcribeQueues>>
  <2>1. LoopOK'
    BY <1>6 DEF IInv, LoopOK
  <2>2. QED
    BY <1>1, <1>3, <1>6, <2>1, TablesStay DEF IInv, tables
<1>7. QED
  BY <1>4, <1>5, <1>6 DEF VisitQueue

LEMMA PushOneKeeps ==
  ASSUME IInv, NEW sent, PushOne(sent)
  PROVE  IInv'
<1> DEFINE a == m_mSubcribeQueues[loop.cur]
           o == objects[a]
<1>1. /\ UNCHANGED <<m_mExchanges, m_mSubcribeQueues, m_mUnSubcribeQueues, loop, online>>
      /\ \E e, i : objects' = [objects EXCEPT ![a] = [PopFrontMsg(o, e) EXCEPT !.m_iPushIndex = i]]
  BY DEF PushOne, clients
<1>2. PICK e, i : objects' = [objects EXCEPT ![a] = [PopFrontMsg(o, e) EXCEPT !.m_iPushIndex = i]]
  BY <1>1
<1>3. \A b \in DOMAIN objects : IsQueue(objects[b])
  BY DEF IInv, QueueTablesOK, QueuesOK
<1>4. /\ DOMAIN objects' = DOMAIN objects
      /\ \A b \in DOMAIN objects : Same(objects[b], objects'[b])
  BY <1>2, <1>3, MessagesOnly
<1>5. QueueTablesOK' /\ BindingsOK' /\ LoopOK'
  BY <1>1, <1>4, MapsStay, BindingsStay, LoopStays DEF IInv
<1>6. QED
  BY <1>1, <1>5 DEF IInv

LEMMA LoopStepKeeps ==
  ASSUME IInv, LoopStep
  PROVE  IInv'
<1>1. CASE \E q \in loop.todo : VisitQueue(q)
  BY <1>1, VisitQueueKeeps
<1>2. CASE \E sent \in Answers : PushOne(sent)
  BY <1>2, PushOneKeeps
<1>3. CASE QueueDrained
  <2>1. UNCHANGED tables /\ UNCHANGED online /\ loop' = [loop EXCEPT !.cur = None]
    BY <1>3 DEF QueueDrained, clients
  <2>2. LoopOK'
    BY <2>1 DEF IInv, LoopOK, tables
  <2>3. QED
    BY <2>1, <2>2, TablesStay DEF IInv
<1>4. CASE PushDone
  <2>1. /\ UNCHANGED tables /\ UNCHANGED online /\ loop.cur = None /\ loop.todo = {}
        /\ loop' = [loop EXCEPT !.phase = "receive"]
    BY <1>4 DEF PushDone, clients
  <2>2. LoopOK'
    BY <2>1 DEF IInv, LoopOK, tables
  <2>3. QED
    BY <2>1, <2>2, TablesStay DEF IInv
<1>5. CASE ReceiveDone
  <2>1. /\ UNCHANGED tables /\ UNCHANGED online /\ loop.phase = "receive"
        /\ loop' = [loop EXCEPT !.phase = "acks"]
    BY <1>5 DEF ReceiveDone, clients
  <2>2. LoopOK'
    BY <2>1 DEF IInv, LoopOK, tables
  <2>3. QED
    BY <2>1, <2>2, TablesStay DEF IInv
<1>6. CASE SendMultiAck
  <2>1. UNCHANGED tables /\ UNCHANGED online
    BY <1>6 DEF SendMultiAck, clients
  <2>2. \/ UNCHANGED loop
        \/ loop' = [phase |-> "push", cur |-> None, todo |-> DOMAIN m_mSubcribeQueues]
    BY <1>6 DEF SendMultiAck, RoundQueues
  <2>3. LoopOK'
    BY <2>1, <2>2 DEF IInv, LoopOK, tables, QueueTablesOK, PointersOK
  <2>4. QED
    BY <2>1, <2>3, TablesStay DEF IInv
<1>7. QED
  BY <1>1, <1>2, <1>3, <1>4, <1>5, <1>6 DEF LoopStep
-----------------------------------------------------------------------------
(* The handlers *)

(* A handler that only answers. *)
LEMMA OnlyAnswers ==
  ASSUME IInv, UNCHANGED tables, UNCHANGED loop, online \subseteq online', online' \subseteq Clients
  PROVE  IInv'
BY TablesStay, LoopStays DEF IInv, tables

(* The queues stay, the exchanges change. *)
LEMMA QueuesStay ==
  ASSUME IInv, UNCHANGED <<m_mSubcribeQueues, m_mUnSubcribeQueues, objects, loop, online>>,
         BindingsOK'
  PROVE  IInv'
<1>1. \A a \in DOMAIN objects : Same(objects[a], objects'[a])
  BY MessagesOnly DEF IInv, QueueTablesOK, QueuesOK
<1>2. QueueTablesOK' /\ LoopOK'
  BY <1>1, MapsStay, LoopStays DEF IInv
<1>3. QED
  BY <1>2 DEF IInv

LEMMA OnCreateExchangeKeeps ==
  ASSUME IInv, NEW c, NEW x, NEW kind, NEW ok, OnCreateExchange(c, x, kind, ok)
  PROVE  IInv'
<1>1. UNCHANGED <<m_mSubcribeQueues, m_mUnSubcribeQueues, objects, loop, online>>
  BY DEF OnCreateExchange, clients
<1>2. \/ UNCHANGED m_mExchanges
      \/ m_mExchanges' = Put(m_mExchanges, x, NewExchange(kind))
  BY DEF OnCreateExchange
<1>3. "bindings" \in DOMAIN NewExchange(kind) /\ DOMAIN NewExchange(kind).bindings = {}
  BY DEF NewExchange, EmptyMap
<1>4. BindingsOK'
  <2>1. CASE UNCHANGED m_mExchanges
    BY <1>1, <2>1, BindingsStay DEF IInv
  <2>2. CASE m_mExchanges' = Put(m_mExchanges, x, NewExchange(kind))
    BY <1>1, <1>3, <2>2 DEF IInv, BindingsOK, Put
  <2>3. QED
    BY <1>2, <2>1, <2>2
<1>5. QED
  BY <1>1, <1>4, QueuesStay

LEMMA OnCreateQueueKeeps ==
  ASSUME IInv, NEW c, NEW q \in Queues, NEW kind, NEW ok, OnCreateQueue(c, q, kind, ok)
  PROVE  IInv'
<1>1. UNCHANGED <<m_mExchanges, m_mSubcribeQueues, loop, online>>
  BY DEF OnCreateQueue, clients
<1>2. CASE UNCHANGED <<m_mUnSubcribeQueues, objects>>
  BY <1>1, <1>2, OnlyAnswers DEF IInv, tables
<1>3. ASSUME ~Named(q), NEW a \in FreeAddresses,
             objects' = Put(objects, a, NewQueue(q, kind)),
             m_mUnSubcribeQueues' = Put(m_mUnSubcribeQueues, q, a)
      PROVE  IInv'
  <2>1. a \notin DOMAIN objects
    BY <1>3 DEF FreeAddresses
  <2>2. /\ DOMAIN objects' = DOMAIN objects \cup {a}
        /\ \A b \in DOMAIN objects : objects'[b] = objects[b]
        /\ objects'[a] = NewQueue(q, kind)
    BY <1>3, <2>1 DEF Put
  <2>3. /\ IsQueue(NewQueue(q, kind)) /\ NewQueue(q, kind).name = q
        /\ ~IsSubscribe(NewQueue(q, kind))
    BY EmptySeq DEF NewQueue, IsQueue, IsInjective, IsSubscribe
  <2>4. /\ DOMAIN m_mUnSubcribeQueues' = DOMAIN m_mUnSubcribeQueues \cup {q}
        /\ \A r \in DOMAIN m_mUnSubcribeQueues : r # q /\ m_mUnSubcribeQueues'[r] = m_mUnSubcribeQueues[r]
        /\ m_mUnSubcribeQueues'[q] = a /\ q \notin DOMAIN m_mSubcribeQueues
    BY <1>3 DEF Put, Named
  <2>5. QueuesOK' /\ PointersOK'
    BY <1>1, <2>2, <2>3, <2>4 DEF IInv, QueueTablesOK, QueuesOK, PointersOK
  <2>6. OneObjectPerName' /\ UnsubMeansNone' /\ SubscribersOnline'
    BY <1>1, <2>2, <2>3, <2>4 DEF IInv, QueueTablesOK, PointersOK, OneObjectPerName,
       UnsubMeansNone, SubscribersOnline
  <2>7. BindingsOK'
    BY <1>1, <2>2, BindingsStay DEF IInv
  <2>8. QED
    BY <1>1, <2>5, <2>6, <2>7, LoopStays DEF IInv, QueueTablesOK
<1>4. QED
  BY <1>2, <1>3 DEF OnCreateQueue

LEMMA OnCreateBindingKeeps ==
  ASSUME IInv, NEW c, NEW x, NEW q, NEW key, NEW ok, OnCreateBinding(c, x, q, key, ok)
  PROVE  IInv'
<1>1. UNCHANGED <<loop, online>>
  BY DEF OnCreateBinding, clients
<1>2. CASE Refuse(c)
  BY <1>1, <1>2, OnlyAnswers DEF IInv, Refuse
<1>3. CASE /\ x \in DOMAIN m_mExchanges /\ Named(q)
           /\ m_mExchanges' =
                [m_mExchanges EXCEPT ![x].bindings = CreateBinding(@, key, QueueOf(q))]
           /\ UNCHANGED <<m_mSubcribeQueues, m_mUnSubcribeQueues, objects>>
  <2> DEFINE old == m_mExchanges[x].bindings
             new == CreateBinding(old, key, QueueOf(q))
  <2>1. QueueOf(q) \in DOMAIN objects
    BY <1>3 DEF IInv, QueueTablesOK, PointersOK, Named, QueueOf
  <2>2. \A k \in DOMAIN old : \E a \in DOMAIN objects : old[k] = <<a>>
    BY <1>3 DEF IInv, BindingsOK
  <2>3. \A k \in DOMAIN new : \E a \in DOMAIN objects : new[k] = <<a>>
    BY <2>1, <2>2 DEF CreateBinding, Put
  <2>4. "bindings" \in DOMAIN m_mExchanges[x]
    BY <1>3 DEF IInv, BindingsOK
  <2>5. m_mExchanges' = [m_mExchanges EXCEPT ![x] = [m_mExchanges[x] EXCEPT !.bindings = new]]
    BY <1>3
  <2> HIDE DEF new
  <2>6. /\ DOMAIN m_mExchanges' = DOMAIN m_mExchanges
        /\ \A n \in DOMAIN m_mExchanges : n # x => m_mExchanges'[n] = m_mExchanges[n]
        /\ "bindings" \in DOMAIN m_mExchanges'[x] /\ m_mExchanges'[x].bindings = new
    BY <1>3, <2>4, <2>5
  <2>7. BindingsOK'
    BY <1>3, <2>3, <2>6 DEF IInv, BindingsOK
  <2>8. QED
    BY <1>1, <1>3, <2>7, QueuesStay
<1>4. QED
  BY <1>2, <1>3 DEF OnCreateBinding

LEMMA OnPublishMessageKeeps ==
  ASSUME IInv, NEW c, NEW x, NEW key, NEW m, OnPublishMessage(c, x, key, m)
  PROVE  IInv'
<1>1. UNCHANGED <<loop, online>>
  BY DEF OnPublishMessage, clients
<1> DEFINE t == IF x \in DOMAIN m_mExchanges
                THEN SetToSeq(FindBindingQueue(m_mExchanges[x], key))
                ELSE <<>>
<1>2. \/ UNCHANGED tables
      \/ /\ UNCHANGED <<m_mExchanges, m_mSubcribeQueues, m_mUnSubcribeQueues>>
         /\ objects' = [a \in DOMAIN objects |-> Filled(a, t, NewCopies(m, t))]
  BY Zenon DEF OnPublishMessage, Refuse
<1>3. CASE UNCHANGED tables
  BY <1>1, <1>3, OnlyAnswers DEF IInv
<1>4. ASSUME UNCHANGED <<m_mExchanges, m_mSubcribeQueues, m_mUnSubcribeQueues>>,
             NEW targets, NEW new, objects' = [a \in DOMAIN objects |-> Filled(a, targets, new)]
      PROVE  IInv'
  <2>1. \A a \in DOMAIN objects : IsQueue(objects[a])
    BY DEF IInv, QueueTablesOK, QueuesOK
  <2>2. \A a \in DOMAIN objects : Same(objects[a], Filled(a, targets, new))
    <3> TAKE a \in DOMAIN objects
    <3> DEFINE mine == Keep(new, {e \in ToSet(new) : targets[e.id - copies][2] = a})
               more == Cardinality({i \in DOMAIN mine : mine[i].index # -1})
               o == AddMessage(objects[a], mine)
    <3>1. Filled(a, targets, new) = [o EXCEPT !.m_iDurableIndex = @ + more]
      BY DEF Filled
    <3>2. Same(objects[a], o)
      BY <2>1, MessagesOnly
    <3> HIDE DEF o, more
    <3>3. QED
      BY <3>1, <3>2 DEF Same, IsQueue
  <2>3. /\ DOMAIN objects' = DOMAIN objects
        /\ \A a \in DOMAIN objects : Same(objects[a], objects'[a])
    BY <1>4, <2>2
  <2>4. QueueTablesOK' /\ BindingsOK' /\ LoopOK'
    BY <1>1, <1>4, <2>3, MapsStay, BindingsStay, LoopStays DEF IInv
  <2>5. QED
    BY <1>1, <2>4 DEF IInv
<1>5. QED
  BY <1>2, <1>3, <1>4

LEMMA OnRecvMessageKeeps ==
  ASSUME IInv, NEW c, NEW q, NEW level, NEW sent, OnRecvMessage(c, q, level, sent)
  PROVE  IInv'
<1>1. UNCHANGED <<loop, online>>
  BY DEF OnRecvMessage, clients
<1>2. \/ UNCHANGED tables
      \/ /\ UNCHANGED <<m_mExchanges, m_mSubcribeQueues, m_mUnSubcribeQueues>>
         /\ \E e : objects' = [objects EXCEPT ![QueueOf(q)] = PopFrontMsg(@, e)]
  BY DEF OnRecvMessage, Refuse
<1>3. CASE UNCHANGED tables
  BY <1>1, <1>3, OnlyAnswers DEF IInv
<1>4. ASSUME UNCHANGED <<m_mExchanges, m_mSubcribeQueues, m_mUnSubcribeQueues>>,
             NEW e, objects' = [objects EXCEPT ![QueueOf(q)] = PopFrontMsg(@, e)]
      PROVE  IInv'
  <2>1. \A a \in DOMAIN objects : IsQueue(objects[a])
    BY DEF IInv, QueueTablesOK, QueuesOK
  <2>2. /\ DOMAIN objects' = DOMAIN objects
        /\ \A a \in DOMAIN objects : Same(objects[a], objects'[a])
    BY <1>4, <2>1, MessagesOnly
  <2>3. QueueTablesOK' /\ BindingsOK' /\ LoopOK'
    BY <1>1, <1>4, <2>2, MapsStay, BindingsStay, LoopStays DEF IInv
  <2>4. QED
    BY <1>1, <2>3 DEF IInv
<1>5. QED
  BY <1>2, <1>3, <1>4

(* Queues and subscribers may go; a queue new among the unsubscribed ones has
   nobody left. *)
LEMMA Leaves ==
  ASSUME QueueTablesOK, online \subseteq online',
         \A a \in DOMAIN objects' :
           /\ a \in DOMAIN objects /\ IsQueue(objects'[a])
           /\ objects'[a].name = objects[a].name
           /\ Subscribers(objects'[a]) \subseteq Subscribers(objects[a]),
         \A q \in DOMAIN m_mSubcribeQueues' :
           /\ q \in DOMAIN m_mSubcribeQueues /\ m_mSubcribeQueues'[q] = m_mSubcribeQueues[q]
           /\ m_mSubcribeQueues[q] \in DOMAIN objects',
         \A q \in DOMAIN m_mUnSubcribeQueues' :
           /\ At(q, m_mUnSubcribeQueues'[q]) /\ m_mUnSubcribeQueues'[q] \in DOMAIN objects'
           /\ \/ q \in DOMAIN m_mUnSubcribeQueues
              \/ ~IsSubscribe(objects'[m_mUnSubcribeQueues'[q]])
  PROVE  QueueTablesOK'
<1>1. \A q \in DOMAIN m_mSubcribeQueues' :
        /\ At(q, m_mSubcribeQueues'[q]) /\ m_mSubcribeQueues'[q] \in DOMAIN objects'
        /\ Subscribers(objects'[m_mSubcribeQueues'[q]]) \subseteq online'
  BY DEF At, QueueTablesOK, SubscribersOnline
<1>2. ASSUME NEW q \in DOMAIN m_mUnSubcribeQueues', q \in DOMAIN m_mUnSubcribeQueues
      PROVE  ~IsSubscribe(objects'[m_mUnSubcribeQueues'[q]])
  <2> DEFINE a == m_mUnSubcribeQueues'[q]
  <2>1. At(q, m_mUnSubcribeQueues[q]) /\ At(q, a) /\ a \in DOMAIN objects'
    BY <1>2 DEF At
  <2>2. a = m_mUnSubcribeQueues[q]
    BY <2>1, OneName
  <2>3. ~IsSubscribe(objects[a]) /\ IsQueue(objects[a])
    BY <1>2, <2>1, <2>2 DEF QueueTablesOK, UnsubMeansNone, QueuesOK
  <2>4. Subscribers(objects'[a]) = {}
    BY <2>1, <2>3, NoSubscribers
  <2>5. QED
    BY <2>1, <2>4, NoSubscribers
<1>3. \A q \in DOMAIN m_mUnSubcribeQueues' :
        /\ At(q, m_mUnSubcribeQueues'[q]) /\ m_mUnSubcribeQueues'[q] \in DOMAIN objects'
        /\ ~IsSubscribe(objects'[m_mUnSubcribeQueues'[q]])
  BY <1>2
<1>4. DOMAIN m_mSubcribeQueues' \subseteq Queues
  BY DEF QueueTablesOK, PointersOK
<1>5. QED
  BY <1>1, <1>3, <1>4, Moves

LEMMA OnCreateSubscribeKeeps ==
  ASSUME IInv, NEW c \in Clients, NEW q \in Queues, NEW level, NEW ok,
         OnCreateSubscribe(c, q, level, ok)
  PROVE  IInv'
<1> DEFINE a == QueueOf(q)
           o == AddSubscribe(objects[a], c, level)
<1>1. UNCHANGED <<loop, online>> /\ loop.phase = "receive" /\ c \in online
  BY DEF OnCreateSubscribe, Receive, clients
<1>2. CASE Refuse(c)
  BY <1>1, <1>2, OnlyAnswers DEF IInv, Refuse
<1>3. ASSUME Named(q), UNCHANGED m_mExchanges
      PROVE  /\ At(q, a) /\ a \in DOMAIN objects
             /\ IsQueue(o) /\ o.name = objects[a].name
             /\ Subscribers(o) = Subscribers(objects[a]) \cup {c}
             /\ \A b \in DOMAIN objects : IsQueue(objects[b])
  <2>1. At(q, a) /\ a \in DOMAIN objects /\ \A b \in DOMAIN objects : IsQueue(objects[b])
    BY <1>3 DEF Named, QueueOf, At, IInv, QueueTablesOK, PointersOK, QueuesOK
  <2>2. QED
    BY <2>1, Subscribes
<1>4. ASSUME Named(q), UNCHANGED m_mExchanges,
             objects' = [objects EXCEPT ![a] = o],
             m_mUnSubcribeQueues' = Drop(m_mUnSubcribeQueues, {q}),
             m_mSubcribeQueues' = IF q \in DOMAIN m_mUnSubcribeQueues
                                  THEN Put(m_mSubcribeQueues, q, a) ELSE m_mSubcribeQueues
      PROVE  IInv'
  <2> HIDE DEF a, o
  <2>1. /\ At(q, a) /\ a \in DOMAIN objects
        /\ IsQueue(o) /\ o.name = objects[a].name
        /\ Subscribers(o) = Subscribers(objects[a]) \cup {c}
        /\ \A b \in DOMAIN objects : IsQueue(objects[b])
    BY <1>3, <1>4
  <2>2. /\ DOMAIN objects' = DOMAIN objects /\ objects'[a] = o
        /\ \A b \in DOMAIN objects : b # a => objects'[b] = objects[b]
    BY <1>4, <2>1
  <2>3. Subscribers(objects[a]) \subseteq online
    <3>1. CASE q \in DOMAIN m_mSubcribeQueues /\ a = m_mSubcribeQueues[q]
      BY <3>1 DEF IInv, QueueTablesOK, SubscribersOnline
    <3>2. CASE q \in DOMAIN m_mUnSubcribeQueues /\ a = m_mUnSubcribeQueues[q]
      <4>1. ~IsSubscribe(objects[a])
        BY <3>2 DEF IInv, QueueTablesOK, UnsubMeansNone
      <4>2. QED
        BY <2>1, <4>1, NoSubscribers
    <3>3. QED
      BY <2>1, <3>1, <3>2 DEF At
  <2>4. \A b \in DOMAIN objects' :
          b \in DOMAIN objects /\ IsQueue(objects'[b]) /\ objects'[b].name = objects[b].name
    BY <2>1, <2>2
  <2>5. /\ \A r \in DOMAIN m_mSubcribeQueues' :
             \/ r = q
             \/ r \in DOMAIN m_mSubcribeQueues /\ m_mSubcribeQueues'[r] = m_mSubcribeQueues[r]
        /\ q \in DOMAIN m_mSubcribeQueues' => m_mSubcribeQueues'[q] = a
    <3>1. q \in DOMAIN m_mSubcribeQueues => a = m_mSubcribeQueues[q]
      BY DEF a, QueueOf
    <3>2. CASE q \in DOMAIN m_mUnSubcribeQueues
      <4>1. m_mSubcribeQueues' = Put(m_mSubcribeQueues, q, a)
        BY <1>4, <3>2
      <4>2. QED
        BY <4>1 DEF Put
    <3>3. CASE q \notin DOMAIN m_mUnSubcribeQueues
      <4>1. UNCHANGED m_mSubcribeQueues
        BY <1>4, <3>3
      <4>2. QED
        BY <3>1, <4>1
    <3>4. QED
      BY <3>2, <3>3
  <2>6. ASSUME NEW r \in DOMAIN m_mSubcribeQueues'
        PROVE  /\ r \in Queues
               /\ At(r, m_mSubcribeQueues'[r]) /\ m_mSubcribeQueues'[r] \in DOMAIN objects'
               /\ Subscribers(objects'[m_mSubcribeQueues'[r]]) \subseteq online'
    <3>1. CASE r = q
      BY <1>1, <2>1, <2>2, <2>3, <2>5, <3>1
    <3>2. CASE r # q
      <4>1. r \in DOMAIN m_mSubcribeQueues /\ m_mSubcribeQueues'[r] = m_mSubcribeQueues[r]
        BY <2>5, <3>2
      <4>2. At(r, m_mSubcribeQueues[r])
        BY <4>1 DEF At
      <4>3. m_mSubcribeQueues[r] # a /\ m_mSubcribeQueues[r] \in DOMAIN objects
        BY <2>1, <3>2, <4>2, OneName DEF IInv
      <4>4. Subscribers(objects[m_mSubcribeQueues[r]]) \subseteq online /\ r \in Queues
        BY <4>1 DEF IInv, QueueTablesOK, PointersOK, SubscribersOnline
      <4>5. QED
        BY <1>1, <2>2, <4>1, <4>2, <4>3, <4>4
    <3>3. QED
      BY <3>1, <3>2
  <2>7. ASSUME NEW r \in DOMAIN m_mUnSubcribeQueues'
        PROVE  /\ At(r, m_mUnSubcribeQueues'[r]) /\ m_mUnSubcribeQueues'[r] \in DOMAIN objects'
               /\ ~IsSubscribe(objects'[m_mUnSubcribeQueues'[r]])
    <3>1. /\ r # q /\ r \in DOMAIN m_mUnSubcribeQueues
          /\ m_mUnSubcribeQueues'[r] = m_mUnSubcribeQueues[r]
      BY <1>4 DEF Drop
    <3>2. At(r, m_mUnSubcribeQueues[r])
      BY <3>1 DEF At
    <3>3. m_mUnSubcribeQueues[r] # a /\ m_mUnSubcribeQueues[r] \in DOMAIN objects
      BY <2>1, <3>1, <3>2, OneName DEF IInv
    <3>4. QED
      BY <2>2, <3>1, <3>2, <3>3 DEF IInv, QueueTablesOK, UnsubMeansNone
  <2>8. QueueTablesOK'
    BY <2>4, <2>6, <2>7, Moves DEF IInv
  <2>9. QED
    BY <1>1, <1>4, <2>2, <2>8, BindingsStay, LoopStays DEF IInv
<1>5. ASSUME Named(q), UNCHANGED m_mExchanges,
             objects' = [objects EXCEPT ![a] = CancelSubscribe(o, c)],
             UNCHANGED <<m_mSubcribeQueues, m_mUnSubcribeQueues>>
      PROVE  IInv'
  <2> HIDE DEF a, o
  <2>1. /\ At(q, a) /\ a \in DOMAIN objects
        /\ IsQueue(o) /\ o.name = objects[a].name
        /\ Subscribers(o) = Subscribers(objects[a]) \cup {c}
        /\ \A b \in DOMAIN objects : IsQueue(objects[b])
    BY <1>3, <1>5
  <2>2. /\ IsQueue(CancelSubscribe(o, c)) /\ CancelSubscribe(o, c).name = objects[a].name
        /\ Subscribers(CancelSubscribe(o, c)) \subseteq Subscribers(objects[a])
    BY <2>1, Cancels
  <2>3. DOMAIN objects' = DOMAIN objects /\ \A b \in DOMAIN objects' :
          /\ b \in DOMAIN objects /\ IsQueue(objects'[b]) /\ objects'[b].name = objects[b].name
          /\ Subscribers(objects'[b]) \subseteq Subscribers(objects[b])
    BY <1>5, <2>1, <2>2
  <2>4. QueueTablesOK'
    BY <1>1, <1>5, <2>3, Leaves DEF IInv, QueueTablesOK, PointersOK, At
  <2>5. QED
    BY <1>1, <1>5, <2>3, <2>4, BindingsStay, LoopStays DEF IInv
<1>6. QED
  BY <1>2, <1>4, <1>5 DEF OnCreateSubscribe

LEMMA OnDeleteExchangeKeeps ==
  ASSUME IInv, NEW c, NEW x, NEW ok, OnDeleteExchange(c, x, ok)
  PROVE  IInv'
<1>1. UNCHANGED <<loop, online>>
  BY DEF OnDeleteExchange, clients
<1>2. CASE Refuse(c)
  BY <1>1, <1>2, OnlyAnswers DEF IInv, Refuse
<1>3. CASE /\ m_mExchanges' = Drop(m_mExchanges, {x})
           /\ UNCHANGED <<m_mSubcribeQueues, m_mUnSubcribeQueues, objects>>
  <2>1. BindingsOK'
    BY <1>3 DEF IInv, BindingsOK, Drop
  <2>2. QED
    BY <1>1, <1>3, <2>1, QueuesStay
<1>4. QED
  BY <1>2, <1>3 DEF OnDeleteExchange

(* The queue at address a leaves the maps, and the heap with its bindings. *)
LEMMA OnDeleteQueueKeeps ==
  ASSUME IInv, NEW c, NEW q, NEW ok, OnDeleteQueue(c, q, ok)
  PROVE  IInv'
<1> DEFINE a == QueueOf(q)
<1>1. UNCHANGED <<loop, online>> /\ loop.phase = "receive"
  BY DEF OnDeleteQueue, Receive, clients
<1>2. CASE Refuse(c)
  BY <1>1, <1>2, OnlyAnswers DEF IInv, Refuse
<1>3. ASSUME Named(q),
             m_mSubcribeQueues' = Drop(m_mSubcribeQueues, {q}),
             m_mUnSubcribeQueues' = Drop(m_mUnSubcribeQueues, {q}),
             \/ /\ m_mExchanges' = Unbind(DOMAIN m_mExchanges, {a})
                /\ objects' = Drop(objects, {a})
             \/ UNCHANGED <<m_mExchanges, objects>>
      PROVE  IInv'
  <2>1. At(q, a)
    BY <1>3 DEF Named, QueueOf, At
  <2> HIDE DEF a
  <2>2. /\ \A b \in DOMAIN objects' : b \in DOMAIN objects /\ objects'[b] = objects[b]
        /\ \A b \in DOMAIN objects : b # a => b \in DOMAIN objects'
    BY <1>3 DEF Drop
  <2>3. \A b \in DOMAIN objects : IsQueue(objects[b])
    BY DEF IInv, QueueTablesOK, QueuesOK
  <2>4. ASSUME NEW r \in DOMAIN m_mSubcribeQueues'
        PROVE  /\ r \in DOMAIN m_mSubcribeQueues /\ m_mSubcribeQueues'[r] = m_mSubcribeQueues[r]
               /\ m_mSubcribeQueues[r] \in DOMAIN objects'
    <3>1. r # q /\ r \in DOMAIN m_mSubcribeQueues /\ m_mSubcribeQueues'[r] = m_mSubcribeQueues[r]
      BY <1>3 DEF Drop
    <3>2. At(r, m_mSubcribeQueues[r])
      BY <3>1 DEF At
    <3>3. m_mSubcribeQueues[r] \in DOMAIN objects /\ m_mSubcribeQueues[r] # a
      BY <2>1, <3>1, <3>2, OneName DEF IInv
    <3>4. QED
      BY <2>2, <3>1, <3>3
  <2>5. ASSUME NEW r \in DOMAIN m_mUnSubcribeQueues'
        PROVE  /\ At(r, m_mUnSubcribeQueues'[r]) /\ m_mUnSubcribeQueues'[r] \in DOMAIN objects'
               /\ r \in DOMAIN m_mUnSubcribeQueues
    <3>1. r # q /\ r \in DOMAIN m_mUnSubcribeQueues /\ m_mUnSubcribeQueues'[r] = m_mUnSubcribeQueues[r]
      BY <1>3 DEF Drop
    <3>2. At(r, m_mUnSubcribeQueues[r])
      BY <3>1 DEF At
    <3>3. m_mUnSubcribeQueues[r] \in DOMAIN objects /\ m_mUnSubcribeQueues[r] # a
      BY <2>1, <3>1, <3>2, OneName DEF IInv
    <3>4. QED
      BY <2>2, <3>1, <3>2, <3>3
  <2>6. \A b \in DOMAIN objects' :
          /\ b \in DOMAIN objects /\ IsQueue(objects'[b]) /\ objects'[b].name = objects[b].name
          /\ Subscribers(objects'[b]) \subseteq Subscribers(objects[b])
    BY <2>2, <2>3
  <2>7. QueueTablesOK'
    BY <1>1, <2>4, <2>5, <2>6, Leaves DEF IInv
  <2>8. BindingsOK'
    <3>1. CASE /\ m_mExchanges' = Unbind(DOMAIN m_mExchanges, {a})
      <4>1. \A n \in DOMAIN m_mExchanges' :
              n \in DOMAIN m_mExchanges /\ Fewer(m_mExchanges[n], m_mExchanges'[n], {a})
        BY <3>1, Unbinds DEF IInv
      <4>2. DOMAIN objects \ {a} \subseteq DOMAIN objects'
        BY <2>2
      <4>3. QED
        BY <4>1, <4>2, BindingsKept DEF IInv
    <3>2. CASE UNCHANGED <<m_mExchanges, objects>>
      BY <3>2, BindingsStay DEF IInv
    <3>3. QED
      BY <1>3, <3>1, <3>2
  <2>9. QED
    BY <1>1, <2>7, <2>8, LoopStays DEF IInv
<1>4. QED
  BY <1>2, <1>3 DEF OnDeleteQueue

(* What an automatic deletion does to the exchanges and the heap, wherever it
   returns: the queue goes with all its bindings, or it stays. *)
LEMMA Automatically ==
  ASSUME BindingsOK, NEW c, NEW q, NEW o, NEW told, DeleteAutomatically(c, q, o, told)
  PROVE  /\ BindingsOK'
         /\ \/ objects' = Drop(objects, {m_mSubcribeQueues[q]})
            \/ objects' = [objects EXCEPT ![m_mSubcribeQueues[q]] = ClearMessage(o)]
<1> DEFINE a == m_mSubcribeQueues[q]
<1>1. CASE /\ m_mExchanges' = Unbind(DOMAIN m_mExchanges, {a})
           /\ \/ objects' = Drop(objects, {a})
              \/ objects' = [objects EXCEPT ![a] = ClearMessage(o)]
  <2>1. \A n \in DOMAIN m_mExchanges' :
          n \in DOMAIN m_mExchanges /\ Fewer(m_mExchanges[n], m_mExchanges'[n], {a})
    BY <1>1, Unbinds
  <2>2. DOMAIN objects \ {a} \subseteq DOMAIN objects'
    BY <1>1 DEF Drop
  <2>3. QED
    BY <1>1, <2>1, <2>2, BindingsKept
<1>2. ASSUME NEW before, NEW n,
             m_mExchanges' = [Unbind(before, {a}) EXCEPT ![n] = DeleteBindingQueue(@, {a})],
             objects' = [objects EXCEPT ![a] = ClearMessage(o)]
      PROVE  BindingsOK'
  <2> DEFINE u == Unbind(before, {a})
  <2> HIDE DEF u
  <2>1. \A m \in DOMAIN u : m \in DOMAIN m_mExchanges /\ Fewer(m_mExchanges[m], u[m], {})
    BY Unbinds DEF u
  <2>2. /\ DOMAIN m_mExchanges' = DOMAIN u
        /\ \A m \in DOMAIN u :
             m_mExchanges'[m] = IF m = n THEN DeleteBindingQueue(u[m], {a}) ELSE u[m]
    BY <1>2 DEF u
  <2>3. \A m \in DOMAIN u : Fewer(u[m], DeleteBindingQueue(u[m], {a}), {a})
    <3>1. \A m \in DOMAIN u : "bindings" \in DOMAIN u[m]
      BY <2>1 DEF Fewer
    <3>2. QED
      BY <3>1, Deletes
  <2>4. \A m \in DOMAIN u : Fewer(m_mExchanges[m], DeleteBindingQueue(u[m], {a}), {})
    BY <2>1, <2>3 DEF Fewer
  <2>5. \A m \in DOMAIN m_mExchanges' :
          m \in DOMAIN m_mExchanges /\ Fewer(m_mExchanges[m], m_mExchanges'[m], {})
    BY <2>1, <2>2, <2>4
  <2>6. DOMAIN objects \ {} \subseteq DOMAIN objects'
    BY <1>2
  <2>7. QED
    BY <2>5, <2>6, BindingsKept
<1>3. QED
  BY <1>1, <1>2 DEF DeleteAutomatically

LEMMA OnCancelSubscribeKeeps ==
  ASSUME IInv, NEW c, NEW q, OnCancelSubscribe(c, q)
  PROVE  IInv'
<1> DEFINE a    == m_mSubcribeQueues[q]
           o    == objects[a]
           left == CancelSubscribe(o, c)
           back == AddSubscribe(left, c, o.m_iConfirmLevel)
           listed == q \in DOMAIN m_mSubcribeQueues \ DOMAIN m_mUnSubcribeQueues
<1>1. UNCHANGED <<loop, online>> /\ loop.phase = "receive" /\ c \in online /\ c \in Clients
  BY DEF OnCancelSubscribe, Receive, clients, IInv
<1>2. \A b \in DOMAIN objects : IsQueue(objects[b])
  BY DEF IInv, QueueTablesOK, QueuesOK
<1>3. ASSUME listed
      PROVE  /\ At(q, a) /\ a \in DOMAIN objects
             /\ IsQueue(left) /\ left.name = o.name /\ Subscribers(left) = Subscribers(o) \ {c}
  <2>1. At(q, a) /\ a \in DOMAIN objects
    BY <1>3 DEF At, IInv, QueueTablesOK, PointersOK
  <2>2. QED
    BY <1>2, <2>1, Cancels
<1>4. CASE Refuse(c)
  BY <1>1, <1>4, OnlyAnswers DEF IInv, Refuse
<1>5. ASSUME listed, objects' = [objects EXCEPT ![a] = back],
             UNCHANGED <<m_mExchanges, m_mSubcribeQueues, m_mUnSubcribeQueues>>
      PROVE  IInv'
  <2>1. IsQueue(back) /\ back.name = o.name /\ Subscribers(back) \subseteq Subscribers(o) \cup {c}
    BY <1>1, <1>3, <1>5, Subscribes
  <2>2. At(q, a) /\ a \in DOMAIN objects /\ Subscribers(o) \subseteq online
    BY <1>3, <1>5 DEF IInv, QueueTablesOK, SubscribersOnline
  <2> HIDE DEF back, a
  <2>3. /\ DOMAIN objects' = DOMAIN objects /\ objects'[a] = back
        /\ \A b \in DOMAIN objects : b # a => objects'[b] = objects[b]
    BY <1>5, <2>2
  <2>4. \A b \in DOMAIN objects' :
          b \in DOMAIN objects /\ IsQueue(objects'[b]) /\ objects'[b].name = objects[b].name
    BY <1>2, <2>1, <2>3
  <2>5. \A r \in DOMAIN m_mSubcribeQueues' :
          /\ At(r, m_mSubcribeQueues'[r]) /\ m_mSubcribeQueues'[r] \in DOMAIN objects'
          /\ Subscribers(objects'[m_mSubcribeQueues'[r]]) \subseteq online'
    BY <1>1, <1>5, <2>1, <2>2, <2>3 DEF IInv, QueueTablesOK, PointersOK, SubscribersOnline, At
  <2>6. ASSUME NEW r \in DOMAIN m_mUnSubcribeQueues'
        PROVE  /\ At(r, m_mUnSubcribeQueues'[r]) /\ m_mUnSubcribeQueues'[r] \in DOMAIN objects'
               /\ ~IsSubscribe(objects'[m_mUnSubcribeQueues'[r]])
    <3>1. r # q /\ m_mUnSubcribeQueues'[r] = m_mUnSubcribeQueues[r] /\ At(r, m_mUnSubcribeQueues[r])
      BY <1>5 DEF At
    <3>2. m_mUnSubcribeQueues[r] \in DOMAIN objects /\ m_mUnSubcribeQueues[r] # a
      BY <2>2, <3>1, OneName DEF IInv
    <3>3. QED
      BY <1>5, <2>3, <3>1, <3>2 DEF IInv, QueueTablesOK, UnsubMeansNone
  <2>7. QueueTablesOK'
    BY <1>5, <2>4, <2>5, <2>6, Moves DEF IInv, QueueTablesOK, PointersOK
  <2>8. QED
    BY <1>1, <1>5, <2>3, <2>7, BindingsStay, LoopStays DEF IInv
<1>6. ASSUME listed, m_mSubcribeQueues' = Drop(m_mSubcribeQueues, {q}), BindingsOK',
             \/ objects' = [objects EXCEPT ![a] = left]
             \/ objects' = [objects EXCEPT ![a] = ClearMessage(left)]
             \/ objects' = Drop(objects, {a}),
             \/ UNCHANGED m_mUnSubcribeQueues
             \/ /\ m_mUnSubcribeQueues' = Put(m_mUnSubcribeQueues, q, a)
                /\ ~IsSubscribe(left) /\ objects' = [objects EXCEPT ![a] = left]
      PROVE  IInv'
  <2>1. /\ At(q, a) /\ a \in DOMAIN objects
        /\ IsQueue(left) /\ left.name = o.name /\ Subscribers(left) \subseteq Subscribers(o)
    BY <1>3, <1>6
  <2>2. /\ IsQueue(ClearMessage(left)) /\ ClearMessage(left).name = o.name
        /\ Subscribers(ClearMessage(left)) \subseteq Subscribers(o)
    BY <2>1, MessagesOnly DEF Same, Subscribers
  <2> HIDE DEF left, a
  <2>3. \A b \in DOMAIN objects' :
          /\ b \in DOMAIN objects /\ IsQueue(objects'[b]) /\ objects'[b].name = objects[b].name
          /\ Subscribers(objects'[b]) \subseteq Subscribers(objects[b])
    BY <1>2, <1>6, <2>1, <2>2 DEF Drop
  <2>4. \A b \in DOMAIN objects : b # a => b \in DOMAIN objects'
    BY <1>6 DEF Drop
  <2>5. ASSUME NEW r, NEW b, At(r, b), r # q
        PROVE  b \in DOMAIN objects'
    BY <2>1, <2>4, <2>5, OneName DEF IInv
  <2>6. ASSUME NEW r \in DOMAIN m_mSubcribeQueues'
        PROVE  /\ r \in DOMAIN m_mSubcribeQueues /\ m_mSubcribeQueues'[r] = m_mSubcribeQueues[r]
               /\ m_mSubcribeQueues[r] \in DOMAIN objects'
    <3>1. r # q /\ r \in DOMAIN m_mSubcribeQueues /\ m_mSubcribeQueues'[r] = m_mSubcribeQueues[r]
      BY <1>6 DEF Drop
    <3>2. QED
      BY <2>5, <3>1 DEF At
  <2>7. ASSUME NEW r \in DOMAIN m_mUnSubcribeQueues'
        PROVE  /\ At(r, m_mUnSubcribeQueues'[r]) /\ m_mUnSubcribeQueues'[r] \in DOMAIN objects'
               /\ \/ r \in DOMAIN m_mUnSubcribeQueues
                  \/ ~IsSubscribe(objects'[m_mUnSubcribeQueues'[r]])
    <3>1. CASE r \in DOMAIN m_mUnSubcribeQueues
      <4>1. r # q
        BY <1>6, <3>1
      <4>2. m_mUnSubcribeQueues'[r] = m_mUnSubcribeQueues[r]
        BY <1>6, <3>1, <4>1 DEF Put
      <4>3. QED
        BY <2>5, <3>1, <4>1, <4>2 DEF At
    <3>2. CASE r \notin DOMAIN m_mUnSubcribeQueues
      <4>1. m_mUnSubcribeQueues' = Put(m_mUnSubcribeQueues, q, a)
        BY <1>6, <3>2
      <4>2. r = q /\ m_mUnSubcribeQueues'[q] = a
        BY <3>2, <4>1 DEF Put
      <4>3. ~IsSubscribe(left) /\ objects'[a] = left /\ a \in DOMAIN objects'
        BY <1>6, <2>1, <3>2
      <4>4. QED
        BY <2>1, <4>2, <4>3
    <3>3. QED
      BY <3>1, <3>2
  <2>8. QueueTablesOK'
    BY <1>1, <2>3, <2>6, <2>7, Leaves DEF IInv
  <2>9. QED
    BY <1>1, <1>6, <2>8, LoopStays DEF IInv
<1>7. ASSUME listed, objects' = [objects EXCEPT ![a] = left], UNCHANGED m_mExchanges
      PROVE  BindingsOK'
  BY <1>7, BindingsStay DEF IInv
<1>8. ASSUME NEW told, DeleteAutomatically(c, q, left, told)
      PROVE  /\ BindingsOK'
             /\ \/ objects' = Drop(objects, {a})
                \/ objects' = [objects EXCEPT ![a] = ClearMessage(left)]
  BY <1>8, Automatically DEF IInv
<1>9. QED
  BY <1>4, <1>5, <1>6, <1>7, <1>8 DEF OnCancelSubscribe

(* Client c leaves the queues it was subscribed to; those of them that nobody
   else is subscribed to go to the other map or are deleted. *)
LEMMA OnClientExitKeeps ==
  ASSUME IInv, NEW c, OnClientExit(c)
  PROVE  IInv'
<1> DEFINE mine   == Subscriptions(c)
           Left(q) == CancelSubscribe(objects[m_mSubcribeQueues[q]], c)
           last   == {q \in mine : ~IsSubscribe(Left(q))}
           dying  == {q \in last : Left(q).autoDel}
           dead   == {m_mSubcribeQueues[q] : q \in dying}
           heap   == [a \in DOMAIN objects \ dead |->
                        IF \E q \in mine : m_mSubcribeQueues[q] = a
                        THEN CancelSubscribe(objects[a], c) ELSE objects[a]]
<1>1. /\ UNCHANGED loop /\ loop.phase = "receive" /\ online' = online \ {c}
      /\ m_mSubcribeQueues' = Drop(m_mSubcribeQueues, last)
      /\ m_mUnSubcribeQueues' = [q \in DOMAIN m_mUnSubcribeQueues \cup (last \ dying) |->
                                   IF q \in last \ dying THEN m_mSubcribeQueues[q]
                                   ELSE m_mUnSubcribeQueues[q]]
      /\ m_mExchanges' = Unbind(DOMAIN m_mExchanges, dead)
      /\ \E home, messages : objects' = PutBack(heap, home, messages)
  BY Zenon DEF OnClientExit
<1>2. \A a \in DOMAIN objects : IsQueue(objects[a])
  BY DEF IInv, QueueTablesOK, QueuesOK
<1>3. \A q \in DOMAIN m_mSubcribeQueues :
        /\ At(q, m_mSubcribeQueues[q]) /\ m_mSubcribeQueues[q] \in DOMAIN objects
        /\ q \in mine <=> c \in Subscribers(objects[m_mSubcribeQueues[q]])
  BY DEF At, IInv, QueueTablesOK, PointersOK, Subscriptions, Subscribers
<1>4. mine \subseteq DOMAIN m_mSubcribeQueues
  BY DEF Subscriptions
<1>5. \A q \in mine : IsQueue(Left(q)) /\ (q \notin last => IsSubscribe(Left(q)))
  BY <1>2, <1>3, <1>4, Cancels
<1> HIDE DEF mine
<1>6. ASSUME NEW a \in DOMAIN objects \ dead
      PROVE  /\ IsQueue(heap[a]) /\ heap[a].name = objects[a].name
             /\ Subscribers(heap[a]) \subseteq Subscribers(objects[a])
             /\ \A q \in DOMAIN m_mSubcribeQueues :
                  m_mSubcribeQueues[q] = a => c \notin Subscribers(heap[a])
             /\ \A q \in mine : m_mSubcribeQueues[q] = a => heap[a] = Left(q)
  <2>1. CASE \E q \in mine : m_mSubcribeQueues[q] = a
    <3>1. heap[a] = CancelSubscribe(objects[a], c)
      BY <2>1
    <3>2. QED
      BY <1>2, <3>1, Cancels
  <2>2. CASE ~\E q \in mine : m_mSubcribeQueues[q] = a
    <3>1. heap[a] = objects[a]
      BY <2>2
    <3>2. QED
      BY <1>2, <1>3, <2>2, <3>1
  <2>3. QED
    BY <2>1, <2>2
<1>7. PICK home, messages : objects' = PutBack(heap, home, messages)
  BY <1>1
<1> HIDE DEF heap
<1>8. DOMAIN heap = DOMAIN objects \ dead
  BY DEF heap
<1>9. DOMAIN objects' = DOMAIN heap /\ \A a \in DOMAIN heap : Same(heap[a], objects'[a])
  BY <1>6, <1>7, <1>8, MessagesOnly DEF PutBack
<1>10. ASSUME NEW a \in DOMAIN objects'
       PROVE  /\ a \in DOMAIN objects /\ a \notin dead
              /\ IsQueue(objects'[a]) /\ objects'[a].name = objects[a].name
              /\ Subscribers(objects'[a]) \subseteq Subscribers(objects[a])
              /\ \A q \in DOMAIN m_mSubcribeQueues :
                   m_mSubcribeQueues[q] = a => c \notin Subscribers(objects'[a])
              /\ \A q \in mine : m_mSubcribeQueues[q] = a =>
                   (IsSubscribe(objects'[a]) <=> IsSubscribe(Left(q)))
  <2>1. a \in DOMAIN objects \ dead /\ Same(heap[a], objects'[a])
    BY <1>8, <1>9
  <2>2. /\ IsQueue(objects'[a]) /\ objects'[a].name = heap[a].name
        /\ Subscribers(objects'[a]) = Subscribers(heap[a])
        /\ IsSubscribe(objects'[a]) <=> IsSubscribe(heap[a])
    BY <2>1 DEF Same, Subscribers, IsSubscribe
  <2> HIDE DEF dead, Left
  <2>3. QED
    BY <1>6, <2>1, <2>2
<1>11. ASSUME NEW q, NEW a, At(q, a), NEW r \in DOMAIN m_mSubcribeQueues, a = m_mSubcribeQueues[r]
       PROVE  q = r
  BY <1>3, <1>11, OneName DEF IInv
<1>12. ASSUME NEW q, NEW a, At(q, a), q \notin dying
       PROVE  a \in DOMAIN objects'
  <2>1. a \in DOMAIN objects
    BY <1>12, OneName DEF IInv
  <2>2. a \notin dead
    <3>1. SUFFICES ASSUME NEW r \in dying, a = m_mSubcribeQueues[r]
                   PROVE  FALSE
      OBVIOUS
    <3>2. r \in DOMAIN m_mSubcribeQueues
      BY <1>4, <3>1
    <3>3. QED
      BY <1>11, <1>12, <3>1, <3>2
  <2> HIDE DEF dead
  <2>3. QED
    BY <1>8, <1>9, <2>1, <2>2
<1>13. ASSUME NEW q \in DOMAIN m_mSubcribeQueues'
       PROVE  /\ q \in Queues
              /\ At(q, m_mSubcribeQueues'[q]) /\ m_mSubcribeQueues'[q] \in DOMAIN objects'
              /\ Subscribers(objects'[m_mSubcribeQueues'[q]]) \subseteq online'
  <2>1. q \in DOMAIN m_mSubcribeQueues /\ q \notin last /\ m_mSubcribeQueues'[q] = m_mSubcribeQueues[q]
    BY <1>1 DEF Drop
  <2> HIDE DEF dead, Left
  <2>2. At(q, m_mSubcribeQueues[q]) /\ m_mSubcribeQueues[q] \in DOMAIN objects'
    BY <1>3, <1>12, <2>1
  <2>3. /\ c \notin Subscribers(objects'[m_mSubcribeQueues[q]])
        /\ Subscribers(objects'[m_mSubcribeQueues[q]]) \subseteq Subscribers(objects[m_mSubcribeQueues[q]])
    BY <1>10, <2>1, <2>2
  <2>4. Subscribers(objects[m_mSubcribeQueues[q]]) \subseteq online /\ q \in Queues
    BY <2>1 DEF IInv, QueueTablesOK, PointersOK, SubscribersOnline
  <2>5. QED
    BY <1>1, <2>1, <2>2, <2>3, <2>4
<1>14. ASSUME NEW q \in DOMAIN m_mUnSubcribeQueues'
       PROVE  /\ At(q, m_mUnSubcribeQueues'[q]) /\ m_mUnSubcribeQueues'[q] \in DOMAIN objects'
              /\ ~IsSubscribe(objects'[m_mUnSubcribeQueues'[q]])
  <2>1. CASE q \in last \ dying
    <3>1. /\ q \in mine /\ q \notin dying /\ ~IsSubscribe(Left(q))
          /\ m_mUnSubcribeQueues'[q] = m_mSubcribeQueues[q]
      BY <1>1, <2>1
    <3> HIDE DEF dead, Left, dying
    <3>2. q \in DOMAIN m_mSubcribeQueues /\ At(q, m_mSubcribeQueues[q])
      BY <1>3, <1>4, <3>1
    <3>3. m_mSubcribeQueues[q] \in DOMAIN objects'
      BY <1>12, <3>1, <3>2
    <3>4. ~IsSubscribe(objects'[m_mSubcribeQueues[q]])
      BY <1>10, <3>1, <3>2, <3>3
    <3>5. QED
      BY <3>1, <3>2, <3>3, <3>4
  <2>2. CASE q \notin last \ dying
    <3>1. q \in DOMAIN m_mUnSubcribeQueues /\ m_mUnSubcribeQueues'[q] = m_mUnSubcribeQueues[q]
      BY <1>1, <2>2
    <3> DEFINE a == m_mUnSubcribeQueues[q]
    <3>2. At(q, a) /\ a \in DOMAIN objects /\ ~IsSubscribe(objects[a])
      BY <3>1 DEF At, IInv, QueueTablesOK, PointersOK, UnsubMeansNone
    <3>3. Subscribers(objects[a]) = {}
      BY <1>2, <3>2, NoSubscribers
    <3>4. q \notin mine
      <4>1. SUFFICES ASSUME q \in mine PROVE FALSE
        OBVIOUS
      <4>2. q \in DOMAIN m_mSubcribeQueues /\ c \in Subscribers(objects[m_mSubcribeQueues[q]])
        BY <1>3, <1>4, <4>1
      <4>3. a = m_mSubcribeQueues[q]
        BY <1>3, <3>2, <4>2, OneName DEF IInv
      <4>4. QED
        BY <3>3, <4>2, <4>3
    <3>5. q \notin dying
      BY <3>4
    <3> HIDE DEF dead, Left, dying
    <3>6. a \in DOMAIN objects'
      BY <1>12, <3>2, <3>5
    <3>7. IsQueue(objects'[a]) /\ Subscribers(objects'[a]) = {}
      BY <1>10, <3>3, <3>6
    <3>8. QED
      BY <3>1, <3>2, <3>6, <3>7, NoSubscribers
  <2>3. QED
    BY <2>1, <2>2
<1> HIDE DEF dead, Left, dying, last
<1>15. QueueTablesOK'
  BY <1>10, <1>13, <1>14, Moves DEF IInv
<1>16. BindingsOK'
  <2>1. \A n \in DOMAIN m_mExchanges' :
          n \in DOMAIN m_mExchanges /\ Fewer(m_mExchanges[n], m_mExchanges'[n], dead)
    BY <1>1, Unbinds DEF IInv
  <2>2. DOMAIN objects \ dead \subseteq DOMAIN objects'
    BY <1>8, <1>9
  <2>3. QED
    BY <2>1, <2>2, BindingsKept DEF IInv
<1>17. online' \subseteq Clients
  BY <1>1 DEF IInv
<1>18. QED
  BY <1>1, <1>15, <1>16, <1>17, LoopStays DEF IInv
-----------------------------------------------------------------------------
(* Every step. *)
LEMMA HandlerKeeps ==
  ASSUME IInv, Handler
  PROVE  IInv'
<1>1. ASSUME NEW c \in Clients, NEW e, NEW sent, OnClientAck(c, e.seq, sent)
      PROVE  IInv'
  BY <1>1, OnlyAnswers DEF OnClientAck, clients, IInv
<1>2. QED
  BY <1>1, OnCreateExchangeKeeps, OnCreateQueueKeeps, OnCreateBindingKeeps,
     OnPublishMessageKeeps, OnRecvMessageKeeps, OnCreateSubscribeKeeps,
     OnDeleteExchangeKeeps, OnDeleteQueueKeeps, OnCancelSubscribeKeeps, OnClientExitKeeps
     DEF Handler

LEMMA ConnectKeeps ==
  ASSUME IInv, NEW c \in Clients, Connect(c)
  PROVE  IInv'
BY OnlyAnswers DEF Connect, IInv

LEMMA Initially ==
  ASSUME Init
  PROVE  IInv
BY DEF Init, EmptyMap, IInv, QueueTablesOK, QueuesOK, PointersOK, OneObjectPerName,
   UnsubMeansNone, SubscribersOnline, BindingsOK, LoopOK

\* The inductive invariant: what the handlers leave of the tables of queues, of
\* the bindings and of the loop is what the next handler or round relies on.
THEOREM Invariant == Spec => []IInv
<1>1. ASSUME IInv, [Next]_vars
      PROVE  IInv'
  <2>1. CASE Next
    BY <1>1, <2>1, LoopStepKeeps, HandlerKeeps, ConnectKeeps DEF Next
  <2>2. CASE UNCHANGED vars
    BY <1>1, <2>2, OnlyAnswers DEF vars, tables, IInv
  <2>3. QED
    BY <1>1, <2>1, <2>2
<1>2. QED
  BY <1>1, Initially, PTL DEF Spec

\* No pointer outlives its queue: neither a name in the two maps nor a binding
\* of an exchange is to a MessageQueue that OnDeleteQueue, OnCancelSubscribe or
\* OnClientExit has deleted, whichever way those handlers return.
THEOREM PointersLive == Spec => []NoDangling
<1>1. ASSUME IInv
      PROVE  NoDangling
  <2>1. \A q \in DOMAIN m_mSubcribeQueues : m_mSubcribeQueues[q] \in DOMAIN objects
    BY <1>1 DEF IInv, QueueTablesOK, PointersOK
  <2>2. \A q \in DOMAIN m_mUnSubcribeQueues : m_mUnSubcribeQueues[q] \in DOMAIN objects
    BY <1>1 DEF IInv, QueueTablesOK, PointersOK
  <2>3. ASSUME NEW n \in DOMAIN m_mExchanges, NEW k \in DOMAIN m_mExchanges[n].bindings
        PROVE  ToSet(m_mExchanges[n].bindings[k]) \subseteq DOMAIN objects
    <3>1. PICK a \in DOMAIN objects : m_mExchanges[n].bindings[k] = <<a>>
      BY <1>1, <2>3 DEF IInv, BindingsOK
    <3>2. ToSet(<<a>>) = {a}
      BY DEF ToSet
    <3>3. QED
      BY <3>1, <3>2
  <2>4. QED
    BY <2>1, <2>2, <2>3 DEF NoDangling, Range
<1>2. QED
  BY <1>1, Invariant, PTL

\* The name a client gives and the object it gets belong together: whoever asks
\* for a queue that was created, deleted and created again gets the queue of that
\* name, never another one that came to stand at its address.
THEOREM NamesUnique == Spec => []OneObjectPerName
<1>1. IInv => OneObjectPerName
  BY DEF IInv, QueueTablesOK
<1>2. QED
  BY <1>1, Invariant, PTL

\* A queue PushMessage does not look at has nobody who waits for its messages,
\* also when a subscription, a cancellation or an exit ended half-way.
THEOREM UnsubscribedHaveNone == Spec => []UnsubMeansNone
<1>1. IInv => UnsubMeansNone
  BY DEF IInv, QueueTablesOK
<1>2. QED
  BY <1>1, Invariant, PTL

\* PushMessage only pushes to clients that ConnectServer has a connection for
\* once it has reported the exits: no queue it visits keeps a client that left.
THEOREM SubscribersAreOnline == Spec => []SubscribersOnline
<1>1. IInv => SubscribersOnline
  BY DEF IInv, QueueTablesOK
<1>2. QED
  BY <1>1, Invariant, PTL
=============================================================================
