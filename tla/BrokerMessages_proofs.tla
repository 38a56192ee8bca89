------------------------ MODULE BrokerMessages_proofs ------------------------
(***************************************************************************)
(* Proofs about Broker's messages, for any numbers of queues, clients and   *)
(* messages.  They build on the tables' invariant IInv (Broker_proofs).     *)
(*                                                                         *)
(* TInv adds the types, and who the broker expects something from: a queue  *)
(* in PushMessage's hand has a subscriber (CurServed), a message that waits *)
(* for an ack and a remembered number belong to a client that is online.    *)
(*                                                                         *)
(* Places says where the copies are: each in one position of one queue, or  *)
(* once in the list of the unacknowledged ones.  The last part says where a *)
(* copy goes that leaves both.                                              *)
(***************************************************************************)
EXTENDS Broker_proofs, TopicMatch_proofs, SeqFacts, FiniteSetTheorems

\* What is true of a sequence is true of its reverse, up to the order.
LEMMA ReverseFacts ==
  ASSUME NEW X, NEW s \in Seq(X)
  PROVE  /\ Reverse(s) \in Seq(X) /\ ToSet(Reverse(s)) = ToSet(s)
         /\ IsInjective(s) => IsInjective(Reverse(s))
<1> DEFINE r == Reverse(s)
<1>1. /\ r \in Seq(X) /\ Len(r) = Len(s) /\ Len(s) \in Nat
      /\ \A i \in 1 .. Len(s) : r[i] = s[(Len(s) - i) + 1]
  BY DEF Reverse
<1> HIDE DEF r
<1>9. DOMAIN s = 1 .. Len(s) /\ DOMAIN r = 1 .. Len(s)
  BY <1>1
<1>2. \A i \in 1 .. Len(s) : (Len(s) - i) + 1 \in 1 .. Len(s) /\ (Len(s) - ((Len(s) - i) + 1)) + 1 = i
  BY <1>1
<1>3. \A i \in 1 .. Len(s) : s[i] = r[(Len(s) - i) + 1]
  BY <1>1, <1>2
<1>4. ToSet(r) = {r[i] : i \in 1 .. Len(s)} /\ ToSet(s) = {s[i] : i \in 1 .. Len(s)}
  BY <1>1, RangeFacts
<1>5. ToSet(r) \subseteq ToSet(s)
  BY <1>1, <1>2, <1>4
<1>6. ToSet(s) \subseteq ToSet(r)
  <2>1. \A i \in 1 .. Len(s) : s[i] \in ToSet(r)
    BY <1>2, <1>3, <1>4
  <2>2. QED
    BY <1>4, <2>1
<1>7. ASSUME IsInjective(s)
      PROVE  IsInjective(r)
  <2>1. \A i, j \in 1 .. Len(s) : s[i] = s[j] => i = j
    BY <1>7, <1>9 DEF IsInjective
  <2>2. ASSUME NEW i \in 1 .. Len(s), NEW j \in 1 .. Len(s), r[i] = r[j]
        PROVE  i = j
    <3>1. s[(Len(s) - i) + 1] = s[(Len(s) - j) + 1]
      BY <1>1, <2>2
    <3>2. (Len(s) - i) + 1 = (Len(s) - j) + 1
      BY <1>2, <2>1, <3>1
    <3>3. QED
      BY <1>1, <3>2
  <2>3. QED
    BY <1>9, <2>2 DEF IsInjective
<1>8. QED
  BY <1>1, <1>5, <1>6, <1>7 DEF r
-----------------------------------------------------------------------------
(* MessageQueue: types *)

LEMMA FrontFacts ==
  ASSUME NEW o \in MessageQueueType, NEW e \in FrontMsgs(o)
  PROVE  /\ e \in Message /\ e \in Waiting(o)
         /\ e \notin o.m_msgPriQueue =>
              o.m_messagesList # <<>> /\ e = o.m_messagesList[1]
<1> DEFINE s == o.m_messagesList
<1>1. s \in Seq(Message) /\ o.m_msgPriQueue \in SUBSET Message
  BY DEF MessageQueueType
<1>2. CASE e \in o.m_msgPriQueue
  BY <1>1, <1>2 DEF Waiting
<1>3. CASE e \notin o.m_msgPriQueue
  <2>1. e \in {s[i] : i \in DOMAIN s \cap {1}}
    BY <1>3 DEF FrontMsgs
  <2>2. 1 \in DOMAIN s /\ e = s[1]
    BY <2>1
  <2>3. e \in Message /\ e \in ToSet(s) /\ s # <<>>
    BY <1>1, <2>2 DEF ToSet
  <2>4. QED
    BY <1>3, <2>2, <2>3 DEF Waiting
<1>4. QED
  BY <1>2, <1>3

LEMMA NewQueueType ==
  ASSUME NEW q \in Queues, NEW kind \in QueueKinds
  PROVE  NewQueue(q, kind) \in MessageQueueType
<1>1. /\ kind.priority \in Int /\ kind.durable \in BOOLEAN /\ kind.autoDel \in BOOLEAN
  BY BrokerAssumption
<1>2. /\ <<>> \in Seq(Message) /\ <<>> \in Seq(Clients)
      /\ {} \in SUBSET Message /\ 0 \in ConsumerLevels \cup {0} /\ -1 \in Nat \cup {-1} /\ 0 \in Nat
  OBVIOUS
<1>3. QED
  BY <1>1, <1>2 DEF NewQueue, MessageQueueType

LEMMA PopType ==
  ASSUME NEW o \in MessageQueueType, NEW e \in FrontMsgs(o), NEW i \in Nat
  PROVE  /\ PopFrontMsg(o, e) \in MessageQueueType
         /\ [PopFrontMsg(o, e) EXCEPT !.m_iPushIndex = i] \in MessageQueueType
         /\ ClearMessage(o) \in MessageQueueType
<1>1. o.m_messagesList \in Seq(Message) /\ o.m_msgPriQueue \in SUBSET Message
  BY DEF MessageQueueType
<1>2. PopFrontMsg(o, e) \in MessageQueueType
  <2>1. CASE e \in o.m_msgPriQueue
    <3>1. o.m_msgPriQueue \ {e} \in SUBSET Message
      BY <1>1
    <3>2. QED
      BY <2>1, <3>1 DEF PopFrontMsg, MessageQueueType
  <2>2. CASE e \notin o.m_msgPriQueue
    <3>1. Tail(o.m_messagesList) \in Seq(Message)
      BY <1>1, <2>2, FrontFacts, TailFacts
    <3>2. QED
      BY <2>2, <3>1 DEF PopFrontMsg, MessageQueueType
  <2>3. QED
    BY <2>1, <2>2
<1>3. [PopFrontMsg(o, e) EXCEPT !.m_iPushIndex = i] \in MessageQueueType
  BY <1>2 DEF MessageQueueType
<1>4. ClearMessage(o) \in MessageQueueType
  <2>1. <<>> \in Seq(Message) /\ {} \in SUBSET Message
    OBVIOUS
  <2>2. QED
    BY <2>1 DEF ClearMessage, MessageQueueType
<1>5. QED
  BY <1>2, <1>3, <1>4

\* What adding messages adds: those with a priority, no higher than the
\* queue's, to the heap, the others to the list.
LEMMA AddsWhat ==
  ASSUME NEW o \in MessageQueueType, NEW new \in Seq(Message)
  PROVE  /\ Urgent(o, new) \in SUBSET Message
         /\ Ordinary(o, new) \in Seq(Message)
         /\ ToSet(Ordinary(o, new)) = {e \in ToSet(new) : ~HasPriority(o, e)}
         /\ IsInjective(new) => IsInjective(Ordinary(o, new))
<1>1. ToSet(new) \subseteq Message
  BY RangeFacts
<1>2. ASSUME NEW e \in ToSet(new), HasPriority(o, e)
      PROVE  Capped(o, e) \in Message
  <2>1. e \in Message /\ o.priority \in Int
    BY <1>1 DEF MessageQueueType
  <2>2. (IF e.priority > o.priority THEN o.priority ELSE e.priority) \in Nat
    BY <1>2, <2>1 DEF HasPriority, Message
  <2>3. QED
    BY <2>1, <2>2 DEF Capped, Message
<1>3. Urgent(o, new) \in SUBSET Message
  BY <1>2 DEF Urgent
<1> DEFINE S == {e \in ToSet(new) : ~HasPriority(o, e)}
<1>4. ToSet(new) \cap S = S
  OBVIOUS
<1> HIDE DEF S
<1>5. /\ Keep(new, S) \in Seq(Message) /\ ToSet(Keep(new, S)) = S
      /\ IsInjective(new) => IsInjective(Keep(new, S))
  BY <1>4, KeepFacts
<1>6. Ordinary(o, new) = Keep(new, S)
  BY DEF Ordinary, S
<1>7. QED
  BY <1>3, <1>5, <1>6 DEF S

LEMMA AddType ==
  ASSUME NEW o \in MessageQueueType, NEW new \in Seq(Message), NEW n \in Nat
  PROVE  /\ AddMessage(o, new) \in MessageQueueType
         /\ AddMessageFront(o, new) \in MessageQueueType
         /\ [AddMessage(o, new) EXCEPT !.m_iDurableIndex = @ + n] \in MessageQueueType
<1> DEFINE list == o.m_messagesList
           pri  == o.m_msgPriQueue
<1>1. list \in Seq(Message) /\ pri \in SUBSET Message /\ o.m_iDurableIndex \in Nat
  BY DEF MessageQueueType
<1>2. /\ pri \cup Urgent(o, new) \in SUBSET Message
      /\ list \o Ordinary(o, new) \in Seq(Message)
      /\ Reverse(Ordinary(o, new)) \o list \in Seq(Message)
  BY <1>1, AddsWhat, ReverseFacts, ConcatFacts
<1>3. AddMessage(o, new) \in MessageQueueType
  BY <1>2 DEF AddMessage, MessageQueueType
<1>4. AddMessageFront(o, new) \in MessageQueueType
  BY <1>2 DEF AddMessageFront, MessageQueueType
<1>5. [AddMessage(o, new) EXCEPT !.m_iDurableIndex = @ + n] \in MessageQueueType
  <2>1. \A p \in MessageQueueType : p.m_iDurableIndex + n \in Nat
    BY DEF MessageQueueType
  <2>2. \A p \in MessageQueueType, m \in Nat : [p EXCEPT !.m_iDurableIndex = m] \in MessageQueueType
    BY DEF MessageQueueType
  <2>3. QED
    BY <1>3, <2>1, <2>2
<1>6. QED
  BY <1>3, <1>4, <1>5

LEMMA SubscribeType ==
  ASSUME NEW o \in MessageQueueType, IsQueue(o), NEW c
  PROVE  /\ \A level \in ConsumerLevels \cup {0} : c \in Clients => AddSubscribe(o, c, level) \in MessageQueueType
         /\ CancelSubscribe(o, c) \in MessageQueueType
<1> DEFINE s == o.m_vSubscribeConsumers
<1>1. s \in Seq(Clients) /\ o.m_iConfirmLevel \in ConsumerLevels \cup {0}
  BY DEF MessageQueueType
<1>2. RemoveFirst(s, c) \in Seq(Clients)
  BY RemovesIt DEF IsQueue
<1>3. CancelSubscribe(o, c) \in MessageQueueType
  BY <1>1, <1>2 DEF CancelSubscribe, MessageQueueType
<1>4. ASSUME NEW level \in ConsumerLevels \cup {0}, c \in Clients
      PROVE  AddSubscribe(o, c, level) \in MessageQueueType
  <2>1. (IF c \in ToSet(s) THEN s ELSE Append(s, c)) \in Seq(Clients)
    BY <1>1, <1>4
  <2>2. QED
    BY <2>1 DEF AddSubscribe, MessageQueueType
<1>5. QED
  BY <1>3, <1>4

-----------------------------------------------------------------------------
(* Exchange: types *)

Bindings == {b \in PartialMap(Keys, Seq(Addresses)) : IsFiniteSet(DOMAIN b)}

ExchangeType == [type : 1 .. 3, durable : BOOLEAN, autoDel : BOOLEAN, bindings : Bindings]

LEMMA IsBindings ==
  ASSUME NEW b, b = [k \in DOMAIN b |-> b[k]], DOMAIN b \subseteq Keys, IsFiniteSet(DOMAIN b),
         \A k \in DOMAIN b : b[k] \in Seq(Addresses)
  PROVE  b \in Bindings
<1>1. b \in [DOMAIN b -> Seq(Addresses)]
  OBVIOUS
<1>2. b \in PartialMap(Keys, Seq(Addresses))
  BY <1>1 DEF PartialMap
<1>3. QED
  BY <1>2 DEF Bindings

LEMMA BindingsFacts ==
  ASSUME NEW b \in Bindings
  PROVE  /\ b = [k \in DOMAIN b |-> b[k]] /\ DOMAIN b \subseteq Keys /\ IsFiniteSet(DOMAIN b)
         /\ \A k \in DOMAIN b : b[k] \in Seq(Addresses)
<1>1. b \in PartialMap(Keys, Seq(Addresses)) /\ IsFiniteSet(DOMAIN b)
  BY DEF Bindings
<1>2. PICK D \in SUBSET Keys : b \in [D -> Seq(Addresses)]
  BY <1>1 DEF PartialMap
<1>3. QED
  BY <1>1, <1>2

LEMMA NewExchangeType ==
  ASSUME NEW kind \in ExchangeKinds
  PROVE  NewExchange(kind) \in ExchangeType
<1>1. /\ kind.type \in 1 .. 3 /\ kind.durable \in BOOLEAN /\ kind.autoDel \in BOOLEAN
  BY BrokerAssumption
<1>2. EmptyMap \in Bindings
  <2>1. DOMAIN EmptyMap = {} /\ EmptyMap = [k \in DOMAIN EmptyMap |-> EmptyMap[k]]
    BY DEF EmptyMap
  <2>2. QED
    BY <2>1, IsBindings, FS_EmptySet
<1>3. QED
  BY <1>1, <1>2 DEF NewExchange, ExchangeType

LEMMA CreateBindingType ==
  ASSUME NEW b \in Bindings, NEW key \in Keys, NEW a \in Addresses
  PROVE  CreateBinding(b, key, a) \in Bindings
<1>1. CASE key \in DOMAIN b
  BY <1>1 DEF CreateBinding
<1>2. CASE key \notin DOMAIN b
  <2> DEFINE d == Put(b, key, <<a>>)
  <2>1. /\ DOMAIN d = DOMAIN b \cup {key} /\ d = [k \in DOMAIN d |-> d[k]]
        /\ \A k \in DOMAIN d : d[k] = IF k = key THEN <<a>> ELSE b[k]
    BY DEF Put
  <2> HIDE DEF d
  <2>2. IsFiniteSet(DOMAIN d) /\ DOMAIN d \subseteq Keys
    BY <2>1, BindingsFacts, FS_AddElement
  <2>3. \A k \in DOMAIN d : d[k] \in Seq(Addresses)
    <3>1. <<a>> \in Seq(Addresses) /\ \A k \in DOMAIN b : b[k] \in Seq(Addresses)
      BY BindingsFacts
    <3>2. QED
      BY <2>1, <3>1
  <2>4. d \in Bindings
    BY <2>1, <2>2, <2>3, IsBindings
  <2>5. QED
    BY <1>2, <2>4 DEF CreateBinding, d
<1>3. QED
  BY <1>1, <1>2

LEMMA DeleteBindingType ==
  ASSUME NEW x \in ExchangeType, NEW A
  PROVE  DeleteBindingQueue(x, A) \in ExchangeType
<1> DEFINE b    == x.bindings
           gone == {k \in DOMAIN b : \E a \in A : ToSet(b[k]) \subseteq {a}}
           d    == Drop(b, gone)
<1>1. b \in Bindings
  BY DEF ExchangeType
<1> HIDE DEF gone
<1>2. /\ DOMAIN d = DOMAIN b \ gone /\ d = [k \in DOMAIN d |-> d[k]]
      /\ \A k \in DOMAIN d : d[k] = b[k]
  BY DEF Drop
<1> HIDE DEF d
<1>3. IsFiniteSet(DOMAIN d)
  <2>1. IsFiniteSet(DOMAIN b) /\ DOMAIN d \in SUBSET DOMAIN b
    BY <1>1, <1>2, BindingsFacts
  <2>2. QED
    BY <2>1, FS_Subset
<1>4. d \in Bindings
  BY <1>1, <1>2, <1>3, BindingsFacts, IsBindings
<1>5. DeleteBindingQueue(x, A) = [x EXCEPT !.bindings = d]
  BY DEF DeleteBindingQueue, d, gone
<1>6. QED
  BY <1>4, <1>5 DEF ExchangeType
-----------------------------------------------------------------------------
(* The types of the state *)

ExchangesTyped ==
  \A n \in DOMAIN m_mExchanges : n \in Exchanges /\ m_mExchanges[n] \in ExchangeType

ObjectsTyped ==
  \A a \in DOMAIN objects : a \in Addresses /\ objects[a] \in MessageQueueType

IsMap(f) == f = [x \in DOMAIN f |-> f[x]]

MapsTyped ==
  /\ IsMap(m_mSubcribeQueues) /\ IsMap(m_mUnSubcribeQueues)
  /\ DOMAIN m_mUnSubcribeQueues \subseteq Queues

\* A message waits for the ack of a client that is online.
AcksTyped ==
  /\ m_NeedAckMessageList \in Seq(Message) /\ m_iAckSeq \in Nat
  /\ \A e \in ToSet(m_NeedAckMessageList) : e.client \in online

\* A number is remembered for a client that is online.
DedupTyped ==
  /\ m_producerMsgSeqs \subseteq online \X Nat
  /\ DOMAIN m_producerLastMsgSeq \subseteq Clients
  /\ \A c \in DOMAIN m_producerLastMsgSeq : m_producerLastMsgSeq[c] \in Nat

\* The queue in PushMessage's hand has somebody to push to.
CurServed == loop.cur # None => IsSubscribe(objects[m_mSubcribeQueues[loop.cur]])

Counters == reconnects \in 0 .. MaxReconnects /\ copies \in 0 .. MaxCopies

Types == /\ ExchangesTyped /\ ObjectsTyped /\ MapsTyped /\ AcksTyped
         /\ DedupTyped /\ CurServed /\ Counters

TInv == IInv /\ Types

LEMMA UnbindType ==
  ASSUME ExchangesTyped, NEW ns, NEW A
  PROVE  \A n \in DOMAIN Unbind(ns, A) : n \in Exchanges /\ Unbind(ns, A)[n] \in ExchangeType
<1>1. \A n \in DOMAIN Unbind(ns, A) :
        /\ n \in DOMAIN m_mExchanges
        /\ \/ Unbind(ns, A)[n] = DeleteBindingQueue(m_mExchanges[n], A)
           \/ Unbind(ns, A)[n] = m_mExchanges[n]
  BY DEF Unbind
<1>2. \A n \in DOMAIN m_mExchanges : DeleteBindingQueue(m_mExchanges[n], A) \in ExchangeType
  BY DeleteBindingType DEF ExchangesTyped
<1>3. QED
  BY <1>1, <1>2 DEF ExchangesTyped

(* Every handler runs with no queue in PushMessage's hand. *)
LEMMA NothingInHand ==
  ASSUME LoopOK, loop.phase = "receive", UNCHANGED loop
  PROVE  CurServed'
BY DEF LoopOK, CurServed

(* What a step leaves alone keeps its types. *)
LEMMA AcksStay ==
  ASSUME AcksTyped, UNCHANGED acks, online \subseteq online'
  PROVE  AcksTyped'
BY DEF AcksTyped, acks

LEMMA DedupStays ==
  ASSUME DedupTyped, UNCHANGED dedup, online \subseteq online'
  PROVE  DedupTyped'
BY DEF DedupTyped, dedup

LEMMA TypedTablesStay ==
  ASSUME ExchangesTyped, ObjectsTyped, MapsTyped, UNCHANGED tables
  PROVE  ExchangesTyped' /\ ObjectsTyped' /\ MapsTyped'
BY DEF ExchangesTyped, ObjectsTyped, MapsTyped, tables

(* Maps built with Put and Drop are maps. *)
LEMMA PutIsMap ==
  ASSUME NEW f, NEW k, NEW v
  PROVE  IsMap(Put(f, k, v)) /\ DOMAIN Put(f, k, v) = DOMAIN f \cup {k}
BY DEF Put, IsMap

LEMMA DropIsMap ==
  ASSUME NEW f, NEW S
  PROVE  IsMap(Drop(f, S)) /\ DOMAIN Drop(f, S) = DOMAIN f \ S
BY DEF Drop, IsMap

-----------------------------------------------------------------------------
(* The loop and the handlers: types *)

LEMMA VisitQueueTypes ==
  ASSUME TInv, NEW q \in loop.todo, VisitQueue(q)
  PROVE  Types'
<1>1. /\ loop.cur = None
      /\ UNCHANGED <<m_mExchanges, objects, acks, dedup, clients, copies>>
  BY DEF VisitQueue
<1>2. q \in Queues /\ LoopOK /\ Types
  BY DEF TInv, IInv, LoopOK
<1>3. ExchangesTyped' /\ ObjectsTyped' /\ AcksTyped' /\ DedupTyped' /\ Counters'
  BY <1>1, <1>2, AcksStay, DedupStays DEF Types, ExchangesTyped, ObjectsTyped, Counters, clients
<1>4. CASE /\ IsSubscribe(objects[m_mSubcribeQueues[q]])
           /\ loop' = [loop EXCEPT !.cur = q, !.todo = @ \ {q}]
           /\ UNCHANGED <<m_mSubcribeQueues, m_mUnSubcribeQueues>>
  <2>1. loop'.cur = q
    BY <1>2, <1>4 DEF LoopOK
  <2>2. CurServed' /\ MapsTyped'
    BY <1>1, <1>2, <1>4, <2>1 DEF CurServed, Types, MapsTyped
  <2>3. QED
    BY <1>3, <2>2 DEF Types
<1>5. ASSUME NEW next \in loop.todo \ {q},
             m_mSubcribeQueues' = Drop(m_mSubcribeQueues, {next}),
             m_mUnSubcribeQueues' = Put(m_mUnSubcribeQueues, q, m_mSubcribeQueues[q]),
             loop' = [loop EXCEPT !.todo = @ \ {q, next}]
      PROVE  Types'
  <2>1. loop'.cur = None
    BY <1>1, <1>2, <1>5 DEF LoopOK
  <2>2. MapsTyped'
    <3>1. IsMap(m_mSubcribeQueues') /\ IsMap(m_mUnSubcribeQueues')
      BY <1>5, PutIsMap, DropIsMap
    <3>2. DOMAIN m_mUnSubcribeQueues' = DOMAIN m_mUnSubcribeQueues \cup {q}
      BY <1>5, PutIsMap, DropIsMap
    <3>3. QED
      BY <1>2, <3>1, <3>2 DEF Types, MapsTyped
  <2>3. QED
    BY <1>3, <2>1, <2>2 DEF Types, CurServed
<1>6. CASE /\ loop' = [loop EXCEPT !.phase = "dead"]
           /\ UNCHANGED <<m_mSubcribeQueues, m_mUnSubcribeQueues>>
  <2>1. loop'.cur = None
    BY <1>1, <1>2, <1>6 DEF LoopOK
  <2>2. QED
    BY <1>2, <1>3, <1>6, <2>1 DEF Types, CurServed, MapsTyped
<1>7. QED
  BY <1>4, <1>5, <1>6 DEF VisitQueue

\* Object p is o after one of its first messages, e, has been taken.
Taken(o, e, p) ==
  /\ p \in MessageQueueType
  /\ p.m_messagesList = PopFrontMsg(o, e).m_messagesList
  /\ p.m_msgPriQueue = PopFrontMsg(o, e).m_msgPriQueue
  /\ p.m_vSubscribeConsumers = o.m_vSubscribeConsumers

\* Message out, a copy of e, goes to a client that is online; it waits for an
\* ack under the next number, or is sent with none.
Sends(e, out) ==
  /\ out \in Message /\ out.id = e.id /\ out.client \in online
  /\ toConnect' = <<Push(out)>>
  /\ \/ /\ out.seq = m_iAckSeq /\ m_iAckSeq' = m_iAckSeq + 1
        /\ m_NeedAckMessageList' = Append(m_NeedAckMessageList, out)
     \/ out.seq = -1 /\ UNCHANGED acks

\* What a push and an answer to OnRecvMessage have in common.
Hands(a, e, p, out) ==
  /\ a \in DOMAIN objects /\ e \in FrontMsgs(objects[a])
  /\ objects' = [objects EXCEPT ![a] = p]
  /\ Taken(objects[a], e, p) /\ Sends(e, out)
  /\ UNCHANGED <<m_mExchanges, m_mSubcribeQueues, m_mUnSubcribeQueues, dedup,
                 loop, clients, copies>>

LEMMA TakenFacts ==
  ASSUME NEW o \in MessageQueueType, NEW e \in FrontMsgs(o), NEW i \in Nat
  PROVE  /\ Taken(o, e, PopFrontMsg(o, e))
         /\ Taken(o, e, [PopFrontMsg(o, e) EXCEPT !.m_iPushIndex = i])
<1> DEFINE p == PopFrontMsg(o, e)
<1>1. p \in MessageQueueType /\ [p EXCEPT !.m_iPushIndex = i] \in MessageQueueType
  BY PopType
<1>2. p.m_vSubscribeConsumers = o.m_vSubscribeConsumers
  BY DEF PopFrontMsg, MessageQueueType
<1> HIDE DEF p
<1>3. /\ [p EXCEPT !.m_iPushIndex = i].m_messagesList = p.m_messagesList
      /\ [p EXCEPT !.m_iPushIndex = i].m_msgPriQueue = p.m_msgPriQueue
      /\ [p EXCEPT !.m_iPushIndex = i].m_vSubscribeConsumers = p.m_vSubscribeConsumers
  BY <1>1 DEF MessageQueueType
<1>4. QED
  BY <1>1, <1>2, <1>3 DEF Taken, p

LEMMA PushHands ==
  ASSUME TInv, NEW sent, PushOne(sent)
  PROVE  \E a, e, p, out : Hands(a, e, p, out) /\ Same(objects[a], p)
<1> DEFINE a == m_mSubcribeQueues[loop.cur]
           o == objects[a]
           i == NextPushIndex(o)
           awaited == o.m_iConfirmLevel > 0
           Out(e) == [e EXCEPT !.client = o.m_vSubscribeConsumers[i + 1],
                               !.seq = IF awaited THEN m_iAckSeq ELSE -1,
                               !.queue = IF awaited THEN o.name ELSE @]
           p(e) == [PopFrontMsg(o, e) EXCEPT !.m_iPushIndex = i]
<1>1. /\ loop.cur # None
      /\ m_iAckSeq' = IF awaited THEN m_iAckSeq + 1 ELSE m_iAckSeq
      /\ UNCHANGED <<m_mExchanges, m_mSubcribeQueues, m_mUnSubcribeQueues, dedup,
                     loop, clients, copies>>
  BY DEF PushOne
<1>2. PICK e \in FrontMsgs(o) :
        /\ objects' = [objects EXCEPT ![a] = p(e)]
        /\ m_NeedAckMessageList' = m_NeedAckMessageList \o If(awaited, <<Out(e)>>)
        /\ toConnect' = <<Push(Out(e))>>
  BY Zenon DEF PushOne
<1>3. /\ loop.cur \in DOMAIN m_mSubcribeQueues /\ a \in DOMAIN objects
      /\ o \in MessageQueueType /\ IsQueue(o) /\ IsSubscribe(o) /\ Subscribers(o) \subseteq online
      /\ m_NeedAckMessageList \in Seq(Message) /\ m_iAckSeq \in Nat /\ online \subseteq Clients
  <2>1. loop.cur \in DOMAIN m_mSubcribeQueues /\ a \in DOMAIN objects
    BY <1>1 DEF TInv, IInv, LoopOK, QueueTablesOK, PointersOK
  <2>2. Subscribers(o) \subseteq online /\ IsQueue(o) /\ online \subseteq Clients
    BY <2>1 DEF TInv, IInv, QueueTablesOK, SubscribersOnline, QueuesOK
  <2>3. QED
    BY <1>1, <2>1, <2>2 DEF TInv, Types, ObjectsTyped, CurServed, AcksTyped
<1> HIDE DEF a
<1>4. i \in Nat /\ o.m_vSubscribeConsumers[i + 1] \in online
  <2> DEFINE s == o.m_vSubscribeConsumers
  <2>1. s \in Seq(Clients) /\ s # <<>> /\ o.m_iPushIndex \in Nat \cup {-1}
    BY <1>3 DEF MessageQueueType, IsSubscribe
  <2>2. Len(s) \in Nat /\ Len(s) > 0
    BY <2>1, EmptySeq
  <2>3. i \in Nat /\ i + 1 \in 1 .. Len(s)
    BY <2>1, <2>2 DEF NextPushIndex
  <2>4. s[i + 1] \in ToSet(s)
    BY <2>1, <2>3, RangeFacts
  <2>5. QED
    BY <1>3, <2>3, <2>4 DEF Subscribers
<1>5. e \in Message /\ e.queue \in Queues \cup {None} /\ o.name \in Queues
  BY <1>3, FrontFacts DEF Message, MessageQueueType
<1> DEFINE c == o.m_vSubscribeConsumers[i + 1]
           n == IF awaited THEN m_iAckSeq ELSE -1
           q == IF awaited THEN o.name ELSE e.queue
           out == Out(e)
<1>6. out = [e EXCEPT !.client = c, !.seq = n, !.queue = q]
  OBVIOUS
<1>7. n \in Nat \cup {-1} /\ q \in Queues \cup {None} /\ c \in Clients /\ c \in online
  BY <1>3, <1>4, <1>5
<1> HIDE DEF c, q, i, n, out
<1>8. out \in Message /\ out.id = e.id /\ out.client = c /\ out.seq = n
  BY <1>5, <1>6, <1>7 DEF Message
<1>9. Sends(e, out)
  <2>1. CASE awaited
    <3>1. m_NeedAckMessageList' = Append(m_NeedAckMessageList, out)
      BY <1>2, <1>3, <1>8, <2>1, AppendFacts DEF If, out
    <3>2. QED
      BY <1>1, <1>2, <1>7, <1>8, <2>1, <3>1 DEF Sends, out, n
  <2>2. CASE ~awaited
    <3>1. UNCHANGED acks
      BY <1>1, <1>2, <1>3, <2>2, EmptySeq, ConcatEmptySeq DEF If, acks
    <3>2. QED
      BY <1>2, <1>7, <1>8, <2>2, <3>1 DEF Sends, out, n
  <2>3. QED
    BY <2>1, <2>2
<1>10. Taken(o, e, p(e)) /\ Same(o, p(e))
  BY <1>3, <1>4, TakenFacts, MessagesOnly
<1> HIDE DEF o, p, awaited
<1>11. Hands(a, e, p(e), out)
  BY <1>1, <1>2, <1>3, <1>9, <1>10 DEF Hands, o
<1>12. QED
  BY <1>10, <1>11 DEF o

LEMMA HandsTypes ==
  ASSUME TInv, NEW a, NEW e, NEW p, NEW out, Hands(a, e, p, out),
         loop.phase = "receive" \/ Same(objects[a], p)
  PROVE  Types'
<1>1. /\ UNCHANGED <<m_mExchanges, m_mSubcribeQueues, m_mUnSubcribeQueues, dedup,
                     loop, clients, copies>>
      /\ objects' = [objects EXCEPT ![a] = p] /\ p \in MessageQueueType
      /\ Sends(e, out)
  BY DEF Hands, Taken
<1>2. ExchangesTyped' /\ MapsTyped' /\ DedupTyped' /\ Counters'
  BY <1>1, DedupStays DEF TInv, Types, ExchangesTyped, MapsTyped, Counters, clients
<1>3. ObjectsTyped'
  BY <1>1 DEF TInv, Types, ObjectsTyped
<1>4. AcksTyped'
  <2>1. m_NeedAckMessageList \in Seq(Message) /\ m_iAckSeq \in Nat /\ UNCHANGED online
    BY <1>1 DEF TInv, Types, AcksTyped, clients
  <2>2. CASE UNCHANGED acks
    BY <2>1, <2>2, AcksStay DEF TInv, Types
  <2>3. CASE /\ m_NeedAckMessageList' = Append(m_NeedAckMessageList, out)
             /\ m_iAckSeq' = m_iAckSeq + 1
    <3>1. out \in Message /\ out.client \in online
      BY <1>1 DEF Sends
    <3>2. /\ m_NeedAckMessageList' \in Seq(Message)
          /\ ToSet(m_NeedAckMessageList') = ToSet(m_NeedAckMessageList) \cup {out}
      BY <2>1, <2>3, <3>1, AppendFacts
    <3>3. QED
      BY <2>1, <2>3, <3>1, <3>2 DEF TInv, Types, AcksTyped
  <2>4. QED
    BY <1>1, <2>2, <2>3 DEF Sends
<1>5. CurServed'
  <2>1. CASE loop.phase = "receive"
    BY <1>1, <2>1, NothingInHand DEF TInv, IInv
  <2>2. CASE Same(objects[a], p)
    <3>1. \A b \in DOMAIN objects :
            objects'[b].m_vSubscribeConsumers = objects[b].m_vSubscribeConsumers
      BY <1>1, <2>2 DEF Same
    <3>2. loop.cur # None => m_mSubcribeQueues[loop.cur] \in DOMAIN objects
      BY DEF TInv, IInv, LoopOK, QueueTablesOK, PointersOK
    <3>3. QED
      BY <1>1, <3>1, <3>2 DEF TInv, Types, CurServed, IsSubscribe
  <2>3. QED
    BY <2>1, <2>2
<1>6. QED
  BY <1>2, <1>3, <1>4, <1>5 DEF Types

LEMMA RecvHands ==
  ASSUME TInv, NEW c, NEW q \in Queues, NEW level \in ConsumerLevels, NEW sent,
         OnRecvMessage(c, q, level, sent)
  PROVE  \/ UNCHANGED <<tables, acks, dedup, loop, clients, copies>>
         \/ \E a, e, p, out : Hands(a, e, p, out)
<1> DEFINE a == QueueOf(q)
           o == objects[a]
           Out(e) == [e EXCEPT !.client = c,
                               !.seq = IF level > 0 THEN m_iAckSeq ELSE -1,
                               !.queue = IF level > 0 THEN q ELSE @]
<1>1. UNCHANGED <<dedup, loop, clients, copies>> /\ c \in online
  BY DEF OnRecvMessage, Receive
<1>2. CASE Refuse(c) /\ UNCHANGED acks
  BY <1>1, <1>2 DEF Refuse
<1>3. ASSUME Named(q), UNCHANGED <<m_mExchanges, m_mSubcribeQueues, m_mUnSubcribeQueues>>,
             NEW e \in FrontMsgs(o), objects' = [objects EXCEPT ![a] = PopFrontMsg(@, e)],
             m_NeedAckMessageList' = m_NeedAckMessageList \o If(level > 0, <<Out(e)>>),
             m_iAckSeq' = IF level > 0 THEN m_iAckSeq + 1 ELSE m_iAckSeq,
             toConnect' = <<Push(Out(e))>>
      PROVE  \E b, d, p, out : Hands(b, d, p, out)
  <2>1. a \in DOMAIN objects
    BY <1>3 DEF Named, QueueOf, TInv, IInv, QueueTablesOK, PointersOK
  <2>2. /\ o \in MessageQueueType /\ m_NeedAckMessageList \in Seq(Message)
        /\ m_iAckSeq \in Nat /\ c \in Clients
    BY <1>1, <2>1 DEF TInv, IInv, Types, ObjectsTyped, AcksTyped
  <2>3. objects' = [objects EXCEPT ![a] = PopFrontMsg(o, e)] /\ Taken(o, e, PopFrontMsg(o, e))
    BY <1>3, <2>2, TakenFacts
  <2> DEFINE n   == IF level > 0 THEN m_iAckSeq ELSE -1
             r   == IF level > 0 THEN q ELSE e.queue
             out == Out(e)
  <2>4. e \in Message /\ n \in Nat \cup {-1} /\ r \in Queues \cup {None}
    BY <1>3, <2>2, FrontFacts DEF Message
  <2>5. out = [e EXCEPT !.client = c, !.seq = n, !.queue = r]
    OBVIOUS
  <2> HIDE DEF n, r, out
  <2>6. out \in Message /\ out.id = e.id /\ out.client = c /\ out.seq = n
    BY <2>2, <2>4, <2>5 DEF Message
  <2>7. Sends(e, out)
    <3>1. CASE level > 0
      <4>1. m_NeedAckMessageList' = Append(m_NeedAckMessageList, out)
        BY <1>3, <2>2, <2>6, <3>1, AppendFacts DEF If, out
      <4>2. QED
        BY <1>1, <1>3, <2>6, <3>1, <4>1 DEF Sends, out, n
    <3>2. CASE ~(level > 0)
      <4>1. UNCHANGED acks
        BY <1>3, <2>2, <3>2, EmptySeq, ConcatEmptySeq DEF If, acks
      <4>2. QED
        BY <1>1, <1>3, <2>6, <3>2, <4>1 DEF Sends, out, n
    <3>3. QED
      BY <3>1, <3>2
  <2> HIDE DEF a, o
  <2>8. Hands(a, e, PopFrontMsg(o, e), out)
    BY <1>1, <1>3, <2>1, <2>3, <2>7 DEF Hands, o
  <2>9. QED
    BY <2>8
<1>4. \/ Refuse(c) /\ UNCHANGED acks
      \/ /\ Named(q) /\ UNCHANGED <<m_mExchanges, m_mSubcribeQueues, m_mUnSubcribeQueues>>
         /\ \E e \in FrontMsgs(o) :
              /\ objects' = [objects EXCEPT ![a] = PopFrontMsg(@, e)]
              /\ m_NeedAckMessageList' = m_NeedAckMessageList \o If(level > 0, <<Out(e)>>)
              /\ m_iAckSeq' = IF level > 0 THEN m_iAckSeq + 1 ELSE m_iAckSeq
              /\ toConnect' = <<Push(Out(e))>>
  BY Zenon DEF OnRecvMessage
<1>5. QED
  BY <1>2, <1>3, <1>4

(* The broker's own record of what the clients owe stays. *)
LEMMA OnlyTables ==
  ASSUME TInv, UNCHANGED <<acks, dedup, loop, clients, copies>>, loop.phase = "receive",
         ExchangesTyped', ObjectsTyped', MapsTyped'
  PROVE  Types'
<1>1. AcksTyped' /\ DedupTyped' /\ Counters'
  BY AcksStay, DedupStays DEF TInv, Types, Counters, clients
<1>2. CurServed'
  BY NothingInHand DEF TInv, IInv
<1>3. QED
  BY <1>1, <1>2 DEF Types

LEMMA RefuseTypes ==
  ASSUME TInv, NEW c, Refuse(c), UNCHANGED <<acks, dedup, loop, clients, copies>>,
         loop.phase = "receive"
  PROVE  Types'
BY OnlyTables, TypedTablesStay DEF Refuse, TInv, Types

LEMMA OnCreateExchangeTypes ==
  ASSUME TInv, NEW c, NEW x \in Exchanges, NEW kind \in ExchangeKinds, NEW ok,
         OnCreateExchange(c, x, kind, ok)
  PROVE  Types'
<1>1. /\ UNCHANGED <<m_mSubcribeQueues, m_mUnSubcribeQueues, objects, acks, dedup,
                     loop, clients, copies>>
      /\ loop.phase = "receive"
      /\ \/ UNCHANGED m_mExchanges
         \/ m_mExchanges' = Put(m_mExchanges, x, NewExchange(kind))
  BY DEF OnCreateExchange, Receive
<1>2. ObjectsTyped' /\ MapsTyped'
  BY <1>1 DEF TInv, Types, ObjectsTyped, MapsTyped
<1>3. ExchangesTyped'
  BY <1>1, NewExchangeType DEF TInv, Types, ExchangesTyped, Put
<1>4. QED
  BY <1>1, <1>2, <1>3, OnlyTables

LEMMA OnCreateQueueTypes ==
  ASSUME TInv, NEW c, NEW q \in Queues, NEW kind \in QueueKinds, NEW ok,
         OnCreateQueue(c, q, kind, ok)
  PROVE  Types'
<1>1. /\ UNCHANGED <<m_mExchanges, m_mSubcribeQueues, acks, dedup, loop, clients, copies>>
      /\ loop.phase = "receive"
      /\ \/ UNCHANGED <<m_mUnSubcribeQueues, objects>>
         \/ \E a \in FreeAddresses :
              /\ objects' = Put(objects, a, NewQueue(q, kind))
              /\ m_mUnSubcribeQueues' = Put(m_mUnSubcribeQueues, q, a)
  BY DEF OnCreateQueue, Receive
<1>2. CASE UNCHANGED <<m_mUnSubcribeQueues, objects>>
  <2>1. ExchangesTyped' /\ ObjectsTyped' /\ MapsTyped'
    BY <1>1, <1>2, TypedTablesStay DEF TInv, Types, tables
  <2>2. QED
    BY <1>1, <2>1, OnlyTables
<1>3. ASSUME NEW a \in FreeAddresses,
             objects' = Put(objects, a, NewQueue(q, kind)),
             m_mUnSubcribeQueues' = Put(m_mUnSubcribeQueues, q, a)
      PROVE  Types'
  <2>1. a \in Addresses /\ NewQueue(q, kind) \in MessageQueueType
    BY NewQueueType DEF FreeAddresses
  <2>2. ObjectsTyped'
    BY <1>3, <2>1 DEF TInv, Types, ObjectsTyped, Put
  <2>3. IsMap(m_mUnSubcribeQueues') /\ DOMAIN m_mUnSubcribeQueues' = DOMAIN m_mUnSubcribeQueues \cup {q}
    BY <1>3, PutIsMap, DropIsMap
  <2>4. ExchangesTyped' /\ MapsTyped'
    BY <1>1, <2>3 DEF TInv, Types, ExchangesTyped, MapsTyped
  <2>5. QED
    BY <1>1, <2>2, <2>4, OnlyTables
<1>4. QED
  BY <1>1, <1>2, <1>3

LEMMA OnCreateBindingTypes ==
  ASSUME TInv, NEW c, NEW x, NEW q, NEW key \in Keys, NEW ok, OnCreateBinding(c, x, q, key, ok)
  PROVE  Types'
<1>1. UNCHANGED <<acks, dedup, loop, clients, copies>> /\ loop.phase = "receive"
  BY DEF OnCreateBinding, Receive
<1>2. CASE Refuse(c)
  BY <1>1, <1>2, RefuseTypes
<1>3. CASE /\ x \in DOMAIN m_mExchanges /\ Named(q)
           /\ m_mExchanges' =
                [m_mExchanges EXCEPT ![x].bindings = CreateBinding(@, key, QueueOf(q))]
           /\ UNCHANGED <<m_mSubcribeQueues, m_mUnSubcribeQueues, objects>>
  <2> DEFINE new == CreateBinding(m_mExchanges[x].bindings, key, QueueOf(q))
  <2>1. QueueOf(q) \in Addresses
    BY <1>3 DEF Named, QueueOf, TInv, IInv, QueueTablesOK, PointersOK, Types, ObjectsTyped
  <2>2. m_mExchanges[x] \in ExchangeType /\ m_mExchanges[x].bindings \in Bindings
    BY <1>3 DEF TInv, Types, ExchangesTyped, ExchangeType
  <2>3. new \in Bindings
    BY <2>1, <2>2, CreateBindingType
  <2>4. m_mExchanges' = [m_mExchanges EXCEPT ![x] = [m_mExchanges[x] EXCEPT !.bindings = new]]
    BY <1>3
  <2> HIDE DEF new
  <2>5. [m_mExchanges[x] EXCEPT !.bindings = new] \in ExchangeType
    BY <2>2, <2>3 DEF ExchangeType
  <2>6. ExchangesTyped'
    BY <2>4, <2>5 DEF TInv, Types, ExchangesTyped
  <2>7. ObjectsTyped' /\ MapsTyped'
    BY <1>3 DEF TInv, Types, ObjectsTyped, MapsTyped
  <2>8. QED
    BY <1>1, <2>6, <2>7, OnlyTables
<1>4. QED
  BY <1>2, <1>3 DEF OnCreateBinding

LEMMA OnDeleteExchangeTypes ==
  ASSUME TInv, NEW c, NEW x, NEW ok, OnDeleteExchange(c, x, ok)
  PROVE  Types'
<1>1. UNCHANGED <<acks, dedup, loop, clients, copies>> /\ loop.phase = "receive"
  BY DEF OnDeleteExchange, Receive
<1>2. CASE Refuse(c)
  BY <1>1, <1>2, RefuseTypes
<1>3. CASE /\ m_mExchanges' = Drop(m_mExchanges, {x})
           /\ UNCHANGED <<m_mSubcribeQueues, m_mUnSubcribeQueues, objects>>
  <2>1. ExchangesTyped' /\ ObjectsTyped' /\ MapsTyped'
    BY <1>3 DEF TInv, Types, ExchangesTyped, ObjectsTyped, MapsTyped, Drop
  <2>2. QED
    BY <1>1, <2>1, OnlyTables
<1>4. QED
  BY <1>2, <1>3 DEF OnDeleteExchange

LEMMA OnDeleteQueueTypes ==
  ASSUME TInv, NEW c, NEW q, NEW ok, OnDeleteQueue(c, q, ok)
  PROVE  Types'
<1>1. UNCHANGED <<acks, dedup, loop, clients, copies>> /\ loop.phase = "receive"
  BY DEF OnDeleteQueue, Receive
<1>2. CASE Refuse(c)
  BY <1>1, <1>2, RefuseTypes
<1>3. CASE /\ m_mSubcribeQueues' = Drop(m_mSubcribeQueues, {q})
           /\ m_mUnSubcribeQueues' = Drop(m_mUnSubcribeQueues, {q})
           /\ \/ /\ m_mExchanges' = Unbind(DOMAIN m_mExchanges, {QueueOf(q)})
                 /\ objects' = Drop(objects, {QueueOf(q)})
              \/ UNCHANGED <<m_mExchanges, objects>>
  <2>1. /\ IsMap(m_mSubcribeQueues') /\ IsMap(m_mUnSubcribeQueues')
        /\ DOMAIN m_mUnSubcribeQueues' = DOMAIN m_mUnSubcribeQueues \ {q}
    BY <1>3, PutIsMap, DropIsMap
  <2>2. MapsTyped'
    BY <2>1 DEF TInv, Types, MapsTyped
  <2>3. ObjectsTyped'
    BY <1>3 DEF TInv, Types, ObjectsTyped, Drop
  <2>4. ExchangesTyped'
    BY <1>3, UnbindType DEF TInv, Types, ExchangesTyped
  <2>5. QED
    BY <1>1, <2>2, <2>3, <2>4, OnlyTables
<1>4. QED
  BY <1>2, <1>3 DEF OnDeleteQueue

LEMMA OnCreateSubscribeTypes ==
  ASSUME TInv, NEW c \in Clients, NEW q \in Queues, NEW level \in ConsumerLevels, NEW ok,
         OnCreateSubscribe(c, q, level, ok)
  PROVE  Types'
<1> DEFINE a == QueueOf(q)
           o == AddSubscribe(objects[a], c, level)
<1>1. UNCHANGED <<acks, dedup, loop, clients, copies>> /\ loop.phase = "receive"
  BY DEF OnCreateSubscribe, Receive
<1>2. CASE Refuse(c)
  BY <1>1, <1>2, RefuseTypes
<1>3. CASE /\ Named(q) /\ UNCHANGED m_mExchanges
           /\ \/ /\ objects' = [objects EXCEPT ![a] = o]
                 /\ m_mUnSubcribeQueues' = Drop(m_mUnSubcribeQueues, {q})
                 /\ \/ m_mSubcribeQueues' = Put(m_mSubcribeQueues, q, a)
                    \/ UNCHANGED m_mSubcribeQueues
              \/ /\ objects' = [objects EXCEPT ![a] = CancelSubscribe(o, c)]
                 /\ UNCHANGED <<m_mSubcribeQueues, m_mUnSubcribeQueues>>
  <2>1. a \in DOMAIN objects
    BY <1>3 DEF Named, QueueOf, TInv, IInv, QueueTablesOK, PointersOK
  <2>2. objects[a] \in MessageQueueType /\ IsQueue(objects[a])
    BY <2>1 DEF TInv, IInv, QueueTablesOK, QueuesOK, Types, ObjectsTyped
  <2>3. o \in MessageQueueType /\ IsQueue(o)
    BY <2>2, SubscribeType, Subscribes
  <2>4. CancelSubscribe(o, c) \in MessageQueueType
    BY <2>3, SubscribeType
  <2> HIDE DEF o, a
  <2>5. ObjectsTyped'
    BY <1>3, <2>3, <2>4 DEF TInv, Types, ObjectsTyped
  <2>6. /\ IsMap(m_mSubcribeQueues) /\ IsMap(m_mUnSubcribeQueues)
        /\ DOMAIN m_mUnSubcribeQueues \subseteq Queues
    BY DEF TInv, Types, MapsTyped
  <2>7. /\ IsMap(m_mSubcribeQueues') /\ IsMap(m_mUnSubcribeQueues')
        /\ DOMAIN m_mUnSubcribeQueues' \subseteq Queues
    <3>1. CASE UNCHANGED m_mUnSubcribeQueues /\ UNCHANGED m_mSubcribeQueues
      BY <2>6, <3>1
    <3>2. CASE /\ m_mUnSubcribeQueues' = Drop(m_mUnSubcribeQueues, {q})
               /\ UNCHANGED m_mSubcribeQueues
      BY <2>6, <3>2, DropIsMap
    <3>3. CASE /\ m_mUnSubcribeQueues' = Drop(m_mUnSubcribeQueues, {q})
               /\ m_mSubcribeQueues' = Put(m_mSubcribeQueues, q, a)
      <4>1. IsMap(Put(m_mSubcribeQueues, q, a))
        BY PutIsMap
      <4>2. QED
        BY <2>6, <3>3, <4>1, DropIsMap
    <3>4. QED
      BY <1>3, <3>1, <3>2, <3>3
  <2>8. ExchangesTyped' /\ MapsTyped'
    BY <1>3, <2>7 DEF TInv, Types, ExchangesTyped, MapsTyped
  <2>9. QED
    BY <1>1, <2>5, <2>8, OnlyTables
<1>4. QED
  BY <1>2, <1>3 DEF OnCreateSubscribe

LEMMA OnCancelSubscribeTypes ==
  ASSUME TInv, NEW c, NEW q \in Queues, OnCancelSubscribe(c, q)
  PROVE  Types'
<1> DEFINE a    == m_mSubcribeQueues[q]
           o    == objects[a]
           left == CancelSubscribe(o, c)
           back == AddSubscribe(left, c, o.m_iConfirmLevel)
<1>1. /\ UNCHANGED <<acks, dedup, loop, clients, copies>>
      /\ loop.phase = "receive" /\ c \in Clients
  BY DEF OnCancelSubscribe, Receive, TInv, IInv
<1>2. CASE Refuse(c)
  BY <1>1, <1>2, RefuseTypes
<1>3. ASSUME q \in DOMAIN m_mSubcribeQueues
      PROVE  /\ left \in MessageQueueType /\ back \in MessageQueueType
             /\ ClearMessage(left) \in MessageQueueType
  <2>1. a \in DOMAIN objects
    BY <1>3 DEF TInv, IInv, QueueTablesOK, PointersOK
  <2>2. o \in MessageQueueType /\ IsQueue(o)
    BY <2>1 DEF TInv, IInv, QueueTablesOK, QueuesOK, Types, ObjectsTyped
  <2>3. left \in MessageQueueType /\ IsQueue(left)
    BY <2>2, SubscribeType, Cancels
  <2>4. o.m_iConfirmLevel \in ConsumerLevels \cup {0}
    BY <2>2 DEF MessageQueueType
  <2>5. ClearMessage(left) \in MessageQueueType
    <3>1. <<>> \in Seq(Message) /\ {} \in SUBSET Message
      OBVIOUS
    <3>2. QED
      BY <2>3, <3>1 DEF ClearMessage, MessageQueueType
  <2>6. QED
    BY <1>1, <2>3, <2>4, <2>5, SubscribeType
<1>4. /\ IsMap(m_mSubcribeQueues) /\ IsMap(m_mUnSubcribeQueues)
      /\ DOMAIN m_mUnSubcribeQueues \subseteq Queues
  BY DEF TInv, Types, MapsTyped
<1>5. ASSUME q \in DOMAIN m_mSubcribeQueues, ExchangesTyped',
             \/ objects' = [objects EXCEPT ![a] = left]
             \/ objects' = [objects EXCEPT ![a] = back]
             \/ objects' = [objects EXCEPT ![a] = ClearMessage(left)]
             \/ objects' = Drop(objects, {a}),
             UNCHANGED m_mSubcribeQueues \/ m_mSubcribeQueues' = Drop(m_mSubcribeQueues, {q}),
             UNCHANGED m_mUnSubcribeQueues \/ m_mUnSubcribeQueues' = Put(m_mUnSubcribeQueues, q, a)
      PROVE  Types'
  <2>1. /\ left \in MessageQueueType /\ back \in MessageQueueType
        /\ ClearMessage(left) \in MessageQueueType
    BY <1>3, <1>5
  <2> HIDE DEF left, back, a
  <2>2. ObjectsTyped'
    BY <1>5, <2>1 DEF TInv, Types, ObjectsTyped, Drop
  <2>3. IsMap(m_mSubcribeQueues')
    <3>1. CASE UNCHANGED m_mSubcribeQueues
      BY <1>4, <3>1
    <3>2. CASE m_mSubcribeQueues' = Drop(m_mSubcribeQueues, {q})
      BY <3>2, DropIsMap
    <3>3. QED
      BY <1>5, <3>1, <3>2
  <2>4. IsMap(m_mUnSubcribeQueues') /\ DOMAIN m_mUnSubcribeQueues' \subseteq Queues
    <3>1. CASE UNCHANGED m_mUnSubcribeQueues
      BY <1>4, <3>1
    <3>2. CASE m_mUnSubcribeQueues' = Put(m_mUnSubcribeQueues, q, a)
      <4>1. /\ IsMap(Put(m_mUnSubcribeQueues, q, a))
            /\ DOMAIN Put(m_mUnSubcribeQueues, q, a) = DOMAIN m_mUnSubcribeQueues \cup {q}
        BY PutIsMap
      <4>2. QED
        BY <1>4, <3>2, <4>1
    <3>3. QED
      BY <1>5, <3>1, <3>2
  <2>5. QED
    BY <1>1, <1>5, <2>2, <2>3, <2>4, OnlyTables DEF MapsTyped
<1>6. ASSUME UNCHANGED m_mExchanges
      PROVE  ExchangesTyped'
  BY <1>6 DEF TInv, Types, ExchangesTyped
<1>7. ASSUME NEW told, DeleteAutomatically(c, q, left, told)
      PROVE  /\ ExchangesTyped'
             /\ \/ objects' = Drop(objects, {a})
                \/ objects' = [objects EXCEPT ![a] = ClearMessage(left)]
  <2> DEFINE u(ns) == Unbind(ns, {a})
  <2>1. \/ /\ m_mExchanges' = u(DOMAIN m_mExchanges)
           /\ \/ objects' = Drop(objects, {a})
              \/ objects' = [objects EXCEPT ![a] = ClearMessage(left)]
        \/ \E before, n :
             /\ m_mExchanges' = [u(before) EXCEPT ![n] = DeleteBindingQueue(@, {a})]
             /\ objects' = [objects EXCEPT ![a] = ClearMessage(left)]
    BY <1>7 DEF DeleteAutomatically
  <2>2. ASSUME NEW ns
        PROVE  \A n \in DOMAIN u(ns) :
                 /\ n \in Exchanges /\ u(ns)[n] \in ExchangeType
                 /\ DeleteBindingQueue(u(ns)[n], {a}) \in ExchangeType
    BY UnbindType, DeleteBindingType DEF TInv, Types
  <2> HIDE DEF u
  <2>3. ASSUME NEW ns, m_mExchanges' = u(ns)
        PROVE  ExchangesTyped'
    BY <2>2, <2>3 DEF ExchangesTyped
  <2>4. ASSUME NEW before, NEW n,
               m_mExchanges' = [u(before) EXCEPT ![n] = DeleteBindingQueue(@, {a})]
        PROVE  ExchangesTyped'
    BY <2>2, <2>4 DEF ExchangesTyped
  <2> HIDE DEF left, a
  <2>5. QED
    BY <2>1, <2>3, <2>4
<1> DEFINE listed == q \in DOMAIN m_mSubcribeQueues \ DOMAIN m_mUnSubcribeQueues
<1>8. \/ Refuse(c)
      \/ /\ listed /\ objects' = [objects EXCEPT ![a] = back]
         /\ UNCHANGED <<m_mExchanges, m_mSubcribeQueues, m_mUnSubcribeQueues>>
      \/ /\ listed /\ objects' = [objects EXCEPT ![a] = left]
         /\ m_mSubcribeQueues' = Drop(m_mSubcribeQueues, {q})
         /\ \/ UNCHANGED m_mUnSubcribeQueues
            \/ m_mUnSubcribeQueues' = Put(m_mUnSubcribeQueues, q, a)
         /\ UNCHANGED m_mExchanges
      \/ /\ listed /\ m_mSubcribeQueues' = Drop(m_mSubcribeQueues, {q})
         /\ \E told : DeleteAutomatically(c, q, left, told)
         /\ UNCHANGED m_mUnSubcribeQueues
  BY DEF OnCancelSubscribe
<1> HIDE DEF left, back, a
<1>9. QED
  BY <1>2, <1>5, <1>6, <1>7, <1>8

\* What the exit of a client does to the messages: those that wait for its ack
\* go back to the front of the queues, known by name, that are left.
ExitHeap(c, heap, home, awaited) ==
  /\ awaited = {e \in ToSet(m_NeedAckMessageList) : e.client = c}
  /\ objects' = PutBack(heap, home, Keep(m_NeedAckMessageList, awaited))
  /\ m_NeedAckMessageList' = Keep(m_NeedAckMessageList, ToSet(m_NeedAckMessageList) \ awaited)
  /\ UNCHANGED m_iAckSeq

\* heap is made of objects: some go, some lose a subscriber.
Survivors(c, heap) ==
  \A a \in DOMAIN heap :
    /\ a \in DOMAIN objects
    /\ heap[a] = objects[a] \/ heap[a] = CancelSubscribe(objects[a], c)

LEMMA ExitWhat ==
  ASSUME NEW c, OnClientExit(c)
  PROVE  /\ \E heap, home, awaited :
              /\ ExitHeap(c, heap, home, awaited) /\ Survivors(c, heap)
              /\ IsMap(home)
              /\ DOMAIN home = DOMAIN m_mSubcribeQueues' \cup DOMAIN m_mUnSubcribeQueues'
              /\ \A q \in DOMAIN home :
                   home[q] = IF q \in DOMAIN m_mSubcribeQueues' THEN m_mSubcribeQueues'[q]
                             ELSE m_mUnSubcribeQueues'[q]
              /\ \A a \in DOMAIN objects \ DOMAIN heap :
                   \E q \in DOMAIN m_mSubcribeQueues : a = m_mSubcribeQueues[q]
         /\ \E last, dying : /\ last \subseteq DOMAIN m_mSubcribeQueues
                             /\ m_mSubcribeQueues' = Drop(m_mSubcribeQueues, last)
                             /\ IsMap(m_mUnSubcribeQueues')
                             /\ DOMAIN m_mUnSubcribeQueues' =
                                  DOMAIN m_mUnSubcribeQueues \cup (last \ dying)
         /\ \E dead : m_mExchanges' = Unbind(DOMAIN m_mExchanges, dead)
         /\ loop.phase = "receive"
         /\ m_producerMsgSeqs' = {p \in m_producerMsgSeqs : ~DecimalPrefix(c, p[1])}
         /\ online' = online \ {c}
         /\ UNCHANGED <<m_iAckSeq, m_producerLastMsgSeq, loop, reconnects, copies>>
<1> DEFINE mine   == Subscriptions(c)
           Left(q) == CancelSubscribe(objects[m_mSubcribeQueues[q]], c)
           last   == {q \in mine : ~IsSubscribe(Left(q))}
           dying  == {q \in last : Left(q).autoDel}
           dead   == {m_mSubcribeQueues[q] : q \in dying}
           heap   == [a \in DOMAIN objects \ dead |->
                        IF \E q \in mine : m_mSubcribeQueues[q] = a
                        THEN CancelSubscribe(objects[a], c) ELSE objects[a]]
           sub    == Drop(m_mSubcribeQueues, last)
           unsub  == [q \in DOMAIN m_mUnSubcribeQueues \cup (last \ dying) |->
                        IF q \in last \ dying THEN m_mSubcribeQueues[q]
                        ELSE m_mUnSubcribeQueues[q]]
           home   == [q \in DOMAIN sub \cup DOMAIN unsub |->
                        IF q \in DOMAIN sub THEN sub[q] ELSE unsub[q]]
           awaited == {e \in ToSet(m_NeedAckMessageList) : e.client = c}
<1>1. /\ loop.phase = "receive"
      /\ m_producerMsgSeqs' = {p \in m_producerMsgSeqs : ~DecimalPrefix(c, p[1])}
      /\ m_mSubcribeQueues' = sub /\ m_mUnSubcribeQueues' = unsub
      /\ m_mExchanges' = Unbind(DOMAIN m_mExchanges, dead)
      /\ online' = online \ {c}
      /\ UNCHANGED <<m_iAckSeq, m_producerLastMsgSeq, loop, reconnects, copies>>
  BY Zenon DEF OnClientExit
<1>2. /\ objects' = PutBack(heap, home, Keep(m_NeedAckMessageList, awaited))
      /\ m_NeedAckMessageList' = Keep(m_NeedAckMessageList, ToSet(m_NeedAckMessageList) \ awaited)
  BY Zenon DEF OnClientExit
<1>3. last \subseteq DOMAIN m_mSubcribeQueues /\ dying \subseteq last
  BY DEF Subscriptions
<1>4. Survivors(c, heap)
  BY DEF Survivors
<1>5. ASSUME NEW a \in DOMAIN objects \ DOMAIN heap
      PROVE  \E q \in DOMAIN m_mSubcribeQueues : a = m_mSubcribeQueues[q]
  <2>1. a \in dead
    OBVIOUS
  <2>2. PICK q \in dying : a = m_mSubcribeQueues[q]
    BY <2>1
  <2> HIDE DEF dying, last
  <2>3. QED
    BY <1>3, <2>2
<1> HIDE DEF heap, dead, last, dying, mine
<1>6. IsMap(sub) /\ IsMap(unsub) /\ IsMap(home)
  BY DEF Drop, IsMap
<1>7. DOMAIN unsub = DOMAIN m_mUnSubcribeQueues \cup (last \ dying)
  OBVIOUS
<1>8. /\ DOMAIN home = DOMAIN sub \cup DOMAIN unsub
      /\ \A q \in DOMAIN home : home[q] = IF q \in DOMAIN sub THEN sub[q] ELSE unsub[q]
  OBVIOUS
<1>9. ExitHeap(c, heap, home, awaited)
  BY <1>1, <1>2 DEF ExitHeap
<1> HIDE DEF unsub, home, awaited
<1>10. \E last_1, dying_1 : /\ last_1 \subseteq DOMAIN m_mSubcribeQueues
                            /\ m_mSubcribeQueues' = Drop(m_mSubcribeQueues, last_1)
                            /\ IsMap(m_mUnSubcribeQueues')
                            /\ DOMAIN m_mUnSubcribeQueues' =
                                 DOMAIN m_mUnSubcribeQueues \cup (last_1 \ dying_1)
  BY <1>1, <1>3, <1>6, <1>7
<1> HIDE DEF sub
<1>11. \E heap_1, home_1, awaited_1 :
              /\ ExitHeap(c, heap_1, home_1, awaited_1) /\ Survivors(c, heap_1)
              /\ IsMap(home_1)
              /\ DOMAIN home_1 = DOMAIN m_mSubcribeQueues' \cup DOMAIN m_mUnSubcribeQueues'
              /\ \A q \in DOMAIN home_1 :
                   home_1[q] = IF q \in DOMAIN m_mSubcribeQueues' THEN m_mSubcribeQueues'[q]
                               ELSE m_mUnSubcribeQueues'[q]
              /\ \A a \in DOMAIN objects \ DOMAIN heap_1 :
                   \E q \in DOMAIN m_mSubcribeQueues : a = m_mSubcribeQueues[q]
  BY <1>1, <1>4, <1>5, <1>6, <1>8, <1>9
<1>12. QED
  BY <1>1, <1>10, <1>11, Zenon

LEMMA OnClientExitTypes ==
  ASSUME TInv, NEW c, OnClientExit(c)
  PROVE  Types'
<1>1. /\ loop.phase = "receive" /\ online' = online \ {c}
      /\ m_producerMsgSeqs' = {p \in m_producerMsgSeqs : ~DecimalPrefix(c, p[1])}
      /\ UNCHANGED <<m_iAckSeq, m_producerLastMsgSeq, loop, reconnects, copies>>
  BY ExitWhat
<1>2. CurServed' /\ Counters'
  BY <1>1, NothingInHand DEF TInv, IInv, Types, Counters
<1>3. ExchangesTyped'
  <2>1. PICK dead : m_mExchanges' = Unbind(DOMAIN m_mExchanges, dead)
    BY ExitWhat
  <2>2. QED
    BY <2>1, UnbindType DEF TInv, Types, ExchangesTyped
<1>4. MapsTyped'
  <2>1. PICK last, dying :
          /\ last \subseteq DOMAIN m_mSubcribeQueues
          /\ m_mSubcribeQueues' = Drop(m_mSubcribeQueues, last)
          /\ IsMap(m_mUnSubcribeQueues')
          /\ DOMAIN m_mUnSubcribeQueues' = DOMAIN m_mUnSubcribeQueues \cup (last \ dying)
    BY ExitWhat
  <2>2. DOMAIN m_mSubcribeQueues \subseteq Queues /\ DOMAIN m_mUnSubcribeQueues \subseteq Queues
    BY DEF TInv, IInv, QueueTablesOK, PointersOK, Types, MapsTyped
  <2>3. IsMap(m_mSubcribeQueues')
    BY <2>1, DropIsMap
  <2>4. QED
    BY <2>1, <2>2, <2>3 DEF MapsTyped
<1>5. DedupTyped'
  <2>1. \A p \in m_producerMsgSeqs : p[1] = c => p \notin m_producerMsgSeqs'
    BY <1>1 DEF DecimalPrefix
  <2>2. m_producerMsgSeqs' \subseteq online' \X Nat
    <3>1. SUFFICES ASSUME NEW p \in m_producerMsgSeqs'
                   PROVE  p \in online' \X Nat
      OBVIOUS
    <3>2. p \in m_producerMsgSeqs /\ p \in online \X Nat /\ p[1] # c
      BY <1>1, <2>1 DEF TInv, Types, DedupTyped
    <3>3. QED
      BY <1>1, <3>2
  <2>3. QED
    BY <1>1, <2>2 DEF TInv, Types, DedupTyped
<1>6. PICK heap, home, awaited : ExitHeap(c, heap, home, awaited) /\ Survivors(c, heap)
  <2>1. \E heap, home, awaited : ExitHeap(c, heap, home, awaited) /\ Survivors(c, heap)
    BY ExitWhat
  <2>2. QED
    BY <2>1
<1> DEFINE list == m_NeedAckMessageList
<1>7. list \in Seq(Message) /\ m_iAckSeq \in Nat /\ \A e \in ToSet(list) : e.client \in online
  BY DEF TInv, Types, AcksTyped
<1>8. AcksTyped'
  <2>1. /\ m_NeedAckMessageList' \in Seq(Message)
        /\ ToSet(m_NeedAckMessageList') = ToSet(list) \cap (ToSet(list) \ awaited)
    BY <1>6, <1>7, KeepFacts DEF ExitHeap
  <2>2. \A e \in ToSet(m_NeedAckMessageList') : e \in ToSet(list) /\ e.client # c
    BY <1>6, <2>1 DEF ExitHeap
  <2>3. QED
    BY <1>1, <1>7, <2>1, <2>2 DEF AcksTyped
<1>9. ObjectsTyped'
  <2> DEFINE back == Keep(list, awaited)
             S(a) == {e \in ToSet(back) : e.queue \in DOMAIN home /\ home[e.queue] = a}
  <2>1. back \in Seq(Message)
    BY <1>7, KeepFacts
  <2>2. objects' = [a \in DOMAIN heap |-> AddMessageFront(heap[a], Keep(back, S(a)))]
    BY <1>6 DEF ExitHeap, PutBack
  <2> HIDE DEF back, S
  <2>3. ASSUME NEW a \in DOMAIN heap
        PROVE  a \in Addresses /\ heap[a] \in MessageQueueType
    <3>1. a \in DOMAIN objects /\ (heap[a] = objects[a] \/ heap[a] = CancelSubscribe(objects[a], c))
      BY <1>6 DEF Survivors
    <3>2. a \in Addresses /\ objects[a] \in MessageQueueType /\ IsQueue(objects[a])
      BY <3>1 DEF TInv, IInv, QueueTablesOK, QueuesOK, Types, ObjectsTyped
    <3>3. CancelSubscribe(objects[a], c) \in MessageQueueType
      BY <3>2, SubscribeType
    <3>4. QED
      BY <3>1, <3>2, <3>3
  <2>4. ASSUME NEW a \in DOMAIN heap
        PROVE  AddMessageFront(heap[a], Keep(back, S(a))) \in MessageQueueType
    <3>1. Keep(back, S(a)) \in Seq(Message)
      BY <2>1, KeepFacts
    <3>2. QED
      BY <2>3, <3>1, AddType
  <2>5. QED
    BY <2>2, <2>3, <2>4 DEF ObjectsTyped
<1>10. QED
  BY <1>2, <1>3, <1>4, <1>5, <1>8, <1>9 DEF Types

(* The least of a set of numbers. *)
LEMMA MinFacts ==
  ASSUME NEW S \in SUBSET Nat, S # {}
  PROVE  Min(S) \in S /\ \A y \in S : Min(S) <= y
<1> DEFINE Above == {n \in Nat : \A y \in S : n <= y}
<1>1. \E x \in S : \A y \in S : x <= y
  <2>1. SUFFICES ASSUME ~\E x \in S : \A y \in S : x <= y
                 PROVE  FALSE
    OBVIOUS
  <2>2. 0 \in Above
    OBVIOUS
  <2>3. ASSUME NEW n \in Nat, n \in Above
        PROVE  n + 1 \in Above
    <3>1. n \notin S
      BY <2>1, <2>3
    <3>2. QED
      BY <2>3, <3>1
  <2> HIDE DEF Above
  <2>4. \A n \in Nat : n \in Above
    BY <2>2, <2>3, SetInduction
  <2>5. PICK x \in S : TRUE
    OBVIOUS
  <2>6. x + 1 \in Above
    BY <2>4
  <2>7. QED
    BY <2>5, <2>6 DEF Above
<1>2. QED
  BY <1>1 DEF Min

\* What an ack does: the message under number s leaves the list.
Acked(s) ==
  \E i \in 1 .. Len(m_NeedAckMessageList) :
    /\ m_NeedAckMessageList[i].seq = s
    /\ m_NeedAckMessageList' = RemoveAt(m_NeedAckMessageList, i)

LEMMA AckWhat ==
  ASSUME TInv, NEW c, NEW s, NEW sent, OnClientAck(c, s, sent)
  PROVE  /\ Acked(s) /\ c \in online /\ loop.phase = "receive"
         /\ UNCHANGED <<tables, m_iAckSeq, dedup, loop, clients, copies>>
<1> DEFINE list == m_NeedAckMessageList
           waiting == {i \in DOMAIN list : list[i].seq = s}
<1>1. /\ waiting # {} /\ m_NeedAckMessageList' = RemoveAt(list, Min(waiting))
      /\ c \in online /\ loop.phase = "receive"
      /\ UNCHANGED <<tables, m_iAckSeq, dedup, loop, clients, copies>>
  BY DEF OnClientAck, Receive
<1>2. list \in Seq(Message)
  BY DEF TInv, Types, AcksTyped
<1>3. waiting \in SUBSET Nat /\ waiting \subseteq 1 .. Len(list)
  BY <1>2
<1>4. Min(waiting) \in waiting
  BY <1>1, <1>3, MinFacts
<1>5. Acked(s)
  BY <1>1, <1>3, <1>4 DEF Acked
<1>6. QED
  BY <1>1, <1>5

LEMMA OnClientAckTypes ==
  ASSUME TInv, NEW c, NEW s, NEW sent, OnClientAck(c, s, sent)
  PROVE  Types'
<1>1. /\ Acked(s) /\ loop.phase = "receive"
      /\ UNCHANGED <<tables, m_iAckSeq, dedup, loop, clients, copies>>
  BY AckWhat
<1>2. /\ ExchangesTyped' /\ ObjectsTyped' /\ MapsTyped'
      /\ DedupTyped' /\ Counters' /\ CurServed'
  BY <1>1, TypedTablesStay, DedupStays, NothingInHand DEF TInv, IInv, Types, Counters, clients
<1> DEFINE list == m_NeedAckMessageList
<1>3. PICK i \in 1 .. Len(list) : m_NeedAckMessageList' = RemoveAt(list, i)
  BY <1>1 DEF Acked
<1>4. list \in Seq(Message) /\ Len(list) \in Nat
  BY DEF TInv, Types, AcksTyped
<1>5. /\ m_NeedAckMessageList' \in Seq(Message)
      /\ \A k \in 1 .. Len(m_NeedAckMessageList') : m_NeedAckMessageList'[k] \in ToSet(list)
  <2>1. \A k \in 1 .. Len(list) : list[k] \in ToSet(list)
    BY <1>4, RangeFacts
  <2>2. /\ RemoveAt(list, i) \in Seq(Message) /\ Len(RemoveAt(list, i)) = Len(list) - 1
        /\ \A k \in 1 .. Len(RemoveAt(list, i)) :
             RemoveAt(list, i)[k] = IF k < i THEN list[k] ELSE list[k + 1]
    BY <1>4, RemoveAtFacts
  <2>3. \A k \in 1 .. Len(list) - 1 : k \in 1 .. Len(list) /\ k + 1 \in 1 .. Len(list)
    BY <1>4
  <2>4. QED
    BY <1>3, <2>1, <2>2, <2>3
<1>6. ToSet(m_NeedAckMessageList') \subseteq ToSet(list)
  BY <1>5, RangeFacts
<1>7. AcksTyped'
  BY <1>1, <1>5, <1>6 DEF TInv, Types, AcksTyped, clients
<1>8. QED
  BY <1>2, <1>7 DEF Types

(* A finite set as a sequence. *)
LEMMA SetToSeqFacts ==
  ASSUME NEW S, IsFiniteSet(S)
  PROVE  /\ SetToSeq(S) \in Seq(S) /\ IsInjective(SetToSeq(S))
         /\ Len(SetToSeq(S)) = Cardinality(S) /\ Cardinality(S) \in Nat
<1> DEFINE n == Cardinality(S)
<1>1. n \in Nat /\ ExistsBijection(1 .. n, S)
  BY FS_CardinalityType
<1>2. PICK f \in [1 .. n -> S] : IsInjective(f)
  <2>1. PICK f : f \in Bijection(1 .. n, S)
    BY <1>1 DEF ExistsBijection
  <2>2. f \in [1 .. n -> S] /\ IsInjective(f)
    BY <2>1 DEF Bijection, Injection
  <2>3. QED
    BY <2>2
<1> DEFINE t == CHOOSE g \in [1 .. n -> S] : IsInjective(g)
<1>3. t \in [1 .. n -> S] /\ IsInjective(t)
  BY <1>2
<1>4. SetToSeq(S) = t
  BY DEF SetToSeq
<1> HIDE DEF t, n
<1>5. t \in Seq(S) /\ Len(t) = n
  BY <1>1, <1>3
<1>6. QED
  BY <1>1, <1>3, <1>4, <1>5 DEF n

(* The queues that receive a message are there, and finitely many. *)
LEMMA TargetsFacts ==
  ASSUME TInv, NEW x \in DOMAIN m_mExchanges, NEW key
  PROVE  LET F == FindBindingQueue(m_mExchanges[x], key)
         IN  IsFiniteSet(F) /\ \A t \in F : t[2] \in DOMAIN objects
<1> DEFINE e == m_mExchanges[x]
           b == e.bindings
           K == FitKeys(e, key)
           F == FindBindingQueue(e, key)
<1>1. e \in ExchangeType /\ b \in Bindings
  BY DEF TInv, Types, ExchangesTyped, ExchangeType
<1>2. K \subseteq DOMAIN b
  <2>1. e.type \in {1, 2, 3}
    BY <1>1 DEF ExchangeType
  <2>2. CASE e.type = 1
    BY <2>2 DEF FitKeys, EXCHANGE_TYPE_DIRECT, EXCHANGE_TYPE_FANOUT, EXCHANGE_TYPE_TOPIC
  <2>3. CASE e.type = 2
    BY <2>3 DEF FitKeys, EXCHANGE_TYPE_DIRECT, EXCHANGE_TYPE_FANOUT, EXCHANGE_TYPE_TOPIC
  <2>4. CASE e.type = 3
    BY <2>4 DEF FitKeys, EXCHANGE_TYPE_DIRECT, EXCHANGE_TYPE_FANOUT, EXCHANGE_TYPE_TOPIC
  <2>5. QED
    BY <2>1, <2>2, <2>3, <2>4
<1>3. IsFiniteSet(K)
  <2>1. IsFiniteSet(DOMAIN b) /\ K \in SUBSET DOMAIN b
    BY <1>1, <1>2, BindingsFacts
  <2>2. QED
    BY <2>1, FS_Subset
<1>4. ASSUME NEW k \in DOMAIN b
      PROVE  b[k][1] \in DOMAIN objects /\ ToSet(b[k]) = {b[k][1]}
  <2>1. PICK a \in DOMAIN objects : b[k] = <<a>>
    BY DEF TInv, IInv, BindingsOK
  <2>2. ToSet(<<a>>) = {a}
    BY DEF ToSet
  <2>3. QED
    BY <2>1, <2>2
<1> HIDE DEF K, b
<1>5. F = {<<k, b[k][1]>> : k \in K}
  <2>1. F = UNION {{<<k, a>> : a \in ToSet(b[k])} : k \in K}
    BY DEF FindBindingQueue, b, K
  <2>2. \A k \in K : {<<k, a>> : a \in ToSet(b[k])} = {<<k, b[k][1]>>}
    BY <1>2, <1>4
  <2>3. QED
    BY <2>1, <2>2
<1> DEFINE f == [k \in K |-> <<k, b[k][1]>>]
<1>6. f \in Surjection(K, F)
  BY <1>5 DEF Surjection
<1>7. IsFiniteSet(F)
  BY <1>3, <1>6, FS_Surjection
<1>8. \A t \in F : t[2] \in DOMAIN objects
  BY <1>2, <1>4, <1>5
<1>9. QED
  BY <1>7, <1>8

\* A publish puts one copy of m in a queue for each element of targets.
Publishes(m, targets) ==
  /\ targets \in Seq({t \in ToSet(targets) : t[2] \in DOMAIN objects})
  /\ copies' = copies + Len(targets) /\ copies' <= MaxCopies
  /\ objects' = [a \in DOMAIN objects |-> Filled(a, targets, NewCopies(m, targets))]
  /\ UNCHANGED <<m_mExchanges, m_mSubcribeQueues, m_mUnSubcribeQueues>>

LEMMA PublishWhat ==
  ASSUME TInv, NEW c \in Clients, NEW x, NEW key, NEW m \in Msgs, OnPublishMessage(c, x, key, m)
  PROVE  /\ UNCHANGED <<acks, loop, clients>> /\ loop.phase = "receive" /\ DedupTyped'
         /\ \/ UNCHANGED <<tables, copies>>
            \/ \E targets : Publishes(m, targets)
<1> DEFINE seen == <<c, MsgSeq[m]>>
           t == IF x \in DOMAIN m_mExchanges
                THEN SetToSeq(FindBindingQueue(m_mExchanges[x], key)) ELSE <<>>
<1>1. UNCHANGED <<acks, loop, clients>> /\ loop.phase = "receive" /\ c \in online
  BY DEF OnPublishMessage, Receive
<1>2. /\ m_producerMsgSeqs' \subseteq m_producerMsgSeqs \cup {seen}
      /\ \/ UNCHANGED m_producerLastMsgSeq
         \/ m_producerLastMsgSeq' = Put(m_producerLastMsgSeq, c, MsgSeq[m])
  BY Zenon DEF OnPublishMessage, dedup
<1>3. DedupTyped'
  <2>1. MsgSeq[m] \in Nat
    BY BrokerAssumption
  <2>2. m_producerMsgSeqs' \subseteq online' \X Nat
    BY <1>1, <1>2, <2>1 DEF TInv, Types, DedupTyped, clients
  <2>3. QED
    BY <1>2, <2>1, <2>2 DEF TInv, Types, DedupTyped, Put
<1>4. \/ UNCHANGED <<tables, copies>>
      \/ /\ UNCHANGED <<m_mExchanges, m_mSubcribeQueues, m_mUnSubcribeQueues>>
         /\ copies + Len(t) <= MaxCopies /\ copies' = copies + Len(t)
         /\ objects' = [a \in DOMAIN objects |-> Filled(a, t, NewCopies(m, t))]
  BY Zenon DEF OnPublishMessage, Refuse
<1>5. t \in Seq({d \in ToSet(t) : d[2] \in DOMAIN objects})
  <2>1. CASE x \in DOMAIN m_mExchanges
    <3> DEFINE F == FindBindingQueue(m_mExchanges[x], key)
    <3>1. t = SetToSeq(F)
      BY <2>1
    <3>2. IsFiniteSet(F) /\ \A d \in F : d[2] \in DOMAIN objects
      BY <2>1, TargetsFacts
    <3> HIDE DEF F
    <3>3. t \in Seq(F)
      BY <3>1, <3>2, SetToSeqFacts
    <3> HIDE DEF t
    <3>4. ToSet(t) \subseteq F
      BY <3>3, RangeFacts
    <3>5. ToSet(t) \subseteq {d \in ToSet(t) : d[2] \in DOMAIN objects}
      BY <3>2, <3>4
    <3>6. QED
      BY <3>3, <3>5, RangeFacts
  <2>2. CASE x \notin DOMAIN m_mExchanges
    BY <2>2
  <2>3. QED
    BY <2>1, <2>2
<1> HIDE DEF t
<1>6. QED
  BY <1>1, <1>3, <1>4, <1>5 DEF Publishes

(* The copies of a message have new ids. *)
LEMMA CopiesFacts ==
  ASSUME TInv, NEW m \in Msgs, NEW targets, Publishes(m, targets)
  PROVE  LET new == NewCopies(m, targets)
         IN  /\ new \in Seq(Message) /\ Len(new) = Len(targets) /\ Len(targets) \in Nat
             /\ \A i \in 1 .. Len(targets) : new[i].id = copies + i
<1> DEFINE n == Len(targets)
           D == {t \in ToSet(targets) : t[2] \in DOMAIN objects}
           o(i) == objects[targets[i][2]]
           before(i) == {j \in 1 .. i - 1 : targets[j][2] = targets[i][2]}
           stored(i) == MsgDurable[m] /\ o(i).durable
           index(i) == IF stored(i) THEN o(i).m_iDurableIndex + Cardinality(before(i)) ELSE -1
           queue(i) == IF stored(i) THEN o(i).name ELSE None
           new == NewCopies(m, targets)
<1>1. /\ targets \in Seq(D) /\ n \in Nat /\ DOMAIN targets = 1 .. n
      /\ copies + n <= MaxCopies /\ copies \in Nat
  BY BrokerAssumption DEF Publishes, TInv, Types, Counters
<1>2. \A i \in 1 .. n : targets[i] \in D
  BY <1>1, ElementOfSeq
<1>3. ASSUME NEW i \in 1 .. n
      PROVE  index(i) \in Nat \cup {-1} /\ queue(i) \in Queues \cup {None}
  <2>1. o(i) \in MessageQueueType
    BY <1>2 DEF TInv, Types, ObjectsTyped
  <2>2. o(i).m_iDurableIndex \in Nat /\ o(i).name \in Queues
    BY <2>1 DEF MessageQueueType
  <2>3. Cardinality(before(i)) \in Nat
    <3>1. before(i) \in SUBSET (1 .. i - 1) /\ i - 1 \in Int /\ 1 \in Int
      OBVIOUS
    <3> HIDE DEF before
    <3>2. IsFiniteSet(1 .. i - 1)
      BY <3>1, FS_Interval
    <3>3. IsFiniteSet(before(i))
      BY <3>1, <3>2, FS_Subset
    <3>4. QED
      BY <3>3, FS_CardinalityType
  <2> HIDE DEF o, before, stored
  <2>4. QED
    BY <2>2, <2>3
<1>4. new = [i \in 1 .. n |->
               [id |-> copies + i, priority |-> MsgPriority[m], durable |-> MsgDurable[m],
                index |-> index(i), queue |-> queue(i), client |-> None, seq |-> -1]]
  BY <1>1 DEF NewCopies
<1> HIDE DEF index, queue, new, n
<1>5. ASSUME NEW i \in 1 .. n
      PROVE  new[i] \in Message /\ new[i].id = copies + i
  <2>1. /\ MsgPriority[m] \in Nat /\ MsgDurable[m] \in BOOLEAN
        /\ copies + i \in 1 .. MaxCopies
    BY <1>1, BrokerAssumption
  <2>2. new[i] = [id |-> copies + i, priority |-> MsgPriority[m], durable |-> MsgDurable[m],
                  index |-> index(i), queue |-> queue(i), client |-> None, seq |-> -1]
    BY <1>4
  <2>3. QED
    BY <1>3, <2>1, <2>2 DEF Message
<1>6. new \in Seq(Message) /\ Len(new) = n
  <2>1. new \in [1 .. n -> Message]
    BY <1>4, <1>5
  <2>2. QED
    BY <1>1, <2>1
<1>7. QED
  BY <1>1, <1>5, <1>6 DEF new, n

\* The copies meant for the queue at address a.
Mine(a, m, targets) ==
  Keep(NewCopies(m, targets),
       {e \in ToSet(NewCopies(m, targets)) : targets[e.id - copies][2] = a})

LEMMA FilledFacts ==
  ASSUME TInv, NEW m \in Msgs, NEW targets, Publishes(m, targets), NEW a \in DOMAIN objects
  PROVE  /\ Mine(a, m, targets) \in Seq(Message)
         /\ \E n \in Nat : Filled(a, targets, NewCopies(m, targets)) =
              [AddMessage(objects[a], Mine(a, m, targets)) EXCEPT !.m_iDurableIndex = @ + n]
<1> DEFINE new  == NewCopies(m, targets)
           mine == Mine(a, m, targets)
           I    == {i \in DOMAIN mine : mine[i].index # -1}
<1>1. new \in Seq(Message)
  BY CopiesFacts
<1>2. mine \in Seq(Message)
  BY <1>1, KeepFacts DEF Mine
<1>3. Cardinality(I) \in Nat
  <2>1. I \in SUBSET (1 .. Len(mine)) /\ Len(mine) \in Int /\ 1 \in Int
    BY <1>2
  <2> HIDE DEF I, mine
  <2>2. IsFiniteSet(1 .. Len(mine))
    BY <2>1, FS_Interval
  <2>3. IsFiniteSet(I)
    BY <2>1, <2>2, FS_Subset
  <2>4. QED
    BY <2>3, FS_CardinalityType
<1>4. Filled(a, targets, new) =
        [AddMessage(objects[a], mine) EXCEPT !.m_iDurableIndex = @ + Cardinality(I)]
  BY DEF Filled, Mine
<1> HIDE DEF I, mine, new
<1>5. QED
  BY <1>2, <1>3, <1>4 DEF mine, new

LEMMA OnPublishMessageTypes ==
  ASSUME TInv, NEW c \in Clients, NEW x, NEW key, NEW m \in Msgs, OnPublishMessage(c, x, key, m)
  PROVE  Types'
<1>1. UNCHANGED <<acks, loop, clients>> /\ loop.phase = "receive" /\ DedupTyped'
  BY PublishWhat
<1>2. AcksTyped' /\ CurServed'
  BY <1>1, AcksStay, NothingInHand DEF TInv, IInv, Types, clients
<1>3. CASE UNCHANGED <<tables, copies>>
  <2>1. ExchangesTyped' /\ ObjectsTyped' /\ MapsTyped' /\ Counters'
    BY <1>1, <1>3, TypedTablesStay DEF TInv, Types, Counters, clients
  <2>2. QED
    BY <1>1, <1>2, <2>1 DEF Types
<1>4. ASSUME NEW targets, Publishes(m, targets)
      PROVE  Types'
  <2>1. ExchangesTyped' /\ MapsTyped'
    BY <1>4 DEF TInv, Types, ExchangesTyped, MapsTyped, Publishes
  <2>2. Counters'
    <3>1. Len(targets) \in Nat
      BY <1>4, CopiesFacts
    <3>2. QED
      BY <1>1, <1>4, <3>1, BrokerAssumption DEF TInv, Types, Counters, Publishes, clients
  <2>3. ASSUME NEW a \in DOMAIN objects
        PROVE  /\ a \in Addresses
               /\ Filled(a, targets, NewCopies(m, targets)) \in MessageQueueType
    <3>1. a \in Addresses /\ objects[a] \in MessageQueueType
      BY DEF TInv, Types, ObjectsTyped
    <3>2. Mine(a, m, targets) \in Seq(Message)
      BY <1>4, FilledFacts
    <3>3. PICK n \in Nat : Filled(a, targets, NewCopies(m, targets)) =
              [AddMessage(objects[a], Mine(a, m, targets)) EXCEPT !.m_iDurableIndex = @ + n]
      BY <1>4, FilledFacts
    <3>4. QED
      BY <3>1, <3>2, <3>3, AddType
  <2>4. ObjectsTyped'
    BY <1>4, <2>3 DEF Publishes, ObjectsTyped
  <2>5. QED
    BY <1>1, <1>2, <2>1, <2>2, <2>4 DEF Types
<1>5. QED
  BY <1>3, <1>4, PublishWhat
-----------------------------------------------------------------------------
(* Every step: types *)

LEMMA LoopStepTypes ==
  ASSUME TInv, LoopStep
  PROVE  Types'
<1>1. CASE \E q \in loop.todo : VisitQueue(q)
  BY <1>1, VisitQueueTypes
<1>2. CASE \E sent \in Answers : PushOne(sent)
  <2>1. PICK sent : PushOne(sent)
    BY <1>2
  <2>2. PICK a, e, p, out : Hands(a, e, p, out) /\ Same(objects[a], p)
    BY <2>1, PushHands
  <2>3. QED
    BY <2>2, HandsTypes
<1>3. ASSUME UNCHANGED <<tables, acks, dedup, clients, copies>>,
             loop'.cur = None \/ UNCHANGED loop
      PROVE  Types'
  <2>1. ExchangesTyped' /\ ObjectsTyped' /\ MapsTyped' /\ AcksTyped' /\ DedupTyped' /\ Counters'
    BY <1>3, TypedTablesStay, AcksStay, DedupStays DEF TInv, Types, Counters, clients
  <2>2. CurServed'
    BY <1>3 DEF TInv, Types, CurServed, tables
  <2>3. QED
    BY <2>1, <2>2 DEF Types
<1>4. loop \in [phase : {"push", "receive", "acks", "dead"}, cur : Queues \cup {None},
               todo : SUBSET Queues]
      /\ (loop.phase \in {"receive", "acks"} => loop.cur = None)
  BY DEF TInv, IInv, LoopOK
<1>5. CASE QueueDrained
  BY <1>3, <1>4, <1>5 DEF QueueDrained
<1>6. CASE PushDone
  BY <1>3, <1>4, <1>6 DEF PushDone
<1>7. CASE ReceiveDone
  BY <1>3, <1>4, <1>7 DEF ReceiveDone
<1>8. CASE SendMultiAck
  BY <1>3, <1>4, <1>8 DEF SendMultiAck
<1>9. QED
  BY <1>1, <1>2, <1>5, <1>6, <1>7, <1>8 DEF LoopStep

LEMMA OnRecvMessageTypes ==
  ASSUME TInv, NEW c, NEW q \in Queues, NEW level \in ConsumerLevels, NEW sent,
         OnRecvMessage(c, q, level, sent)
  PROVE  Types'
<1>1. loop.phase = "receive"
  BY DEF OnRecvMessage, Receive
<1>2. CASE UNCHANGED <<tables, acks, dedup, loop, clients, copies>>
  BY <1>1, <1>2, OnlyTables, TypedTablesStay DEF TInv, Types
<1>3. ASSUME NEW a, NEW e, NEW p, NEW out, Hands(a, e, p, out)
      PROVE  Types'
  BY <1>1, <1>3, HandsTypes
<1>4. QED
  BY <1>2, <1>3, RecvHands

LEMMA HandlerTypes ==
  ASSUME TInv, Handler
  PROVE  Types'
<1>1. ASSUME NEW c \in Clients, NEW e, NEW sent, OnClientAck(c, e.seq, sent)
      PROVE  Types'
  BY <1>1, OnClientAckTypes
<1>2. QED
  BY <1>1, OnCreateExchangeTypes, OnCreateQueueTypes, OnCreateBindingTypes,
     OnPublishMessageTypes, OnRecvMessageTypes, OnCreateSubscribeTypes,
     OnDeleteExchangeTypes, OnDeleteQueueTypes, OnCancelSubscribeTypes, OnClientExitTypes
     DEF Handler

LEMMA ConnectTypes ==
  ASSUME TInv, NEW c \in Clients, Connect(c)
  PROVE  Types'
<1>1. /\ UNCHANGED <<tables, acks, dedup, loop, copies>>
      /\ reconnects < MaxReconnects /\ reconnects' = reconnects + 1 /\ online \subseteq online'
  BY DEF Connect
<1>2. ExchangesTyped' /\ ObjectsTyped' /\ MapsTyped' /\ AcksTyped' /\ DedupTyped'
  BY <1>1, TypedTablesStay, AcksStay, DedupStays DEF TInv, Types
<1>3. CurServed' /\ Counters'
  BY <1>1, BrokerAssumption DEF TInv, Types, CurServed, Counters, tables
<1>4. QED
  BY <1>2, <1>3 DEF Types

LEMMA TypesInitially ==
  ASSUME Init
  PROVE  Types
<1>1. ExchangesTyped /\ ObjectsTyped /\ MapsTyped
  BY DEF Init, EmptyMap, ExchangesTyped, ObjectsTyped, MapsTyped, IsMap
<1>2. ToSet(<<>>) = {}
  BY DEF ToSet
<1>3. AcksTyped /\ DedupTyped /\ CurServed /\ Counters
  BY <1>2, BrokerAssumption DEF Init, EmptyMap, AcksTyped, DedupTyped, CurServed, Counters
<1>4. QED
  BY <1>1, <1>3 DEF Types

(* What is expected from a client is expected from one that is online. *)
LEMMA TypedInvariant == Spec => []TInv
<1>1. ASSUME TInv, [Next]_vars
      PROVE  TInv'
  <2>1. CASE Next
    <3>1. IInv'
      BY <1>1, <2>1, LoopStepKeeps, HandlerKeeps, ConnectKeeps DEF Next, TInv
    <3>2. Types'
      BY <1>1, <2>1, LoopStepTypes, HandlerTypes, ConnectTypes DEF Next
    <3>3. QED
      BY <3>1, <3>2 DEF TInv
  <2>2. CASE UNCHANGED vars
    <3>1. IInv'
      BY <1>1, <2>2, OnlyAnswers DEF vars, tables, TInv, IInv
    <3>2. Types'
      BY <1>1, <2>2 DEF vars, TInv, Types, ExchangesTyped, ObjectsTyped, MapsTyped, AcksTyped,
         DedupTyped, CurServed, Counters
    <3>3. QED
      BY <3>1, <3>2 DEF TInv
  <2>3. QED
    BY <1>1, <2>1, <2>2
<1>2. Init => TInv
  BY Initially, TypesInitially DEF TInv
<1>3. QED
  BY <1>1, <1>2, PTL DEF Spec

\* The broker's tables, lists and counters hold what their types say, whatever
\* handlers run and in whatever order.
THEOREM BrokerTypes == Spec => []TypeOK
<1>1. ASSUME TInv
      PROVE  TypeOK
  <2>1. /\ DOMAIN m_mExchanges \subseteq Exchanges
        /\ \A n \in DOMAIN m_mExchanges :
             /\ m_mExchanges[n].type \in 1 .. 3
             /\ m_mExchanges[n].durable \in BOOLEAN /\ m_mExchanges[n].autoDel \in BOOLEAN
             /\ DOMAIN m_mExchanges[n].bindings \subseteq Keys
             /\ \A k \in DOMAIN m_mExchanges[n].bindings :
                  m_mExchanges[n].bindings[k] \in Seq(Addresses)
    <3>1. \A n \in DOMAIN m_mExchanges :
            n \in Exchanges /\ m_mExchanges[n] \in ExchangeType /\ m_mExchanges[n].bindings \in Bindings
      BY <1>1 DEF TInv, Types, ExchangesTyped, ExchangeType
    <3>2. QED
      BY <3>1, BindingsFacts DEF ExchangeType
  <2>2. DOMAIN objects \subseteq Addresses /\ \A a \in DOMAIN objects : objects[a] \in MessageQueueType
    BY <1>1 DEF TInv, Types, ObjectsTyped
  <2>3. ASSUME NEW f, IsMap(f), DOMAIN f \subseteq Queues,
               \A q \in DOMAIN f : f[q] \in DOMAIN objects
        PROVE  f \in PartialMap(Queues, Addresses)
    <3>1. f \in [DOMAIN f -> Addresses]
      BY <2>2, <2>3 DEF IsMap
    <3>2. QED
      BY <2>3, <3>1 DEF PartialMap
  <2>4. /\ m_mSubcribeQueues \in PartialMap(Queues, Addresses)
        /\ m_mUnSubcribeQueues \in PartialMap(Queues, Addresses)
    BY <1>1, <2>3 DEF TInv, Types, MapsTyped, IInv, QueueTablesOK, PointersOK
  <2>5. /\ m_NeedAckMessageList \in Seq(Message) /\ m_iAckSeq \in Nat
        /\ m_producerMsgSeqs \subseteq Clients \X Nat
        /\ DOMAIN m_producerLastMsgSeq \subseteq Clients
        /\ \A c \in DOMAIN m_producerLastMsgSeq : m_producerLastMsgSeq[c] \in Nat
        /\ online \subseteq Clients
        /\ reconnects \in 0 .. MaxReconnects /\ copies \in 0 .. MaxCopies
    BY <1>1 DEF TInv, IInv, Types, AcksTyped, DedupTyped, Counters
  <2>6. /\ loop.phase \in {"push", "receive", "acks", "dead"}
        /\ loop.cur \in DOMAIN m_mSubcribeQueues \cup {None}
        /\ loop.todo \subseteq DOMAIN m_mSubcribeQueues
    BY <1>1 DEF TInv, IInv, LoopOK
  <2>7. QED
    BY <2>1, <2>2, <2>4, <2>5, <2>6 DEF TypeOK
<1>2. QED
  BY <1>1, TypedInvariant, PTL

\* Once OnClientExit has handled the exit of a client, the broker delivers no
\* message to it: it is no subscriber of a queue that has a name, no ack of it is
\* awaited, and m_producerMsgSeqs has no number of its messages.  The entry of
\* m_producerLastMsgSeq, which OnClientExit leaves, is not spoken of.
THEOREM ExitStopsDelivery == Spec => []ExitEndsDelivery
<1>1. ASSUME TInv
      PROVE  ExitEndsDelivery
  <2>1. SUFFICES ASSUME NEW c \in Clients \ online
                 PROVE  /\ \A q \in Queues :
                             Named(q) => c \notin ToSet(objects[QueueOf(q)].m_vSubscribeConsumers)
                        /\ \A e \in ToSet(m_NeedAckMessageList) : e.client # c
                        /\ \A p \in m_producerMsgSeqs : p[1] # c
    BY DEF ExitEndsDelivery
  <2>2. ASSUME NEW q, Named(q)
        PROVE  c \notin Subscribers(objects[QueueOf(q)])
    <3>1. CASE q \in DOMAIN m_mSubcribeQueues
      BY <1>1, <3>1 DEF TInv, IInv, QueueTablesOK, SubscribersOnline, QueueOf
    <3>2. CASE q \notin DOMAIN m_mSubcribeQueues
      <4> DEFINE a == m_mUnSubcribeQueues[q]
      <4>1. q \in DOMAIN m_mUnSubcribeQueues /\ QueueOf(q) = a
        BY <2>2, <3>2 DEF Named, QueueOf
      <4>2. IsQueue(objects[a]) /\ ~IsSubscribe(objects[a])
        BY <1>1, <4>1 DEF TInv, IInv, QueueTablesOK, QueuesOK, PointersOK, UnsubMeansNone
      <4>3. QED
        BY <4>1, <4>2, NoSubscribers
    <3>3. QED
      BY <3>1, <3>2
  <2>3. \A p \in m_producerMsgSeqs : p[1] \in online
    BY <1>1 DEF TInv, Types, DedupTyped
  <2>4. \A e \in ToSet(m_NeedAckMessageList) : e.client \in online
    BY <1>1 DEF TInv, Types, AcksTyped
  <2>5. QED
    BY <2>2, <2>3, <2>4 DEF Subscribers
<1>2. QED
  BY <1>1, TypedInvariant, PTL

-----------------------------------------------------------------------------
(* Where a copy is.  Every copy has its number: Places says that it is in   *)
(* one queue at most, in one position there, or once in the list of those   *)
(* waiting for an ack, which is in the order of the numbers to ack.         *)

Ids(S) == {e.id : e \in S}

OneEach(S) == \A d, e \in S : d.id = e.id => d = e

\* A list and a heap hold a copy once.
Once(s, P) == /\ IsInjective(s) /\ IsFiniteSet(P)
              /\ ToSet(s) \cap P = {} /\ OneEach(ToSet(s) \cup P)

QueueOnce(o) == Once(o.m_messagesList, o.m_msgPriQueue)

Earlier == {p \in Message \X Message : p[1].seq < p[2].seq}

\* The list of unacknowledged messages, with n the next number.
AcksOrdered(list, n) ==
  /\ OneEach(ToSet(list)) /\ Sorted(list, Earlier)
  /\ \A e \in ToSet(list) : e.seq \in 0 .. n - 1

Apart(heap) ==
  \A a, b \in DOMAIN heap : a # b => Ids(Waiting(heap[a])) \cap Ids(Waiting(heap[b])) = {}

Places ==
  /\ \A a \in DOMAIN objects : QueueOnce(objects[a])
  /\ Apart(objects)
  /\ \A a \in DOMAIN objects : Ids(Waiting(objects[a])) \cap Unacked = {}
  /\ \A a \in DOMAIN objects : Ids(Waiting(objects[a])) \subseteq 1 .. copies
  /\ Unacked \subseteq 1 .. copies
  /\ AcksOrdered(m_NeedAckMessageList, m_iAckSeq)

(* Sequences and sets of messages. *)

LEMMA OneEachSubset ==
  ASSUME NEW S, NEW T, S \subseteq T, OneEach(T)
  PROVE  OneEach(S)
BY DEF OneEach

LEMMA OneEachUnion ==
  ASSUME NEW S, NEW T, OneEach(S), OneEach(T), Ids(S) \cap Ids(T) = {}
  PROVE  OneEach(S \cup T)
<1>1. SUFFICES ASSUME NEW d \in S \cup T, NEW e \in S \cup T, d.id = e.id
               PROVE  d = e
  BY DEF OneEach
<1>2. /\ d \in S => d.id \in Ids(S)
      /\ d \in T => d.id \in Ids(T)
      /\ e \in S => e.id \in Ids(S)
      /\ e \in T => e.id \in Ids(T)
  BY DEF Ids
<1>3. (d \in S /\ e \in S) \/ (d \in T /\ e \in T)
  BY <1>1, <1>2
<1>4. QED
  BY <1>1, <1>3 DEF OneEach

LEMMA IdsFacts ==
  ASSUME NEW S, NEW T
  PROVE  /\ Ids(S \cup T) = Ids(S) \cup Ids(T)
         /\ S \subseteq T => Ids(S) \subseteq Ids(T)
         /\ Ids(S) \cap Ids(T) = {} => S \cap T = {}
BY DEF Ids

LEMMA ConcatInjective ==
  ASSUME NEW X, NEW s \in Seq(X), NEW t \in Seq(X), IsInjective(s), IsInjective(t),
         ToSet(s) \cap ToSet(t) = {}
  PROVE  IsInjective(s \o t)
<1> DEFINE u == s \o t
<1>1. /\ u \in Seq(X) /\ Len(u) = Len(s) + Len(t) /\ Len(s) \in Nat /\ Len(t) \in Nat
      /\ \A i \in 1 .. Len(s) : u[i] = s[i]
      /\ \A i \in 1 .. Len(t) : u[Len(s) + i] = t[i]
  BY ConcatFacts
<1>2. /\ ToSet(s) = {s[i] : i \in 1 .. Len(s)}
      /\ ToSet(t) = {t[i] : i \in 1 .. Len(t)}
      /\ DOMAIN s = 1 .. Len(s) /\ DOMAIN t = 1 .. Len(t) /\ DOMAIN u = 1 .. Len(u)
  BY <1>1, RangeFacts
<1> HIDE DEF u
<1>3. \A i \in 1 .. Len(u) : \/ i \in 1 .. Len(s) /\ u[i] = s[i] /\ u[i] \in ToSet(s)
                             \/ /\ i - Len(s) \in 1 .. Len(t)
                                /\ u[i] = t[i - Len(s)] /\ u[i] \in ToSet(t)
  <2>1. SUFFICES ASSUME NEW i \in 1 .. Len(u)
                 PROVE  \/ i \in 1 .. Len(s) /\ u[i] = s[i] /\ u[i] \in ToSet(s)
                        \/ /\ i - Len(s) \in 1 .. Len(t)
                           /\ u[i] = t[i - Len(s)] /\ u[i] \in ToSet(t)
    OBVIOUS
  <2>2. CASE i \in 1 .. Len(s)
    BY <1>1, <1>2, <2>2
  <2>3. CASE i \notin 1 .. Len(s)
    <3>1. i - Len(s) \in 1 .. Len(t) /\ Len(s) + (i - Len(s)) = i
      BY <1>1, <2>3
    <3>2. u[i] = t[i - Len(s)]
      BY <1>1, <3>1
    <3>3. QED
      BY <1>2, <3>1, <3>2
  <2>4. QED
    BY <2>2, <2>3
<1>4. ASSUME NEW i \in 1 .. Len(u), NEW j \in 1 .. Len(u), u[i] = u[j]
      PROVE  i = j
  <2>1. CASE i \in 1 .. Len(s) /\ j \in 1 .. Len(s) /\ s[i] = s[j]
    BY <1>2, <2>1 DEF IsInjective
  <2>2. CASE i - Len(s) \in 1 .. Len(t) /\ j - Len(s) \in 1 .. Len(t)
             /\ t[i - Len(s)] = t[j - Len(s)]
    <3>1. i - Len(s) = j - Len(s)
      BY <1>2, <2>2 DEF IsInjective
    <3>2. QED
      BY <1>1, <3>1
  <2>3. u[i] \notin ToSet(s) \/ u[i] \notin ToSet(t)
    OBVIOUS
  <2>4. QED
    BY <1>3, <1>4, <2>1, <2>2, <2>3
<1>5. QED
  BY <1>2, <1>4 DEF IsInjective, u

(* The elements of a sequence are finitely many. *)
LEMMA SeqFinite ==
  ASSUME NEW X, NEW s \in Seq(X)
  PROVE  /\ IsFiniteSet(ToSet(s)) /\ Len(s) \in Nat
         /\ IsInjective(s) => Cardinality(ToSet(s)) = Len(s)
<1> DEFINE T == ToSet(s)
<1>1. T = {s[i] : i \in 1 .. Len(s)} /\ Len(s) \in Nat /\ DOMAIN s = 1 .. Len(s)
  BY RangeFacts
<1> HIDE DEF T
<1>2. s \in Surjection(1 .. Len(s), T)
  BY <1>1 DEF Surjection
<1>3. IsFiniteSet(1 .. Len(s)) /\ Cardinality(1 .. Len(s)) = Len(s)
  <2>1. 1 \in Int /\ Len(s) \in Int
    BY <1>1
  <2>2. QED
    BY <1>1, <2>1, FS_Interval
<1>4. IsFiniteSet(T)
  BY <1>2, <1>3, FS_Surjection
<1>5. ASSUME IsInjective(s)
      PROVE  Cardinality(T) = Len(s)
  <2>1. s \in Injection(1 .. Len(s), T)
    BY <1>1, <1>5 DEF Injection, IsInjective
  <2>2. s \in Bijection(1 .. Len(s), T)
    BY <1>2, <2>1 DEF Bijection
  <2>3. ExistsBijection(1 .. Len(s), T)
    BY <2>2 DEF ExistsBijection
  <2>4. QED
    BY <1>3, <2>3, FS_Bijection
<1>6. QED
  BY <1>1, <1>4, <1>5 DEF T

(* The image of a finite set is finite. *)
LEMMA ImageFinite ==
  ASSUME NEW S, IsFiniteSet(S), NEW f
  PROVE  IsFiniteSet({f[x] : x \in S})
<1> DEFINE T == {f[x] : x \in S}
           g == [x \in S |-> f[x]]
<1>1. g \in Surjection(S, T)
  BY DEF Surjection
<1> HIDE DEF g, T
<1>2. IsFiniteSet(T)
  BY <1>1, FS_Surjection
<1>3. QED
  BY <1>2 DEF T

(* A set with one message for each number has as many numbers as messages. *)
LEMMA IdsCount ==
  ASSUME NEW S, IsFiniteSet(S), OneEach(S)
  PROVE  IsFiniteSet(Ids(S)) /\ Cardinality(Ids(S)) = Cardinality(S)
<1> DEFINE g == [e \in S |-> e.id]
<1>1. g \in [S -> Ids(S)]
  BY DEF Ids
<1>2. g \in Bijection(S, Ids(S))
  <2>1. g \in Injection(S, Ids(S))
    BY <1>1 DEF Injection, IsInjective, OneEach
  <2>2. g \in Surjection(S, Ids(S))
    BY <1>1 DEF Surjection, Ids
  <2>3. QED
    BY <2>1, <2>2 DEF Bijection
<1>3. ExistsBijection(S, Ids(S))
  BY <1>2 DEF ExistsBijection
<1>4. QED
  BY <1>3, FS_Bijection

(* One more lists and heaps of messages. *)

\* Messages r and U, new to the queue, are added to list s and heap P.
LEMMA AddOnce ==
  ASSUME NEW s \in Seq(Message), NEW r \in Seq(Message), NEW P, NEW U, Once(s, P), Once(r, U),
         Ids(ToSet(s) \cup P) \cap Ids(ToSet(r) \cup U) = {}
  PROVE  Once(s \o r, P \cup U) /\ Once(r \o s, P \cup U)
<1> DEFINE A == ToSet(s)
           B == ToSet(r)
<1>1. OneEach(A \cup P) /\ OneEach(B \cup U) /\ A \cap P = {} /\ B \cap U = {}
      /\ IsInjective(s) /\ IsInjective(r) /\ IsFiniteSet(P) /\ IsFiniteSet(U)
  BY DEF Once
<1>2. ToSet(s \o r) = A \cup B /\ ToSet(r \o s) = A \cup B
  BY ConcatFacts
<1>3. (A \cup P) \cap (B \cup U) = {}
  <2>1. Ids(A \cup P) \cap Ids(B \cup U) = {}
    OBVIOUS
  <2> HIDE DEF A, B
  <2>2. QED
    BY <2>1 DEF Ids
<1>4. IsInjective(s \o r) /\ IsInjective(r \o s)
  BY <1>1, <1>3, ConcatInjective
<1> HIDE DEF A, B
<1>5. OneEach((A \cup P) \cup (B \cup U))
  BY <1>1, OneEachUnion DEF A, B
<1>6. (A \cup B) \cup (P \cup U) = (A \cup P) \cup (B \cup U)
  OBVIOUS
<1>7. IsFiniteSet(P \cup U)
  BY <1>1, FS_Union
<1>8. (A \cup B) \cap (P \cup U) = {}
  BY <1>1, <1>3
<1>9. QED
  BY <1>2, <1>4, <1>5, <1>6, <1>7, <1>8 DEF Once

(* Messages that come to a queue: those with a priority to the heap. *)
LEMMA NewOnce ==
  ASSUME NEW o \in MessageQueueType, NEW new \in Seq(Message), IsInjective(new),
         OneEach(ToSet(new))
  PROVE  /\ Once(Ordinary(o, new), Urgent(o, new))
         /\ Once(Reverse(Ordinary(o, new)), Urgent(o, new))
         /\ Ids(ToSet(Ordinary(o, new)) \cup Urgent(o, new)) = Ids(ToSet(new))
         /\ ToSet(Reverse(Ordinary(o, new))) = ToSet(Ordinary(o, new))
<1> DEFINE T == ToSet(new)
           H == {d \in T : HasPriority(o, d)}
           r == Ordinary(o, new)
           U == Urgent(o, new)
<1>1. /\ r \in Seq(Message) /\ ToSet(r) = {e \in T : ~HasPriority(o, e)}
      /\ IsInjective(r) /\ U \in SUBSET Message
  BY AddsWhat
<1>2. /\ Reverse(r) \in Seq(Message) /\ ToSet(Reverse(r)) = ToSet(r)
      /\ IsInjective(Reverse(r))
  BY <1>1, ReverseFacts
<1>3. T \subseteq Message /\ IsFiniteSet(T)
  BY RangeFacts, SeqFinite
<1>4. \A e \in Message : Capped(o, e).id = e.id
  BY DEF Capped, Message
<1>5. U = {Capped(o, e) : e \in H}
  BY DEF Urgent
<1>6. IsFiniteSet(U)
  <2> DEFINE f == [e \in H |-> Capped(o, e)]
  <2>1. H \in SUBSET T
    OBVIOUS
  <2> HIDE DEF H
  <2>2. IsFiniteSet(H)
    BY <1>3, <2>1, FS_Subset
  <2>3. \A e \in H : f[e] = Capped(o, e)
    OBVIOUS
  <2> HIDE DEF f, U
  <2>4. IsFiniteSet({f[e] : e \in H})
    BY <2>2, ImageFinite
  <2>5. U = {f[e] : e \in H}
    BY <1>5, <2>3
  <2>6. QED
    BY <2>4, <2>5
<1> HIDE DEF r, U, T
<1>7. /\ \A u \in U : \E d \in T : HasPriority(o, d) /\ u = Capped(o, d) /\ u.id = d.id
      /\ \A e \in ToSet(r) : e \in T /\ ~HasPriority(o, e)
  BY <1>1, <1>3, <1>4, <1>5
<1>8. \A d, e \in T : d.id = e.id => d = e
  BY DEF OneEach, T
<1>9. \A e \in ToSet(r), u \in U : e.id # u.id
  BY <1>7, <1>8
<1>10. \A u, v \in U : u.id = v.id => u = v
  BY <1>7, <1>8
<1>11. OneEach(ToSet(r) \cup U)
  BY <1>7, <1>8, <1>9, <1>10 DEF OneEach
<1>12. ToSet(r) \cap U = {}
  BY <1>9
<1>13. Ids(ToSet(r) \cup U) = Ids(T)
  <2>1. \A e \in ToSet(r) \cup U : \E d \in T : e.id = d.id
    BY <1>7
  <2>2. \A d \in T : \E e \in ToSet(r) \cup U : e.id = d.id
    BY <1>1, <1>3, <1>4, <1>5
  <2>3. QED
    BY <2>1, <2>2 DEF Ids
<1>14. QED
  BY <1>1, <1>2, <1>6, <1>11, <1>12, <1>13 DEF Once, r, U, T

\* What a queue holds after messages came.
LEMMA Grows ==
  ASSUME NEW o \in MessageQueueType, NEW new \in Seq(Message), IsInjective(new),
         OneEach(ToSet(new)), QueueOnce(o), Ids(Waiting(o)) \cap Ids(ToSet(new)) = {}, NEW n
  PROVE  /\ QueueOnce(AddMessageFront(o, new))
         /\ Ids(Waiting(AddMessageFront(o, new))) = Ids(Waiting(o)) \cup Ids(ToSet(new))
         /\ QueueOnce([AddMessage(o, new) EXCEPT !.m_iDurableIndex = n])
         /\ Ids(Waiting([AddMessage(o, new) EXCEPT !.m_iDurableIndex = n]))
              = Ids(Waiting(o)) \cup Ids(ToSet(new))
<1> DEFINE s == o.m_messagesList
           P == o.m_msgPriQueue
           r == Ordinary(o, new)
           U == Urgent(o, new)
           back == AddMessageFront(o, new)
           more == [AddMessage(o, new) EXCEPT !.m_iDurableIndex = n]
<1>1. s \in Seq(Message)
  BY DEF MessageQueueType
<1>2. /\ back.m_messagesList = Reverse(r) \o s /\ back.m_msgPriQueue = P \cup U
      /\ more.m_messagesList = s \o r /\ more.m_msgPriQueue = P \cup U
  BY DEF AddMessageFront, AddMessage, MessageQueueType
<1>3. /\ Once(r, U) /\ Once(Reverse(r), U) /\ ToSet(Reverse(r)) = ToSet(r)
      /\ Ids(ToSet(r) \cup U) = Ids(ToSet(new))
  BY NewOnce
<1>4. r \in Seq(Message) /\ Reverse(r) \in Seq(Message)
  BY AddsWhat, ReverseFacts
<1> HIDE DEF back, more, r, U
<1>5. Once(s, P) /\ Ids(ToSet(s) \cup P) \cap Ids(ToSet(new)) = {}
  BY DEF QueueOnce, Waiting
<1> HIDE DEF s, P
<1>6. Once(s \o r, P \cup U) /\ Once(Reverse(r) \o s, P \cup U)
  BY <1>1, <1>3, <1>4, <1>5, AddOnce
<1>7. ToSet(s \o r) = ToSet(s) \cup ToSet(r) /\ ToSet(Reverse(r) \o s) = ToSet(s) \cup ToSet(r)
  BY <1>1, <1>3, <1>4, ConcatFacts
<1>8. Waiting(back) = (ToSet(s) \cup P) \cup (ToSet(r) \cup U)
  BY <1>2, <1>7 DEF Waiting
<1>9. Waiting(more) = (ToSet(s) \cup P) \cup (ToSet(r) \cup U)
  BY <1>2, <1>7 DEF Waiting
<1>10. Ids((ToSet(s) \cup P) \cup (ToSet(r) \cup U)) = Ids(Waiting(o)) \cup Ids(ToSet(new))
  BY <1>3, IdsFacts DEF Waiting, s, P
<1>11. QED
  BY <1>2, <1>6, <1>8, <1>9, <1>10 DEF QueueOnce, back, more

\* What a queue holds after its first message was taken.
LEMMA PopOnce ==
  ASSUME NEW o \in MessageQueueType, NEW e \in FrontMsgs(o), QueueOnce(o), NEW p, Taken(o, e, p)
  PROVE  /\ QueueOnce(p) /\ Waiting(p) = Waiting(o) \ {e}
         /\ Ids(Waiting(p)) \subseteq Ids(Waiting(o))
         /\ e.id \in Ids(Waiting(o)) /\ e.id \notin Ids(Waiting(p))
<1> DEFINE s == o.m_messagesList
           P == o.m_msgPriQueue
           t == p.m_messagesList
           Q == p.m_msgPriQueue
<1>1. s \in Seq(Message) /\ P \in SUBSET Message
  BY DEF MessageQueueType
<1>2. /\ IsInjective(s) /\ IsFiniteSet(P) /\ ToSet(s) \cap P = {}
      /\ OneEach(ToSet(s) \cup P)
  BY DEF QueueOnce, Once
<1>3. /\ e \in ToSet(s) \cup P
      /\ e \notin P => s # <<>> /\ e = s[1]
  BY FrontFacts DEF Waiting
<1>4. /\ e \in P => t = s /\ Q = P \ {e}
      /\ e \notin P => t = Tail(s) /\ Q = P
  BY DEF Taken, PopFrontMsg, MessageQueueType
<1> HIDE DEF s, P, t, Q
<1>5. IsInjective(t) /\ IsFiniteSet(Q) /\ ToSet(t) \cup Q = (ToSet(s) \cup P) \ {e}
      /\ ToSet(t) \cap Q = {}
  <2>1. CASE e \in P
    <3>1. IsFiniteSet(Q)
      BY <1>2, <1>4, <2>1, FS_RemoveElement
    <3>2. QED
      BY <1>2, <1>4, <2>1, <3>1
  <2>2. CASE e \notin P
    <3>1. s \in Seq(Message) /\ s # <<>> /\ IsInjective(s)
      BY <1>1, <1>2, <1>3, <2>2
    <3>2. t = Tail(s) /\ e = s[1]
      BY <1>3, <1>4, <2>2
    <3>3. /\ Head(s) = s[1] /\ ToSet(s) = ToSet(Tail(s)) \cup {Head(s)}
          /\ IsInjective(Tail(s)) /\ Head(s) \notin ToSet(Tail(s))
      BY <3>1, TailFacts
    <3>4. /\ ToSet(s) = ToSet(t) \cup {e} /\ e \notin ToSet(t) /\ IsInjective(t)
      BY <3>2, <3>3
    <3>5. QED
      BY <1>2, <1>4, <2>2, <3>4
  <2>3. QED
    BY <2>1, <2>2
<1>6. OneEach(ToSet(t) \cup Q)
  BY <1>2, <1>5, OneEachSubset
<1>7. QueueOnce(p)
  BY <1>5, <1>6 DEF QueueOnce, Once, t, Q
<1>8. Waiting(p) = Waiting(o) \ {e} /\ OneEach(Waiting(o)) /\ e \in Waiting(o)
  BY <1>2, <1>3, <1>5 DEF Waiting, t, Q, s, P
<1>9. QED
  BY <1>7, <1>8 DEF OneEach, Ids

(* The list of unacknowledged messages. *)

LEMMA AcksAppend ==
  ASSUME NEW list \in Seq(Message), NEW n \in Nat, AcksOrdered(list, n),
         NEW out \in Message, out.seq = n, out.id \notin Ids(ToSet(list))
  PROVE  AcksOrdered(Append(list, out), n + 1)
<1> DEFINE r == Append(list, out)
<1>1. /\ r \in Seq(Message) /\ Len(r) = Len(list) + 1 /\ Len(list) \in Nat
      /\ \A i \in 1 .. Len(list) : r[i] = list[i]
      /\ r[Len(list) + 1] = out
      /\ ToSet(r) = ToSet(list) \cup {out}
  BY AppendFacts
<1>2. /\ \A e \in ToSet(list) : e.seq \in 0 .. n - 1
      /\ OneEach(ToSet(list)) /\ Sorted(list, Earlier)
  BY DEF AcksOrdered
<1>3. \A i \in 1 .. Len(list) : list[i] \in ToSet(list) /\ list[i] \in Message
  BY RangeFacts
<1> HIDE DEF r
<1>4. ASSUME NEW i \in 1 .. Len(r), NEW j \in 1 .. Len(r), i < j
      PROVE  <<r[i], r[j]>> \in Earlier
  <2>1. i \in 1 .. Len(list)
    BY <1>1, <1>4
  <2>2. CASE j \in 1 .. Len(list)
    BY <1>1, <1>2, <1>4, <2>1, <2>2 DEF Sorted
  <2>3. CASE j = Len(list) + 1
    <3>1. r[i] = list[i] /\ r[j] = out
      BY <1>1, <2>1, <2>3
    <3>2. list[i].seq \in 0 .. n - 1 /\ list[i] \in Message
      BY <1>2, <1>3, <2>1
    <3>3. list[i].seq < n
      BY <3>2
    <3>4. QED
      BY <3>1, <3>2, <3>3 DEF Earlier
  <2>4. QED
    BY <1>1, <2>2, <2>3
<1>5. OneEach(ToSet(r))
  BY <1>1, <1>2 DEF OneEach, Ids
<1>6. \A e \in ToSet(r) : e.seq \in 0 .. (n + 1) - 1
  BY <1>1, <1>2
<1>7. QED
  BY <1>4, <1>5, <1>6 DEF AcksOrdered, Sorted, r

LEMMA AcksRemove ==
  ASSUME NEW list \in Seq(Message), NEW n, AcksOrdered(list, n), NEW k \in 1 .. Len(list)
  PROVE  AcksOrdered(RemoveAt(list, k), n) /\ ToSet(RemoveAt(list, k)) \subseteq ToSet(list)
<1> DEFINE r == RemoveAt(list, k)
           at(i) == IF i < k THEN i ELSE i + 1
<1>1. /\ r \in Seq(Message) /\ Len(r) = Len(list) - 1 /\ Len(list) \in Nat
      /\ \A i \in 1 .. Len(r) : r[i] = IF i < k THEN list[i] ELSE list[i + 1]
  BY RemoveAtFacts
<1>2. /\ \A e \in ToSet(list) : e.seq \in 0 .. n - 1
      /\ OneEach(ToSet(list)) /\ Sorted(list, Earlier)
  BY DEF AcksOrdered
<1> HIDE DEF r
<1>3. \A i \in 1 .. Len(r) : at(i) \in 1 .. Len(list) /\ r[i] = list[at(i)]
  BY <1>1
<1>4. \A i, j \in 1 .. Len(r) : i < j => at(i) < at(j)
  BY <1>1
<1> HIDE DEF at
<1>5. Sorted(r, Earlier)
  BY <1>2, <1>3, <1>4 DEF Sorted
<1>6. ToSet(r) \subseteq ToSet(list)
  <2>1. \A i \in 1 .. Len(r) : r[i] \in ToSet(list)
    BY <1>3, RangeFacts
  <2>2. QED
    BY <1>1, <2>1, RangeFacts
<1>7. QED
  BY <1>2, <1>5, <1>6 DEF AcksOrdered, OneEach, r

LEMMA AcksKept ==
  ASSUME NEW list \in Seq(Message), NEW n, AcksOrdered(list, n), NEW S
  PROVE  AcksOrdered(Keep(list, S), n)
<1> DEFINE r == Keep(list, S)
<1>1. ToSet(r) \subseteq ToSet(list) /\ (Sorted(list, Earlier) => Sorted(r, Earlier))
  BY KeepFacts, KeepOrder
<1> HIDE DEF r
<1>2. QED
  BY <1>1 DEF AcksOrdered, OneEach, r

\* It has a message once.
LEMMA AcksInjective ==
  ASSUME NEW list \in Seq(Message), NEW n, AcksOrdered(list, n)
  PROVE  IsInjective(list)
<1>1. \A i, j \in 1 .. Len(list) : i < j => list[i].seq < list[j].seq
  BY DEF AcksOrdered, Sorted, Earlier
<1>2. \A i \in 1 .. Len(list) : list[i].seq \in Int
  <2>1. \A i \in 1 .. Len(list) : list[i] \in Message
    BY RangeFacts
  <2>2. QED
    BY <2>1 DEF Message
<1>3. ASSUME NEW i \in 1 .. Len(list), NEW j \in 1 .. Len(list), list[i] = list[j]
      PROVE  i = j
  <2>1. ~(i < j) /\ ~(j < i)
    BY <1>1, <1>2, <1>3
  <2>2. QED
    BY <2>1
<1>4. QED
  BY <1>3 DEF IsInjective

-----------------------------------------------------------------------------
(* What each step does to the places. *)

\* Every queue keeps its messages, or loses them all, or is new.
Shrinks ==
  \A a \in DOMAIN objects' :
    \/ objects'[a].m_messagesList = <<>> /\ objects'[a].m_msgPriQueue = {}
    \/ /\ a \in DOMAIN objects
       /\ objects'[a].m_messagesList = objects[a].m_messagesList
       /\ objects'[a].m_msgPriQueue = objects[a].m_msgPriQueue

LEMMA NothingWaits ==
  ASSUME NEW o, o.m_messagesList = <<>>, o.m_msgPriQueue = {}
  PROVE  QueueOnce(o) /\ Ids(Waiting(o)) = {}
<1>1. ToSet(<<>>) = {} /\ IsInjective(<<>>)
  BY DEF ToSet, IsInjective
<1>2. QED
  BY <1>1, FS_EmptySet DEF QueueOnce, Once, OneEach, Ids, Waiting

LEMMA ShrinksKeeps ==
  ASSUME Places, Shrinks, UNCHANGED <<acks, copies>>
  PROVE  Places'
<1>1. ASSUME NEW a \in DOMAIN objects'
      PROVE  /\ QueueOnce(objects'[a])
             /\ \/ Ids(Waiting(objects'[a])) = {}
                \/ /\ a \in DOMAIN objects
                   /\ Ids(Waiting(objects'[a])) = Ids(Waiting(objects[a]))
  <2>1. CASE objects'[a].m_messagesList = <<>> /\ objects'[a].m_msgPriQueue = {}
    BY <2>1, NothingWaits
  <2>2. CASE /\ a \in DOMAIN objects
             /\ objects'[a].m_messagesList = objects[a].m_messagesList
             /\ objects'[a].m_msgPriQueue = objects[a].m_msgPriQueue
    <3>1. Waiting(objects'[a]) = Waiting(objects[a]) /\ QueueOnce(objects'[a])
      BY <2>2 DEF Waiting, QueueOnce, Places
    <3>2. QED
      BY <2>2, <3>1
  <2>3. QED
    BY <2>1, <2>2 DEF Shrinks
<1>2. UNCHANGED Unacked /\ AcksOrdered(m_NeedAckMessageList', m_iAckSeq')
  BY DEF Places, acks, Unacked
<1>3. Apart(objects')
  BY <1>1 DEF Places, Apart
<1>4. \A a \in DOMAIN objects' : /\ Ids(Waiting(objects'[a])) \cap Unacked' = {}
                                 /\ Ids(Waiting(objects'[a])) \subseteq 1 .. copies'
  BY <1>1, <1>2 DEF Places
<1>5. QED
  BY <1>1, <1>2, <1>3, <1>4 DEF Places

LEMMA SameObjectsKeeps ==
  ASSUME Places, UNCHANGED <<objects, acks, copies>>
  PROVE  Places'
<1>1. Shrinks
  BY DEF Shrinks
<1>2. QED
  BY <1>1, ShrinksKeeps

LEMMA HandsPlaces ==
  ASSUME TInv, Places, NEW a, NEW e, NEW p, NEW out, Hands(a, e, p, out)
  PROVE  Places'
<1> DEFINE W(b) == Ids(Waiting(objects[b]))
<1>1. /\ a \in DOMAIN objects /\ e \in FrontMsgs(objects[a])
      /\ objects' = [objects EXCEPT ![a] = p]
      /\ Taken(objects[a], e, p) /\ Sends(e, out) /\ UNCHANGED copies
  BY DEF Hands
<1>2. objects[a] \in MessageQueueType /\ QueueOnce(objects[a])
  BY <1>1 DEF TInv, Types, ObjectsTyped, Places
<1>3. /\ QueueOnce(p) /\ Ids(Waiting(p)) \subseteq W(a)
      /\ e.id \in W(a) /\ e.id \notin Ids(Waiting(p))
  BY <1>1, <1>2, PopOnce
<1>4. \A b \in DOMAIN objects : objects'[b] = IF b = a THEN p ELSE objects[b]
  BY <1>1
<1>5. DOMAIN objects' = DOMAIN objects
  BY <1>1
<1>6. \A b \in DOMAIN objects : /\ QueueOnce(objects'[b])
                                /\ Ids(Waiting(objects'[b])) \subseteq W(b)
                                /\ e.id \notin Ids(Waiting(objects'[b]))
  <2>1. \A b \in DOMAIN objects : b # a => e.id \notin W(b) /\ QueueOnce(objects[b])
    BY <1>1, <1>3 DEF Places, Apart
  <2>2. QED
    BY <1>3, <1>4, <2>1
<1>7. /\ Apart(objects)
      /\ \A b \in DOMAIN objects : W(b) \cap Unacked = {} /\ W(b) \subseteq 1 .. copies
      /\ Unacked \subseteq 1 .. copies
      /\ AcksOrdered(m_NeedAckMessageList, m_iAckSeq)
  BY DEF Places
<1>8. /\ m_NeedAckMessageList \in Seq(Message) /\ m_iAckSeq \in Nat
      /\ Unacked = Ids(ToSet(m_NeedAckMessageList))
  BY DEF TInv, Types, AcksTyped, Unacked, Ids
<1>9. /\ Unacked' \subseteq Unacked \cup {e.id}
      /\ AcksOrdered(m_NeedAckMessageList', m_iAckSeq')
  <2>1. CASE UNCHANGED acks
    BY <1>7, <2>1 DEF acks, Unacked
  <2>2. CASE /\ out.seq = m_iAckSeq /\ m_iAckSeq' = m_iAckSeq + 1
             /\ m_NeedAckMessageList' = Append(m_NeedAckMessageList, out)
    <3>1. out \in Message /\ out.id = e.id
      BY <1>1 DEF Sends
    <3>2. out.id \notin Ids(ToSet(m_NeedAckMessageList))
      BY <1>1, <1>3, <1>7, <1>8, <3>1
    <3>3. AcksOrdered(m_NeedAckMessageList', m_iAckSeq')
      BY <1>7, <1>8, <2>2, <3>1, <3>2, AcksAppend
    <3>4. ToSet(m_NeedAckMessageList') = ToSet(m_NeedAckMessageList) \cup {out}
      BY <1>8, <2>2, <3>1, AppendFacts
    <3>5. Unacked' \subseteq Unacked \cup {e.id}
      BY <3>1, <3>4 DEF Unacked
    <3>6. QED
      BY <3>3, <3>5
  <2>3. QED
    BY <1>1, <2>1, <2>2 DEF Sends
<1>10. Apart(objects')
  BY <1>5, <1>6, <1>7 DEF Apart
<1>11. \A b \in DOMAIN objects' : /\ Ids(Waiting(objects'[b])) \cap Unacked' = {}
                                  /\ Ids(Waiting(objects'[b])) \subseteq 1 .. copies'
  BY <1>1, <1>5, <1>6, <1>7, <1>9
<1>12. Unacked' \subseteq 1 .. copies'
  BY <1>1, <1>3, <1>7, <1>9
<1>13. QED
  BY <1>5, <1>6, <1>9, <1>10, <1>11, <1>12 DEF Places

LEMMA OnClientAckPlaces ==
  ASSUME TInv, Places, NEW c, NEW s, NEW sent, OnClientAck(c, s, sent)
  PROVE  Places'
<1> DEFINE list == m_NeedAckMessageList
<1>1. Acked(s) /\ UNCHANGED <<tables, m_iAckSeq, copies>>
  BY AckWhat
<1>2. PICK k \in 1 .. Len(list) : m_NeedAckMessageList' = RemoveAt(list, k)
  BY <1>1 DEF Acked
<1>3. list \in Seq(Message) /\ AcksOrdered(list, m_iAckSeq)
  BY DEF TInv, Types, AcksTyped, Places
<1>4. AcksOrdered(RemoveAt(list, k), m_iAckSeq) /\ ToSet(RemoveAt(list, k)) \subseteq ToSet(list)
  BY <1>3, AcksRemove
<1>5. Unacked' \subseteq Unacked
  BY <1>2, <1>4 DEF Unacked
<1>6. AcksOrdered(m_NeedAckMessageList', m_iAckSeq')
  BY <1>1, <1>2, <1>4
<1>7. UNCHANGED <<objects, copies>>
  BY <1>1 DEF tables
<1>8. QED
  BY <1>5, <1>6, <1>7 DEF Places

\* The new copies, and those meant for one queue.
LEMMA MineFacts ==
  ASSUME TInv, NEW m \in Msgs, NEW targets, Publishes(m, targets)
  PROVE  \A a : /\ Mine(a, m, targets) \in Seq(Message) /\ IsInjective(Mine(a, m, targets))
                /\ OneEach(ToSet(Mine(a, m, targets)))
                /\ Ids(ToSet(Mine(a, m, targets))) \subseteq copies + 1 .. copies'
                /\ \A b : b # a => Ids(ToSet(Mine(a, m, targets)))
                                     \cap Ids(ToSet(Mine(b, m, targets))) = {}
<1> DEFINE new == NewCopies(m, targets)
           n == Len(targets)
           T == ToSet(new)
           S(a) == {e \in T : targets[e.id - copies][2] = a}
<1>1. /\ new \in Seq(Message) /\ Len(new) = n /\ n \in Nat
      /\ \A i \in 1 .. n : new[i].id = copies + i
  BY CopiesFacts
<1>2. copies' = copies + n /\ copies \in Nat
  BY BrokerAssumption DEF Publishes, TInv, Types, Counters
<1>3. \A a : Mine(a, m, targets) = Keep(new, S(a))
  BY DEF Mine
<1> HIDE DEF new, n
<1>4. T = {new[i] : i \in 1 .. n} /\ DOMAIN new = 1 .. n
  BY <1>1, RangeFacts
<1> HIDE DEF T
<1>5. IsInjective(new)
  <2>1. ASSUME NEW i \in 1 .. n, NEW j \in 1 .. n, new[i] = new[j]
        PROVE  i = j
    <3>1. copies + i = copies + j
      BY <1>1, <2>1
    <3>2. QED
      BY <1>2, <3>1
  <2>2. QED
    BY <1>4, <2>1 DEF IsInjective
<1>6. OneEach(T)
  <2>1. ASSUME NEW i \in 1 .. n, NEW j \in 1 .. n, new[i].id = new[j].id
        PROVE  new[i] = new[j]
    <3>1. copies + i = copies + j
      BY <1>1, <2>1
    <3>2. i = j
      BY <1>2, <3>1
    <3>3. QED
      BY <3>2
  <2>2. QED
    BY <1>4, <2>1 DEF OneEach
<1>7. Ids(T) \subseteq copies + 1 .. copies'
  <2>1. \A i \in 1 .. n : copies + i \in copies + 1 .. copies'
    BY <1>1, <1>2
  <2>2. QED
    BY <1>1, <1>4, <2>1 DEF Ids
<1>8. \A a : S(a) \subseteq T
  OBVIOUS
<1>9. \A a, b : \A d \in S(a), e \in S(b) : d.id = e.id => a = b
  OBVIOUS
<1> HIDE DEF S
<1>10. ASSUME NEW a
       PROVE  Keep(new, S(a)) \in Seq(Message) /\ ToSet(Keep(new, S(a))) = S(a)
              /\ IsInjective(Keep(new, S(a)))
  <2>1. ToSet(new) \cap S(a) = S(a)
    BY <1>8 DEF T
  <2>2. QED
    BY <1>1, <1>5, <2>1, KeepFacts
<1>11. ASSUME NEW a
       PROVE  OneEach(S(a)) /\ Ids(S(a)) \subseteq copies + 1 .. copies'
  <2>1. S(a) \subseteq T
    BY <1>8
  <2>2. OneEach(S(a)) /\ Ids(S(a)) \subseteq Ids(T)
    BY <1>6, <2>1, OneEachSubset, IdsFacts
  <2>3. QED
    BY <1>7, <2>2
<1>12. \A a, b : b # a => Ids(S(a)) \cap Ids(S(b)) = {}
  BY <1>9 DEF Ids
<1>13. \A a : ToSet(Mine(a, m, targets)) = S(a)
  BY <1>3, <1>10
<1>14. QED
  BY <1>3, <1>10, <1>11, <1>12, <1>13

\* Queues whose messages are as before, with new ones added to each.
LEMMA GrowsKeeps ==
  ASSUME Places, NEW N, copies \in Nat, copies' \in Nat, copies <= copies',
         \A a \in DOMAIN objects' :
           /\ a \in DOMAIN objects /\ QueueOnce(objects'[a])
           /\ Ids(Waiting(objects'[a])) = Ids(Waiting(objects[a])) \cup Ids(N[a])
           /\ Ids(N[a]) \subseteq 1 .. copies' /\ Ids(N[a]) \cap Unacked' = {}
           /\ \A b \in DOMAIN objects : Ids(N[a]) \cap Ids(Waiting(objects[b])) = {}
           /\ \A b \in DOMAIN objects' : a # b => Ids(N[a]) \cap Ids(N[b]) = {},
         Unacked' \subseteq Unacked, AcksOrdered(m_NeedAckMessageList', m_iAckSeq')
  PROVE  Places'
<1> DEFINE W(a) == Ids(Waiting(objects[a]))
           V(a) == Ids(Waiting(objects'[a]))
           M(a) == Ids(N[a])
<1>1. \A a \in DOMAIN objects' :
        /\ a \in DOMAIN objects /\ V(a) = W(a) \cup M(a)
        /\ M(a) \subseteq 1 .. copies' /\ M(a) \cap Unacked' = {}
        /\ \A b \in DOMAIN objects : M(a) \cap W(b) = {}
        /\ \A b \in DOMAIN objects' : a # b => M(a) \cap M(b) = {}
  OBVIOUS
<1>2. /\ \A a, b \in DOMAIN objects : a # b => W(a) \cap W(b) = {}
      /\ \A a \in DOMAIN objects : W(a) \cap Unacked = {} /\ W(a) \subseteq 1 .. copies
      /\ Unacked \subseteq 1 .. copies
  BY DEF Places, Apart
<1>3. 1 .. copies \subseteq 1 .. copies'
  OBVIOUS
<1> HIDE DEF W, V, M
<1>4. ASSUME NEW a \in DOMAIN objects', NEW b \in DOMAIN objects', a # b
      PROVE  V(a) \cap V(b) = {}
  <2>1. V(a) = W(a) \cup M(a) /\ V(b) = W(b) \cup M(b)
    BY <1>1
  <2>2. M(a) \cap W(b) = {} /\ M(b) \cap W(a) = {} /\ M(a) \cap M(b) = {} /\ W(a) \cap W(b) = {}
    BY <1>1, <1>2, <1>4
  <2>3. QED
    BY <2>1, <2>2
<1>5. \A a \in DOMAIN objects' : V(a) \cap Unacked' = {} /\ V(a) \subseteq 1 .. copies'
  BY <1>1, <1>2, <1>3
<1>6. Apart(objects')
  BY <1>4 DEF Apart, V
<1>7. Unacked' \subseteq 1 .. copies'
  BY <1>2, <1>3
<1>8. QED
  BY <1>5, <1>6, <1>7 DEF Places, V

\* Each queue keeps what it has and takes its copies.
LEMMA PublishGrows ==
  ASSUME TInv, Places, NEW m \in Msgs, NEW targets, Publishes(m, targets)
  PROVE  /\ DOMAIN objects' = DOMAIN objects
         /\ \A a \in DOMAIN objects :
              /\ QueueOnce(objects'[a])
              /\ Ids(Waiting(objects'[a]))
                   = Ids(Waiting(objects[a])) \cup Ids(ToSet(Mine(a, m, targets)))
<1> DEFINE M(a) == ToSet(Mine(a, m, targets))
<1>1. /\ objects' = [a \in DOMAIN objects |-> Filled(a, targets, NewCopies(m, targets))]
      /\ copies' = copies + Len(targets) /\ copies \in Nat /\ Len(targets) \in Nat
  BY CopiesFacts, BrokerAssumption DEF Publishes, TInv, Types, Counters
<1>2. copies' \in Nat /\ copies <= copies' /\ 1 .. copies' = 1 .. copies \cup copies + 1 .. copies'
      /\ (1 .. copies) \cap (copies + 1 .. copies') = {}
  BY <1>1
<1>3. \A a : /\ Mine(a, m, targets) \in Seq(Message) /\ IsInjective(Mine(a, m, targets))
             /\ OneEach(M(a)) /\ Ids(M(a)) \subseteq copies + 1 .. copies'
             /\ \A b : b # a => Ids(M(a)) \cap Ids(M(b)) = {}
  BY MineFacts
<1>4. ASSUME NEW a \in DOMAIN objects
      PROVE  /\ QueueOnce(objects'[a])
             /\ Ids(Waiting(objects'[a])) = Ids(Waiting(objects[a])) \cup Ids(M(a))
  <2> DEFINE o == objects[a]
             mine == Mine(a, m, targets)
  <2>1. o \in MessageQueueType /\ QueueOnce(o) /\ Ids(Waiting(o)) \subseteq 1 .. copies
    BY DEF TInv, Types, ObjectsTyped, Places
  <2>2. Ids(Waiting(o)) \cap Ids(ToSet(mine)) = {}
    BY <1>2, <1>3, <2>1
  <2>3. \E k : objects'[a] = [AddMessage(o, mine) EXCEPT !.m_iDurableIndex = k]
    <3>1. PICK n \in Nat : Filled(a, targets, NewCopies(m, targets)) =
              [AddMessage(o, mine) EXCEPT !.m_iDurableIndex = @ + n]
      BY FilledFacts
    <3>2. objects'[a] = Filled(a, targets, NewCopies(m, targets))
      BY <1>1
    <3>3. QED
      BY <3>1, <3>2
  <2>4. PICK k : objects'[a] = [AddMessage(o, mine) EXCEPT !.m_iDurableIndex = k]
    BY <2>3
  <2>5. mine \in Seq(Message) /\ IsInjective(mine) /\ OneEach(ToSet(mine))
    BY <1>3
  <2> HIDE DEF o, mine
  <2>6. /\ QueueOnce([AddMessage(o, mine) EXCEPT !.m_iDurableIndex = k])
        /\ Ids(Waiting([AddMessage(o, mine) EXCEPT !.m_iDurableIndex = k]))
             = Ids(Waiting(o)) \cup Ids(ToSet(mine))
    BY <2>1, <2>2, <2>5, Grows
  <2>7. QED
    BY <2>4, <2>6 DEF mine, o
<1>5. DOMAIN objects' = DOMAIN objects
  BY <1>1
<1>6. QED
  BY <1>4, <1>5

LEMMA PublishPlaces ==
  ASSUME TInv, Places, NEW m \in Msgs, NEW targets, Publishes(m, targets), UNCHANGED acks
  PROVE  Places'
<1> DEFINE M(a) == ToSet(Mine(a, m, targets))
           N == [a \in DOMAIN objects |-> M(a)]
<1>1. /\ objects' = [a \in DOMAIN objects |-> Filled(a, targets, NewCopies(m, targets))]
      /\ copies' = copies + Len(targets) /\ copies \in Nat /\ Len(targets) \in Nat
  BY CopiesFacts, BrokerAssumption DEF Publishes, TInv, Types, Counters
<1>2. copies' \in Nat /\ copies <= copies' /\ 1 .. copies' = 1 .. copies \cup copies + 1 .. copies'
      /\ (1 .. copies) \cap (copies + 1 .. copies') = {}
  BY <1>1
<1>3. \A a : /\ Mine(a, m, targets) \in Seq(Message) /\ IsInjective(Mine(a, m, targets))
             /\ OneEach(M(a)) /\ Ids(M(a)) \subseteq copies + 1 .. copies'
             /\ \A b : b # a => Ids(M(a)) \cap Ids(M(b)) = {}
  BY MineFacts
<1>4. ASSUME NEW a \in DOMAIN objects
      PROVE  /\ QueueOnce(objects'[a])
             /\ Ids(Waiting(objects'[a])) = Ids(Waiting(objects[a])) \cup Ids(M(a))
  BY PublishGrows
<1>5. UNCHANGED <<m_NeedAckMessageList, m_iAckSeq>>
      /\ Unacked \subseteq 1 .. copies /\ AcksOrdered(m_NeedAckMessageList, m_iAckSeq)
  BY DEF acks, Places
<1>6. Unacked' = Unacked
  BY <1>5 DEF Unacked
<1> HIDE DEF M
<1>7. \A a \in DOMAIN objects : N[a] = M(a)
  OBVIOUS
<1> HIDE DEF N
<1>8. \A a \in DOMAIN objects' :
           /\ a \in DOMAIN objects /\ QueueOnce(objects'[a])
           /\ Ids(Waiting(objects'[a])) = Ids(Waiting(objects[a])) \cup Ids(N[a])
           /\ Ids(N[a]) \subseteq 1 .. copies' /\ Ids(N[a]) \cap Unacked' = {}
           /\ \A b \in DOMAIN objects : Ids(N[a]) \cap Ids(Waiting(objects[b])) = {}
           /\ \A b \in DOMAIN objects' : a # b => Ids(N[a]) \cap Ids(N[b]) = {}
  <2>1. DOMAIN objects' = DOMAIN objects
    BY <1>1
  <2>2. \A b \in DOMAIN objects : Ids(Waiting(objects[b])) \subseteq 1 .. copies
    BY DEF Places
  <2>3. \A a : /\ Ids(M(a)) \subseteq 1 .. copies' /\ Ids(M(a)) \cap (1 .. copies) = {}
               /\ \A b : b # a => Ids(M(a)) \cap Ids(M(b)) = {}
    BY <1>2, <1>3
  <2>4. QED
    BY <1>4, <1>5, <1>6, <1>7, <2>1, <2>2, <2>3
<1>9. Unacked' \subseteq Unacked /\ AcksOrdered(m_NeedAckMessageList', m_iAckSeq')
  BY <1>5, <1>6
<1>10. QED
  BY <1>1, <1>2, <1>8, <1>9, GrowsKeeps

\* The subscribers of a queue may change, its messages do not.
LEMMA CancelsNoMessage ==
  ASSUME NEW o \in MessageQueueType, NEW c
  PROVE  /\ CancelSubscribe(o, c).m_messagesList = o.m_messagesList
         /\ CancelSubscribe(o, c).m_msgPriQueue = o.m_msgPriQueue
         /\ \A level : /\ AddSubscribe(o, c, level).m_messagesList = o.m_messagesList
                       /\ AddSubscribe(o, c, level).m_msgPriQueue = o.m_msgPriQueue
BY DEF CancelSubscribe, AddSubscribe, MessageQueueType

\* The messages of a client that exits which go back to queue a.
Returned(home, awaited, a) == {e \in awaited : e.queue \in DOMAIN home /\ home[e.queue] = a}

LEMMA ExitReturns ==
  ASSUME TInv, Places, NEW c, NEW heap, NEW home, NEW awaited,
         ExitHeap(c, heap, home, awaited), Survivors(c, heap)
  PROVE  /\ AcksOrdered(m_NeedAckMessageList', m_iAckSeq')
         /\ ToSet(m_NeedAckMessageList') = ToSet(m_NeedAckMessageList) \ awaited
         /\ Ids(awaited) \subseteq Unacked /\ Ids(awaited) \cap Unacked' = {}
         /\ Unacked' \subseteq Unacked /\ OneEach(awaited)
         /\ DOMAIN objects' = DOMAIN heap
         /\ \A a \in DOMAIN heap :
              /\ a \in DOMAIN objects /\ QueueOnce(objects'[a])
              /\ Ids(Waiting(objects'[a])) =
                   Ids(Waiting(objects[a])) \cup Ids(Returned(home, awaited, a))
<1> DEFINE list == m_NeedAckMessageList
<1>3. list \in Seq(Message) /\ AcksOrdered(list, m_iAckSeq) /\ UNCHANGED m_iAckSeq
  BY DEF TInv, Types, AcksTyped, Places, ExitHeap
<1> DEFINE back == Keep(list, awaited)
           S(a) == {e \in ToSet(back) : e.queue \in DOMAIN home /\ home[e.queue] = a}
<1>4. /\ objects' = [a \in DOMAIN heap |-> AddMessageFront(heap[a], Keep(back, S(a)))]
      /\ m_NeedAckMessageList' = Keep(list, ToSet(list) \ awaited)
      /\ awaited \subseteq ToSet(list)
  BY DEF ExitHeap, PutBack
<1>5. /\ back \in Seq(Message) /\ ToSet(back) = awaited /\ IsInjective(back)
  <2>1. IsInjective(list)
    BY <1>3, AcksInjective
  <2>2. ToSet(list) \cap awaited = awaited
    BY <1>4
  <2>3. QED
    BY <1>3, <2>1, <2>2, KeepFacts
<1>6. ToSet(m_NeedAckMessageList') = ToSet(list) \ awaited /\ AcksOrdered(m_NeedAckMessageList', m_iAckSeq')
  <2>1. ToSet(list) \cap (ToSet(list) \ awaited) = ToSet(list) \ awaited
    OBVIOUS
  <2>2. ToSet(Keep(list, ToSet(list) \ awaited)) = ToSet(list) \ awaited
    BY <1>3, <2>1, KeepFacts
  <2>3. AcksOrdered(Keep(list, ToSet(list) \ awaited), m_iAckSeq)
    BY <1>3, AcksKept
  <2>4. QED
    BY <1>3, <1>4, <2>2, <2>3
<1>7. OneEach(ToSet(list)) /\ Unacked = Ids(ToSet(list)) /\ Unacked' = Ids(ToSet(list) \ awaited)
  BY <1>3, <1>6 DEF AcksOrdered, Unacked, Ids
<1>8. /\ Ids(awaited) \subseteq Unacked /\ Ids(awaited) \cap Unacked' = {}
      /\ Unacked' \subseteq Unacked /\ OneEach(awaited)
  BY <1>4, <1>7 DEF Ids, OneEach
<1>9. /\ \A a : S(a) \subseteq awaited /\ S(a) \subseteq ToSet(back)
      /\ \A a : S(a) = Returned(home, awaited, a)
  BY <1>5 DEF Returned
<1> HIDE DEF back, S
<1>10. ASSUME NEW a
       PROVE  /\ Keep(back, S(a)) \in Seq(Message) /\ ToSet(Keep(back, S(a))) = S(a)
              /\ IsInjective(Keep(back, S(a))) /\ OneEach(S(a))
              /\ Ids(S(a)) \subseteq Ids(awaited)
  <2>1. ToSet(back) \cap S(a) = S(a) /\ S(a) \subseteq awaited
    BY <1>9
  <2>2. /\ Keep(back, S(a)) \in Seq(Message) /\ ToSet(Keep(back, S(a))) = S(a)
        /\ IsInjective(Keep(back, S(a)))
    BY <1>5, <2>1, KeepFacts
  <2>3. OneEach(S(a)) /\ Ids(S(a)) \subseteq Ids(awaited)
    BY <1>8, <2>1, OneEachSubset, IdsFacts
  <2>4. QED
    BY <2>2, <2>3
<1>12. /\ \A a \in DOMAIN objects : /\ Ids(Waiting(objects[a])) \cap Unacked = {}
                                    /\ QueueOnce(objects[a])
       /\ Unacked \subseteq 1 .. copies
  BY DEF Places
<1>13. ASSUME NEW a \in DOMAIN heap
       PROVE  /\ a \in DOMAIN objects /\ QueueOnce(objects'[a])
              /\ Ids(Waiting(objects'[a])) = Ids(Waiting(objects[a])) \cup Ids(S(a))
  <2> DEFINE o == heap[a]
             r == Keep(back, S(a))
  <2>1. a \in DOMAIN objects /\ (o = objects[a] \/ o = CancelSubscribe(objects[a], c))
    BY DEF Survivors
  <2>2. /\ objects[a] \in MessageQueueType /\ IsQueue(objects[a])
    BY <2>1 DEF TInv, IInv, QueueTablesOK, QueuesOK, Types, ObjectsTyped
  <2>3. /\ o \in MessageQueueType /\ o.m_messagesList = objects[a].m_messagesList
        /\ o.m_msgPriQueue = objects[a].m_msgPriQueue
    <3>1. CancelSubscribe(objects[a], c) \in MessageQueueType
      BY <2>2, SubscribeType
    <3>2. /\ CancelSubscribe(objects[a], c).m_messagesList = objects[a].m_messagesList
          /\ CancelSubscribe(objects[a], c).m_msgPriQueue = objects[a].m_msgPriQueue
      BY <2>2, CancelsNoMessage
    <3>3. QED
      BY <2>1, <2>2, <3>1, <3>2
  <2>4. QueueOnce(o) /\ Waiting(o) = Waiting(objects[a])
    BY <1>12, <2>1, <2>3 DEF QueueOnce, Waiting
  <2>5. Ids(Waiting(o)) \cap Ids(ToSet(r)) = {}
    BY <1>8, <1>10, <1>12, <2>1, <2>4
  <2>6. r \in Seq(Message) /\ IsInjective(r) /\ OneEach(ToSet(r)) /\ ToSet(r) = S(a)
    BY <1>10
  <2>7. objects'[a] = AddMessageFront(o, r)
    BY <1>4
  <2> HIDE DEF o, r
  <2>8. /\ QueueOnce(AddMessageFront(o, r))
        /\ Ids(Waiting(AddMessageFront(o, r))) = Ids(Waiting(o)) \cup Ids(ToSet(r))
    BY <2>3, <2>4, <2>5, <2>6, Grows
  <2>9. QED
    BY <2>1, <2>4, <2>6, <2>7, <2>8
<1>14. QED
  BY <1>4, <1>6, <1>8, <1>9, <1>13

LEMMA OnClientExitPlaces ==
  ASSUME TInv, Places, NEW c, OnClientExit(c)
  PROVE  Places'
<1>1. PICK heap, home, awaited : ExitHeap(c, heap, home, awaited) /\ Survivors(c, heap)
  <2>1. \E heap, home, awaited : ExitHeap(c, heap, home, awaited) /\ Survivors(c, heap)
    BY ExitWhat
  <2>2. QED
    BY <2>1
<1> DEFINE S(a) == Returned(home, awaited, a)
           N    == [a \in DOMAIN heap |-> S(a)]
<1>2. copies' = copies /\ copies \in Nat
  BY ExitWhat, BrokerAssumption DEF TInv, Types, Counters
<1>3. /\ AcksOrdered(m_NeedAckMessageList', m_iAckSeq')
      /\ Ids(awaited) \subseteq Unacked /\ Ids(awaited) \cap Unacked' = {}
      /\ Unacked' \subseteq Unacked /\ OneEach(awaited)
      /\ DOMAIN objects' = DOMAIN heap
      /\ \A a \in DOMAIN heap :
           /\ a \in DOMAIN objects /\ QueueOnce(objects'[a])
           /\ Ids(Waiting(objects'[a])) = Ids(Waiting(objects[a])) \cup Ids(S(a))
  BY <1>1, ExitReturns
<1>4. /\ \A a : S(a) \subseteq awaited /\ Ids(S(a)) \subseteq Ids(awaited)
      /\ \A a, b : a # b => S(a) \cap S(b) = {}
  BY DEF Returned, Ids
<1> HIDE DEF S
<1>5. ASSUME NEW a, NEW b, a # b
      PROVE  Ids(S(a)) \cap Ids(S(b)) = {}
  <2>1. \A d \in S(a), e \in S(b) : d \in awaited /\ e \in awaited /\ d # e
    BY <1>4, <1>5
  <2>2. \A d \in S(a), e \in S(b) : d.id # e.id
    BY <1>3, <2>1 DEF OneEach
  <2>3. QED
    BY <2>2 DEF Ids
<1>6. /\ \A a \in DOMAIN objects : Ids(Waiting(objects[a])) \cap Unacked = {}
      /\ Unacked \subseteq 1 .. copies
  BY DEF Places
<1>7. \A a \in DOMAIN objects' :
           /\ a \in DOMAIN objects /\ QueueOnce(objects'[a])
           /\ Ids(Waiting(objects'[a])) = Ids(Waiting(objects[a])) \cup Ids(N[a])
           /\ Ids(N[a]) \subseteq 1 .. copies' /\ Ids(N[a]) \cap Unacked' = {}
           /\ \A b \in DOMAIN objects : Ids(N[a]) \cap Ids(Waiting(objects[b])) = {}
           /\ \A b \in DOMAIN objects' : a # b => Ids(N[a]) \cap Ids(N[b]) = {}
  <2>1. DOMAIN objects' = DOMAIN heap /\ \A a \in DOMAIN heap : N[a] = S(a)
    BY <1>3
  <2> HIDE DEF N
  <2>2. \A a : /\ Ids(S(a)) \subseteq 1 .. copies' /\ Ids(S(a)) \cap Unacked' = {}
               /\ \A b \in DOMAIN objects : Ids(S(a)) \cap Ids(Waiting(objects[b])) = {}
    BY <1>2, <1>3, <1>4, <1>6
  <2>3. QED
    BY <1>3, <1>5, <2>1, <2>2
<1> HIDE DEF N
<1>8. QED
  BY <1>2, <1>3, <1>7, GrowsKeeps

\* A handler that only creates, subscribes, or deletes.
LEMMA OnCreateQueuePlaces ==
  ASSUME Places, NEW c, NEW q, NEW kind, NEW ok, OnCreateQueue(c, q, kind, ok)
  PROVE  Places'
<1>1. UNCHANGED <<acks, copies>>
  BY DEF OnCreateQueue
<1>2. CASE UNCHANGED objects
  BY <1>1, <1>2, SameObjectsKeeps
<1>3. ASSUME NEW a, objects' = Put(objects, a, NewQueue(q, kind))
      PROVE  Places'
  <2>1. NewQueue(q, kind).m_messagesList = <<>> /\ NewQueue(q, kind).m_msgPriQueue = {}
    BY DEF NewQueue
  <2>2. Shrinks
    BY <1>3, <2>1 DEF Shrinks, Put
  <2>3. QED
    BY <1>1, <2>2, ShrinksKeeps
<1>4. QED
  BY <1>2, <1>3 DEF OnCreateQueue

LEMMA OnCreateSubscribePlaces ==
  ASSUME TInv, Places, NEW c, NEW q, NEW level, NEW ok, OnCreateSubscribe(c, q, level, ok)
  PROVE  Places'
<1> DEFINE a == QueueOf(q)
           o == AddSubscribe(objects[a], c, level)
<1>1. UNCHANGED <<acks, copies>>
  BY DEF OnCreateSubscribe
<1>2. CASE UNCHANGED objects
  BY <1>1, <1>2, SameObjectsKeeps
<1>3. ASSUME Named(q), NEW p, p = o \/ p = CancelSubscribe(o, c),
             objects' = [objects EXCEPT ![a] = p]
      PROVE  Places'
  <2>1. a \in DOMAIN objects
    BY <1>3 DEF Named, QueueOf, TInv, IInv, QueueTablesOK, PointersOK
  <2>2. objects[a] \in MessageQueueType
    BY <2>1 DEF TInv, Types, ObjectsTyped
  <2>3. o.m_messagesList = objects[a].m_messagesList /\ o.m_msgPriQueue = objects[a].m_msgPriQueue
    BY <2>2 DEF AddSubscribe, MessageQueueType
  <2>4. /\ CancelSubscribe(o, c).m_messagesList = o.m_messagesList
        /\ CancelSubscribe(o, c).m_msgPriQueue = o.m_msgPriQueue
    BY <2>2 DEF AddSubscribe, CancelSubscribe, MessageQueueType
  <2> HIDE DEF o, a
  <2>5. Shrinks
    BY <1>3, <2>1, <2>3, <2>4 DEF Shrinks
  <2>6. QED
    BY <1>1, <2>5, ShrinksKeeps
<1>4. \/ UNCHANGED objects
      \/ /\ Named(q)
         /\ \/ objects' = [objects EXCEPT ![a] = o]
            \/ objects' = [objects EXCEPT ![a] = CancelSubscribe(o, c)]
  BY DEF OnCreateSubscribe, Refuse, tables
<1> HIDE DEF o, a
<1>5. QED
  BY <1>2, <1>3, <1>4

LEMMA OnDeleteQueuePlaces ==
  ASSUME Places, NEW c, NEW q, NEW ok, OnDeleteQueue(c, q, ok)
  PROVE  Places'
<1>1. UNCHANGED <<acks, copies>>
  BY DEF OnDeleteQueue
<1>2. CASE UNCHANGED objects
  BY <1>1, <1>2, SameObjectsKeeps
<1>3. ASSUME NEW S, objects' = Drop(objects, S)
      PROVE  Places'
  <2>1. Shrinks
    BY <1>3 DEF Shrinks, Drop
  <2>2. QED
    BY <1>1, <2>1, ShrinksKeeps
<1>4. UNCHANGED objects \/ \E S : objects' = Drop(objects, S)
  BY DEF OnDeleteQueue, Refuse, tables
<1>5. QED
  BY <1>2, <1>3, <1>4

LEMMA OnCancelSubscribePlaces ==
  ASSUME TInv, Places, NEW c, NEW q, OnCancelSubscribe(c, q)
  PROVE  Places'
<1> DEFINE a    == m_mSubcribeQueues[q]
           o    == objects[a]
           left == CancelSubscribe(o, c)
           back == AddSubscribe(left, c, o.m_iConfirmLevel)
<1>1. UNCHANGED <<acks, copies>>
  BY DEF OnCancelSubscribe
<1>2. CASE UNCHANGED objects
  BY <1>1, <1>2, SameObjectsKeeps
<1>3. CASE objects' = Drop(objects, {a})
  <2>1. Shrinks
    BY <1>3 DEF Shrinks, Drop
  <2>2. QED
    BY <1>1, <2>1, ShrinksKeeps
<1>4. ASSUME q \in DOMAIN m_mSubcribeQueues,
             NEW p, p = left \/ p = back \/ p = ClearMessage(left),
             objects' = [objects EXCEPT ![a] = p]
      PROVE  Places'
  <2>1. a \in DOMAIN objects
    BY <1>4 DEF TInv, IInv, QueueTablesOK, PointersOK
  <2>2. o \in MessageQueueType /\ IsQueue(o)
    BY <2>1 DEF TInv, IInv, QueueTablesOK, QueuesOK, Types, ObjectsTyped
  <2>3. /\ left \in MessageQueueType /\ left.m_messagesList = o.m_messagesList
        /\ left.m_msgPriQueue = o.m_msgPriQueue
    BY <2>2, SubscribeType, CancelsNoMessage
  <2> HIDE DEF left
  <2>4. /\ back.m_messagesList = left.m_messagesList
        /\ back.m_msgPriQueue = left.m_msgPriQueue
    BY <2>3, CancelsNoMessage
  <2>5. ClearMessage(left).m_messagesList = <<>> /\ ClearMessage(left).m_msgPriQueue = {}
    BY <2>3 DEF ClearMessage, MessageQueueType
  <2> HIDE DEF back, a
  <2>6. Shrinks
    BY <1>4, <2>1, <2>3, <2>4, <2>5 DEF Shrinks
  <2>7. QED
    BY <1>1, <2>6, ShrinksKeeps
<1> DEFINE listed == q \in DOMAIN m_mSubcribeQueues
<1>5. \/ UNCHANGED objects
      \/ listed /\ objects' = [objects EXCEPT ![a] = back]
      \/ listed /\ objects' = [objects EXCEPT ![a] = left]
      \/ /\ listed
         /\ \E told : DeleteAutomatically(c, q, left, told)
  BY DEF OnCancelSubscribe, Refuse, tables
<1>6. ASSUME NEW told, DeleteAutomatically(c, q, left, told)
      PROVE  \/ objects' = Drop(objects, {a})
             \/ objects' = [objects EXCEPT ![a] = ClearMessage(left)]
  BY <1>6 DEF DeleteAutomatically
<1> HIDE DEF left, back, a
<1>7. QED
  BY <1>2, <1>3, <1>4, <1>5, <1>6

LEMMA OnPublishMessagePlaces ==
  ASSUME TInv, Places, NEW c \in Clients, NEW x, NEW key, NEW m \in Msgs,
         OnPublishMessage(c, x, key, m)
  PROVE  Places'
<1>1. UNCHANGED acks
  BY PublishWhat
<1>2. CASE UNCHANGED <<tables, copies>>
  BY <1>1, <1>2, SameObjectsKeeps DEF tables
<1>3. ASSUME NEW targets, Publishes(m, targets)
      PROVE  Places'
  BY <1>1, <1>3, PublishPlaces
<1>4. QED
  BY <1>2, <1>3, PublishWhat

LEMMA OnRecvMessagePlaces ==
  ASSUME TInv, Places, NEW c, NEW q \in Queues, NEW level \in ConsumerLevels, NEW sent,
         OnRecvMessage(c, q, level, sent)
  PROVE  Places'
<1>1. CASE UNCHANGED <<tables, acks, dedup, loop, clients, copies>>
  BY <1>1, SameObjectsKeeps DEF tables
<1>2. ASSUME NEW a, NEW e, NEW p, NEW out, Hands(a, e, p, out)
      PROVE  Places'
  BY <1>2, HandsPlaces
<1>3. QED
  BY <1>1, <1>2, RecvHands

LEMMA LoopStepPlaces ==
  ASSUME TInv, Places, LoopStep
  PROVE  Places'
<1>1. CASE \E sent \in Answers : PushOne(sent)
  <2>1. PICK sent : PushOne(sent)
    BY <1>1
  <2>2. PICK a, e, p, out : Hands(a, e, p, out)
    BY <2>1, PushHands
  <2>3. QED
    BY <2>2, HandsPlaces
<1>2. CASE UNCHANGED <<objects, acks, copies>>
  BY <1>2, SameObjectsKeeps
<1>3. CASE \E q \in loop.todo : VisitQueue(q)
  BY <1>2, <1>3 DEF VisitQueue
<1>4. CASE QueueDrained \/ PushDone \/ ReceiveDone \/ SendMultiAck
  BY <1>2, <1>4 DEF QueueDrained, PushDone, ReceiveDone, SendMultiAck, tables
<1>5. QED
  BY <1>1, <1>3, <1>4 DEF LoopStep

LEMMA HandlerPlaces ==
  ASSUME TInv, Places, Handler
  PROVE  Places'
<1>1. ASSUME UNCHANGED <<objects, acks, copies>>
      PROVE  Places'
  BY <1>1, SameObjectsKeeps
<1>2. ASSUME NEW c, NEW x, NEW kind, NEW ok, OnCreateExchange(c, x, kind, ok)
      PROVE  Places'
  BY <1>1, <1>2 DEF OnCreateExchange
<1>3. ASSUME NEW c, NEW x, NEW q, NEW key, NEW ok, OnCreateBinding(c, x, q, key, ok)
      PROVE  Places'
  BY <1>1, <1>3 DEF OnCreateBinding, Refuse, tables
<1>4. ASSUME NEW c, NEW x, NEW ok, OnDeleteExchange(c, x, ok)
      PROVE  Places'
  BY <1>1, <1>4 DEF OnDeleteExchange, Refuse, tables
<1>5. ASSUME NEW c \in Clients, NEW e, NEW sent, OnClientAck(c, e.seq, sent)
      PROVE  Places'
  BY <1>5, OnClientAckPlaces
<1>6. QED
  BY <1>2, <1>3, <1>4, <1>5, OnCreateQueuePlaces, OnPublishMessagePlaces, OnRecvMessagePlaces,
     OnCreateSubscribePlaces, OnDeleteQueuePlaces, OnCancelSubscribePlaces, OnClientExitPlaces
     DEF Handler

LEMMA PlacesInitially ==
  ASSUME Init
  PROVE  Places
<1>1. /\ DOMAIN objects = {} /\ m_NeedAckMessageList = <<>> /\ m_iAckSeq = 0
  BY DEF Init, EmptyMap
<1>2. ToSet(<<>>) = {}
  BY DEF ToSet
<1>3. Unacked = {} /\ AcksOrdered(m_NeedAckMessageList, m_iAckSeq)
  BY <1>1, <1>2 DEF Unacked, AcksOrdered, OneEach, Sorted
<1>4. QED
  BY <1>1, <1>3 DEF Places, Apart

(* The places of the copies, as an inductive invariant. *)
LEMMA PlacesInvariant == Spec => [](TInv /\ Places)
<1>1. ASSUME TInv, Places, [Next]_vars
      PROVE  Places'
  <2>1. CASE LoopStep
    BY <1>1, <2>1, LoopStepPlaces
  <2>2. CASE Handler
    BY <1>1, <2>2, HandlerPlaces
  <2>3. CASE (\E c \in Clients : Connect(c)) \/ UNCHANGED vars
    BY <1>1, <2>3, SameObjectsKeeps DEF Connect, tables, vars, acks
  <2>4. QED
    BY <1>1, <2>1, <2>2, <2>3 DEF Next
<1>2. Init => Places
  BY PlacesInitially
<1>3. QED
  BY <1>1, <1>2, TypedInvariant, PTL DEF Spec

\* However often messages are taken, given back by a consumer that exits, and
\* handed out again, each copy is in one place (PushOne, OnRecvMessage,
\* OnClientAck, OnClientExit), and the numbers the consumers acknowledge are used
\* once, in the order of the list.
THEOREM CopiesInOnePlace == Spec => []UnackedOnce
<1>1. ASSUME TInv, Places
      PROVE  UnackedOnce
  <2> DEFINE list == m_NeedAckMessageList
             W(a) == {e.id : e \in Waiting(objects[a])}
  <2>1. /\ \A a, b \in DOMAIN objects : a # b => W(a) \cap W(b) = {}
        /\ \A a \in DOMAIN objects : W(a) \cap Unacked = {}
    BY <1>1 DEF Places, Apart, Ids
  <2>2. ASSUME NEW a \in DOMAIN objects
        PROVE  Cardinality(W(a)) = Len(objects[a].m_messagesList)
                                     + Cardinality(objects[a].m_msgPriQueue)
    <3> DEFINE s == objects[a].m_messagesList
               P == objects[a].m_msgPriQueue
    <3>1. s \in Seq(Message) /\ Once(s, P)
      BY <1>1 DEF TInv, Types, ObjectsTyped, MessageQueueType, Places, QueueOnce
    <3>2. W(a) = Ids(ToSet(s) \cup P)
      BY DEF Ids, Waiting
    <3> HIDE DEF s, P, W
    <3>3. /\ IsFiniteSet(P) /\ IsFiniteSet(ToSet(s)) /\ Cardinality(ToSet(s)) = Len(s)
          /\ ToSet(s) \cap P = {} /\ OneEach(ToSet(s) \cup P)
      BY <3>1, SeqFinite DEF Once
    <3>4. /\ IsFiniteSet(ToSet(s) \cup P)
          /\ Cardinality(ToSet(s) \cup P) = Cardinality(ToSet(s)) + Cardinality(P) - Cardinality({})
      <4> DEFINE S == ToSet(s)
      <4>1. IsFiniteSet(S) /\ IsFiniteSet(P) /\ S \cap P = {}
        BY <3>3
      <4> HIDE DEF S
      <4>2. /\ IsFiniteSet(S \cup P)
            /\ Cardinality(S \cup P) = Cardinality(S) + Cardinality(P) - Cardinality(S \cap P)
        BY <4>1, FS_Union, SMT
      <4>3. QED
        BY <4>1, <4>2 DEF S
    <3>5. Cardinality({}) = 0 /\ Cardinality(P) \in Nat /\ Len(s) \in Nat
      BY <3>1, <3>3, FS_EmptySet, FS_CardinalityType
    <3>6. Cardinality(W(a)) = Cardinality(ToSet(s) \cup P)
      BY <3>2, <3>3, <3>4, IdsCount
    <3>7. QED
      BY <3>3, <3>4, <3>5, <3>6 DEF s, P
  <2>3. Queued \cap Unacked = {}
    <3>1. ASSUME NEW id \in Queued
          PROVE  id \notin Unacked
      <4>1. PICK o \in Range(objects) : \E e \in Waiting(o) : id = e.id
        BY <3>1 DEF Queued
      <4>2. PICK a \in DOMAIN objects : o = objects[a]
        BY <4>1 DEF Range
      <4>3. QED
        BY <2>1, <4>1, <4>2
    <3>2. QED
      BY <3>1
  <2>4. list \in Seq(Message) /\ AcksOrdered(list, m_iAckSeq)
    BY <1>1 DEF TInv, Types, AcksTyped, Places
  <2>5. Cardinality(Unacked) = Len(list)
    <3>1. IsInjective(list)
      BY <2>4, AcksInjective
    <3>2. IsFiniteSet(ToSet(list)) /\ Cardinality(ToSet(list)) = Len(list)
      BY <2>4, <3>1, SeqFinite
    <3>3. OneEach(ToSet(list)) /\ Unacked = Ids(ToSet(list))
      BY <2>4 DEF AcksOrdered, Unacked, Ids
    <3>4. QED
      BY <3>2, <3>3, IdsCount
  <2>6. /\ \A i, j \in DOMAIN list : i < j => list[i].seq < list[j].seq
        /\ \A e \in ToSet(list) : e.seq \in 0 .. m_iAckSeq - 1
    <3>1. DOMAIN list = 1 .. Len(list)
      BY <2>4
    <3>2. \A i, j \in 1 .. Len(list) : i < j => <<list[i], list[j]>> \in Earlier
      BY <2>4 DEF AcksOrdered, Sorted
    <3>3. \A i, j \in 1 .. Len(list) : i < j => list[i].seq < list[j].seq
      BY <3>2 DEF Earlier
    <3>4. QED
      BY <2>4, <3>1, <3>3 DEF AcksOrdered
  <2> HIDE DEF W
  <2>7. QED
    BY <2>1, <2>2, <2>3, <2>5, <2>6 DEF UnackedOnce, W
<1>2. QED
  BY <1>1, PlacesInvariant, PTL

-----------------------------------------------------------------------------
(* Where a copy goes.  Explained lists the ways NothingVanishes allows.     *)

PushedForGood(id) ==
  \E i \in DOMAIN toConnect' :
    toConnect'[i].type = "push" /\ toConnect'[i].id = id /\ toConnect'[i].seq = -1

AckedOrHomeless(id) ==
  \E e \in ToSet(m_NeedAckMessageList) : e.id = id
    /\ \/ \E c \in Clients, sent \in BOOLEAN : OnClientAck(c, e.seq, sent)
       \/ e.queue \notin DOMAIN m_mSubcribeQueues' \cup DOMAIN m_mUnSubcribeQueues'

Gone(a) == \/ a \notin DOMAIN objects'
           \/ a \notin Range(m_mSubcribeQueues') \cup Range(m_mUnSubcribeQueues')

WithItsQueue(id) == \E a \in DOMAIN objects : id \in {e.id : e \in Waiting(objects[a])} /\ Gone(a)

Explained(id) == PushedForGood(id) \/ AckedOrHomeless(id) \/ WithItsQueue(id)

Leaving == (Queued \cup Unacked) \ (Queued' \cup Unacked')

AllExplained == \A id \in Leaving : Explained(id)

\* Queue a keeps what it holds, or is gone.
QueueKept(a) ==
  \/ a \in DOMAIN objects' /\ Ids(Waiting(objects[a])) \subseteq Ids(Waiting(objects'[a]))
  \/ Gone(a)

LEMMA QueuedIs == \A id : id \in Queued <=> \E a \in DOMAIN objects : id \in Ids(Waiting(objects[a]))
BY DEF Queued, Ids, Range

LEMMA QueuedNext ==
  \A id : id \in Queued' <=> \E a \in DOMAIN objects' : id \in Ids(Waiting(objects'[a]))
BY DEF Queued, Ids, Range, Waiting

\* A copy leaves a queue that keeps its copies only with the queue.
LEMMA KeptExplains ==
  ASSUME NEW id \in Leaving, NEW a \in DOMAIN objects, id \in Ids(Waiting(objects[a])),
         QueueKept(a)
  PROVE  Explained(id)
<1>1. id \notin Queued'
  BY DEF Leaving
<1>2. Gone(a)
  BY <1>1, QueuedNext DEF QueueKept
<1>3. QED
  BY <1>2 DEF Explained, WithItsQueue, Ids

LEMMA QueuesKeptExplain ==
  ASSUME \A a \in DOMAIN objects : QueueKept(a), Unacked \subseteq Unacked'
  PROVE  AllExplained
<1>1. ASSUME NEW id \in Leaving
      PROVE  Explained(id)
  <2>1. id \in Queued
    BY DEF Leaving
  <2>2. PICK a \in DOMAIN objects : id \in Ids(Waiting(objects[a]))
    BY <2>1, QueuedIs
  <2>3. QED
    BY <2>2, KeptExplains
<1>2. QED
  BY <1>1 DEF AllExplained

LEMMA SameObjectsExplained ==
  ASSUME UNCHANGED <<objects, acks>>
  PROVE  AllExplained
<1>1. \A a \in DOMAIN objects : QueueKept(a)
  BY DEF QueueKept
<1>2. Unacked' = Unacked
  BY DEF acks, Unacked
<1>3. QED
  BY <1>1, <1>2, QueuesKeptExplain

\* A queue whose lists are as before keeps what it holds.
LEMMA SameLists ==
  ASSUME NEW a \in DOMAIN objects, a \in DOMAIN objects',
         objects'[a].m_messagesList = objects[a].m_messagesList,
         objects'[a].m_msgPriQueue = objects[a].m_msgPriQueue
  PROVE  QueueKept(a)
<1>1. Waiting(objects'[a]) = Waiting(objects[a])
  BY DEF Waiting
<1>2. QED
  BY <1>1 DEF QueueKept

LEMMA HandsExplained ==
  ASSUME TInv, Places, NEW a, NEW e, NEW p, NEW out, Hands(a, e, p, out)
  PROVE  AllExplained
<1>1. /\ a \in DOMAIN objects /\ e \in FrontMsgs(objects[a])
      /\ objects' = [objects EXCEPT ![a] = p]
      /\ Taken(objects[a], e, p) /\ Sends(e, out)
  BY DEF Hands
<1>2. objects[a] \in MessageQueueType /\ QueueOnce(objects[a])
  BY <1>1 DEF TInv, Types, ObjectsTyped, Places
<1>3. Waiting(p) = Waiting(objects[a]) \ {e}
  BY <1>1, <1>2, PopOnce
<1>4. \A b \in DOMAIN objects : b \in DOMAIN objects' /\ objects'[b] = IF b = a THEN p ELSE objects[b]
  BY <1>1
<1>5. Unacked \subseteq Unacked' /\ (out.seq = -1 \/ e.id \in Unacked')
  <2>1. CASE UNCHANGED acks /\ out.seq = -1
    BY <2>1 DEF acks, Unacked
  <2>2. CASE m_NeedAckMessageList' = Append(m_NeedAckMessageList, out)
    <3>1. m_NeedAckMessageList \in Seq(Message) /\ out \in Message /\ out.id = e.id
      BY <1>1 DEF TInv, Types, AcksTyped, Sends
    <3>2. ToSet(m_NeedAckMessageList') = ToSet(m_NeedAckMessageList) \cup {out}
      BY <2>2, <3>1, AppendFacts
    <3>3. QED
      BY <3>1, <3>2 DEF Unacked
  <2>3. QED
    BY <1>1, <2>1, <2>2 DEF Sends
<1>6. out.seq = -1 => PushedForGood(e.id)
  <2>1. toConnect' = <<Push(out)>> /\ out.id = e.id
    BY <1>1 DEF Sends
  <2>2. 1 \in DOMAIN toConnect' /\ toConnect'[1] = Push(out)
    BY <2>1
  <2>3. Push(out).type = "push" /\ Push(out).id = out.id /\ Push(out).seq = out.seq
    BY DEF Push
  <2>4. QED
    BY <2>1, <2>2, <2>3 DEF PushedForGood
<1>7. ASSUME NEW id \in Leaving
      PROVE  Explained(id)
  <2>1. id \in Queued /\ id \notin Unacked' /\ id \notin Queued'
    BY <1>5 DEF Leaving
  <2>2. PICK b \in DOMAIN objects : id \in Ids(Waiting(objects[b]))
    BY <2>1, QueuedIs
  <2>3. CASE b # a
    <3>1. QueueKept(b)
      BY <1>4, <2>3 DEF QueueKept
    <3>2. QED
      BY <2>2, <3>1, KeptExplains
  <2>4. CASE b = a
    <3>1. id = e.id \/ id \in Ids(Waiting(p))
      BY <1>3, <2>2, <2>4 DEF Ids
    <3>2. id \notin Ids(Waiting(p))
      BY <1>1, <1>4, <2>1, QueuedNext
    <3>3. PushedForGood(id)
      BY <1>5, <1>6, <2>1, <3>1, <3>2
    <3>4. QED
      BY <3>3 DEF Explained
  <2>5. QED
    BY <2>3, <2>4
<1>8. QED
  BY <1>7 DEF AllExplained

LEMMA OnClientAckExplained ==
  ASSUME TInv, NEW c \in Clients, NEW s, NEW sent \in Answers, OnClientAck(c, s, sent)
  PROVE  AllExplained
<1> DEFINE list == m_NeedAckMessageList
<1>1. Acked(s) /\ UNCHANGED objects
  BY AckWhat DEF tables
<1>2. PICK k \in 1 .. Len(list) : list[k].seq = s /\ m_NeedAckMessageList' = RemoveAt(list, k)
  BY <1>1 DEF Acked
<1>3. list \in Seq(Message) /\ Len(list) \in Nat
  BY DEF TInv, Types, AcksTyped
<1>4. sent \in BOOLEAN
  BY DEF Answers
<1>5. ASSUME NEW j \in 1 .. Len(list), j # k
      PROVE  list[j] \in ToSet(m_NeedAckMessageList')
  <2> DEFINE r == RemoveAt(list, k)
  <2>1. /\ r \in Seq(Message) /\ Len(r) = Len(list) - 1
        /\ \A i \in 1 .. Len(r) : r[i] = IF i < k THEN list[i] ELSE list[i + 1]
    BY <1>3, RemoveAtFacts
  <2> HIDE DEF r
  <2>2. \E i \in 1 .. Len(r) : r[i] = list[j]
    <3>1. CASE j < k
      BY <1>2, <1>3, <2>1, <3>1
    <3>2. CASE j > k
      <4>1. j - 1 \in 1 .. Len(r) /\ ~(j - 1 < k) /\ (j - 1) + 1 = j
        BY <1>2, <1>3, <2>1, <3>2
      <4>2. QED
        BY <2>1, <4>1
    <3>3. QED
      BY <1>5, <3>1, <3>2
  <2>3. \A i \in 1 .. Len(r) : r[i] \in ToSet(r)
    BY <2>1, RangeFacts
  <2>4. QED
    BY <1>2, <2>2, <2>3 DEF r
<1>6. UNCHANGED Queued
  BY <1>1 DEF Queued, Waiting, Range
<1>7. ASSUME NEW id \in Leaving
      PROVE  Explained(id)
  <2>1. id \in Unacked /\ id \notin Unacked'
    BY <1>6 DEF Leaving
  <2>2. PICK e \in ToSet(list) : id = e.id
    BY <2>1 DEF Unacked
  <2>3. PICK j \in 1 .. Len(list) : e = list[j]
    BY <1>3, <2>2, RangeFacts
  <2>4. e \notin ToSet(m_NeedAckMessageList')
    BY <2>1, <2>2 DEF Unacked
  <2>5. e.seq = s
    BY <1>2, <1>5, <2>3, <2>4
  <2>6. AckedOrHomeless(id)
    BY <1>4, <2>2, <2>5 DEF AckedOrHomeless
  <2>7. QED
    BY <2>6 DEF Explained
<1>8. QED
  BY <1>7 DEF AllExplained

LEMMA OnPublishMessageExplained ==
  ASSUME TInv, Places, NEW c \in Clients, NEW x, NEW key, NEW m \in Msgs,
         OnPublishMessage(c, x, key, m)
  PROVE  AllExplained
<1>1. UNCHANGED acks
  BY PublishWhat
<1>2. CASE UNCHANGED <<tables, copies>>
  BY <1>1, <1>2, SameObjectsExplained DEF tables
<1>3. ASSUME NEW targets, Publishes(m, targets)
      PROVE  AllExplained
  <2>1. ASSUME NEW a \in DOMAIN objects
        PROVE  QueueKept(a)
    BY <1>3, PublishGrows DEF QueueKept
  <2>2. Unacked' = Unacked
    BY <1>1 DEF acks, Unacked
  <2>3. QED
    BY <2>1, <2>2, QueuesKeptExplain
<1>4. QED
  BY <1>2, <1>3, PublishWhat

LEMMA OnCreateQueueExplained ==
  ASSUME NEW c, NEW q, NEW kind, NEW ok, OnCreateQueue(c, q, kind, ok)
  PROVE  AllExplained
<1>1. UNCHANGED acks
  BY DEF OnCreateQueue
<1>2. CASE UNCHANGED objects
  BY <1>1, <1>2, SameObjectsExplained
<1>3. ASSUME NEW a \in FreeAddresses, objects' = Put(objects, a, NewQueue(q, kind))
      PROVE  AllExplained
  <2>1. \A b \in DOMAIN objects : b \in DOMAIN objects' /\ objects'[b] = objects[b]
    BY <1>3 DEF Put, FreeAddresses
  <2>2. \A b \in DOMAIN objects : QueueKept(b)
    BY <2>1 DEF QueueKept
  <2>3. Unacked' = Unacked
    BY <1>1 DEF acks, Unacked
  <2>4. QED
    BY <2>2, <2>3, QueuesKeptExplain
<1>4. QED
  BY <1>2, <1>3 DEF OnCreateQueue

LEMMA OnCreateSubscribeExplained ==
  ASSUME TInv, NEW c, NEW q, NEW level, NEW ok, OnCreateSubscribe(c, q, level, ok)
  PROVE  AllExplained
<1> DEFINE a == QueueOf(q)
           o == AddSubscribe(objects[a], c, level)
<1>1. UNCHANGED acks
  BY DEF OnCreateSubscribe
<1>2. CASE UNCHANGED objects
  BY <1>1, <1>2, SameObjectsExplained
<1>3. ASSUME Named(q), NEW p, p = o \/ p = CancelSubscribe(o, c),
             objects' = [objects EXCEPT ![a] = p]
      PROVE  AllExplained
  <2>1. a \in DOMAIN objects
    BY <1>3 DEF Named, QueueOf, TInv, IInv, QueueTablesOK, PointersOK
  <2>2. objects[a] \in MessageQueueType
    BY <2>1 DEF TInv, Types, ObjectsTyped
  <2>3. o.m_messagesList = objects[a].m_messagesList /\ o.m_msgPriQueue = objects[a].m_msgPriQueue
    BY <2>2 DEF AddSubscribe, MessageQueueType
  <2>4. /\ CancelSubscribe(o, c).m_messagesList = o.m_messagesList
        /\ CancelSubscribe(o, c).m_msgPriQueue = o.m_msgPriQueue
    BY <2>2 DEF AddSubscribe, CancelSubscribe, MessageQueueType
  <2> HIDE DEF o, a
  <2>5. /\ p.m_messagesList = objects[a].m_messagesList
        /\ p.m_msgPriQueue = objects[a].m_msgPriQueue
    BY <1>3, <2>3, <2>4
  <2>6. \A b \in DOMAIN objects :
          /\ b \in DOMAIN objects'
          /\ objects'[b].m_messagesList = objects[b].m_messagesList
          /\ objects'[b].m_msgPriQueue = objects[b].m_msgPriQueue
    BY <1>3, <2>5
  <2>7. \A b \in DOMAIN objects : QueueKept(b)
    BY <2>6, SameLists
  <2>8. Unacked' = Unacked
    BY <1>1 DEF acks, Unacked
  <2>9. QED
    BY <2>7, <2>8, QueuesKeptExplain
<1>4. \/ UNCHANGED objects
      \/ /\ Named(q)
         /\ \/ objects' = [objects EXCEPT ![a] = o]
            \/ objects' = [objects EXCEPT ![a] = CancelSubscribe(o, c)]
  BY DEF OnCreateSubscribe, Refuse, tables
<1> HIDE DEF o, a
<1>5. QED
  BY <1>2, <1>3, <1>4

\* One queue goes, or changes; the others stay.
LEMMA OneGone ==
  ASSUME NEW a, UNCHANGED acks,
         \A b \in DOMAIN objects : b # a => b \in DOMAIN objects' /\ objects'[b] = objects[b],
         a \in DOMAIN objects => QueueKept(a)
  PROVE  AllExplained
<1>1. \A b \in DOMAIN objects : QueueKept(b)
  BY DEF QueueKept
<1>2. Unacked' = Unacked
  BY DEF acks, Unacked
<1>3. QED
  BY <1>1, <1>2, QueuesKeptExplain

LEMMA OnDeleteQueueExplained ==
  ASSUME NEW c, NEW q, NEW ok, OnDeleteQueue(c, q, ok)
  PROVE  AllExplained
<1>1. UNCHANGED acks
  BY DEF OnDeleteQueue
<1>2. CASE UNCHANGED objects
  BY <1>1, <1>2, SameObjectsExplained
<1>3. ASSUME NEW a, objects' = Drop(objects, {a})
      PROVE  AllExplained
  BY <1>1, <1>3, OneGone DEF Drop, QueueKept, Gone
<1>4. UNCHANGED objects \/ \E a : objects' = Drop(objects, {a})
  BY DEF OnDeleteQueue, Refuse, tables
<1>5. QED
  BY <1>2, <1>3, <1>4

LEMMA OnCancelSubscribeExplained ==
  ASSUME TInv, NEW c, NEW q, OnCancelSubscribe(c, q)
  PROVE  AllExplained
<1> DEFINE a    == m_mSubcribeQueues[q]
           o    == objects[a]
           left == CancelSubscribe(o, c)
           back == AddSubscribe(left, c, o.m_iConfirmLevel)
           listed == q \in DOMAIN m_mSubcribeQueues \ DOMAIN m_mUnSubcribeQueues
<1>1. UNCHANGED acks
  BY DEF OnCancelSubscribe
<1>2. CASE UNCHANGED objects
  BY <1>1, <1>2, SameObjectsExplained
<1>3. CASE objects' = Drop(objects, {a})
  BY <1>1, <1>3, OneGone DEF Drop, QueueKept, Gone
<1>4. ASSUME q \in DOMAIN m_mSubcribeQueues
      PROVE  /\ a \in DOMAIN objects
             /\ left.m_messagesList = o.m_messagesList /\ left.m_msgPriQueue = o.m_msgPriQueue
             /\ back.m_messagesList = o.m_messagesList /\ back.m_msgPriQueue = o.m_msgPriQueue
  <2>1. a \in DOMAIN objects
    BY <1>4 DEF TInv, IInv, QueueTablesOK, PointersOK
  <2>2. o \in MessageQueueType /\ IsQueue(o)
    BY <2>1 DEF TInv, IInv, QueueTablesOK, QueuesOK, Types, ObjectsTyped
  <2>3. /\ left \in MessageQueueType /\ left.m_messagesList = o.m_messagesList
        /\ left.m_msgPriQueue = o.m_msgPriQueue
    BY <2>2, SubscribeType, CancelsNoMessage
  <2> HIDE DEF left
  <2>4. /\ back.m_messagesList = left.m_messagesList
        /\ back.m_msgPriQueue = left.m_msgPriQueue
    BY <2>3, CancelsNoMessage
  <2>5. QED
    BY <2>1, <2>3, <2>4
<1>5. ASSUME listed, NEW p, p = left \/ p = back, objects' = [objects EXCEPT ![a] = p]
      PROVE  AllExplained
  <2>1. /\ a \in DOMAIN objects /\ p.m_messagesList = objects[a].m_messagesList
        /\ p.m_msgPriQueue = objects[a].m_msgPriQueue
    BY <1>4, <1>5
  <2> HIDE DEF left, back, a
  <2>2. /\ a \in DOMAIN objects' /\ objects'[a] = p
        /\ \A b \in DOMAIN objects : b # a => b \in DOMAIN objects' /\ objects'[b] = objects[b]
    BY <1>5, <2>1
  <2>3. QueueKept(a)
    BY <2>1, <2>2, SameLists
  <2>4. QED
    BY <1>1, <2>2, <2>3, OneGone
<1>6. ASSUME listed, objects' = [objects EXCEPT ![a] = ClearMessage(left)],
             m_mSubcribeQueues' = Drop(m_mSubcribeQueues, {q}), UNCHANGED m_mUnSubcribeQueues
      PROVE  AllExplained
  <2>1. At(q, a) /\ QueueTablesOK
    BY <1>6 DEF At, TInv, IInv
  <2>2. \A r : At(r, a) => r = q
    BY <2>1, OneName
  <2> HIDE DEF a
  <2>3. /\ \A r \in DOMAIN m_mSubcribeQueues' : r # q /\ At(r, m_mSubcribeQueues'[r])
        /\ \A r \in DOMAIN m_mUnSubcribeQueues' : r # q /\ At(r, m_mUnSubcribeQueues'[r])
    BY <1>6 DEF At, Drop
  <2>4. Gone(a)
    BY <2>2, <2>3 DEF Gone, Range
  <2>5. \A b \in DOMAIN objects : b # a => b \in DOMAIN objects' /\ objects'[b] = objects[b]
    BY <1>6
  <2>6. QED
    BY <1>1, <2>4, <2>5, OneGone DEF QueueKept
<1>7. \/ UNCHANGED objects
      \/ listed /\ objects' = [objects EXCEPT ![a] = back]
      \/ listed /\ objects' = [objects EXCEPT ![a] = left]
      \/ /\ listed /\ m_mSubcribeQueues' = Drop(m_mSubcribeQueues, {q})
         /\ \E told : DeleteAutomatically(c, q, left, told)
         /\ UNCHANGED m_mUnSubcribeQueues
  BY DEF OnCancelSubscribe, Refuse, tables
<1>8. ASSUME NEW told, DeleteAutomatically(c, q, left, told)
      PROVE  \/ objects' = Drop(objects, {a})
             \/ objects' = [objects EXCEPT ![a] = ClearMessage(left)]
  BY <1>8 DEF DeleteAutomatically
<1> HIDE DEF left, back, a, listed
<1>9. QED
  BY <1>2, <1>3, <1>5, <1>6, <1>7, <1>8

\* What waited for the ack of the client is back in its queue, or has none left.
LEMMA OnClientExitExplained ==
  ASSUME TInv, Places, IInv', NEW c, OnClientExit(c)
  PROVE  AllExplained
<1>1. PICK heap, home, awaited :
         /\ ExitHeap(c, heap, home, awaited) /\ Survivors(c, heap)
         /\ DOMAIN home = DOMAIN m_mSubcribeQueues' \cup DOMAIN m_mUnSubcribeQueues'
         /\ \A q \in DOMAIN home :
              home[q] = IF q \in DOMAIN m_mSubcribeQueues' THEN m_mSubcribeQueues'[q]
                        ELSE m_mUnSubcribeQueues'[q]
  <2>1. \E heap, home, awaited :
          /\ ExitHeap(c, heap, home, awaited) /\ Survivors(c, heap)
          /\ DOMAIN home = DOMAIN m_mSubcribeQueues' \cup DOMAIN m_mUnSubcribeQueues'
          /\ \A q \in DOMAIN home :
               home[q] = IF q \in DOMAIN m_mSubcribeQueues' THEN m_mSubcribeQueues'[q]
                         ELSE m_mUnSubcribeQueues'[q]
    BY ExitWhat
  <2>2. QED
    BY <2>1
<1> DEFINE list == m_NeedAckMessageList
<1>2. /\ ToSet(m_NeedAckMessageList') = ToSet(list) \ awaited
      /\ DOMAIN objects' = DOMAIN heap
      /\ \A a \in DOMAIN heap :
           Ids(Waiting(objects'[a])) =
             Ids(Waiting(objects[a])) \cup Ids(Returned(home, awaited, a))
  BY <1>1, ExitReturns
<1>3. \A q \in DOMAIN home : home[q] \in DOMAIN objects'
  BY <1>1 DEF IInv, QueueTablesOK, PointersOK
<1>4. ASSUME NEW id \in Leaving, id \in Queued
      PROVE  Explained(id)
  <2>1. PICK a \in DOMAIN objects : id \in Ids(Waiting(objects[a]))
    BY <1>4, QueuedIs
  <2>2. QueueKept(a)
    BY <1>2, <2>1 DEF QueueKept, Gone
  <2>3. QED
    BY <2>1, <2>2, KeptExplains
<1>5. ASSUME NEW id \in Leaving, id \in Unacked
      PROVE  Explained(id)
  <2>1. PICK e \in ToSet(list) : id = e.id
    BY <1>5 DEF Unacked
  <2>2. id \notin Unacked' /\ id \notin Queued'
    BY DEF Leaving
  <2>3. e \in awaited
    BY <1>2, <2>1, <2>2 DEF Unacked
  <2>4. e.queue \notin DOMAIN home
    <3>1. SUFFICES ASSUME e.queue \in DOMAIN home
                   PROVE  FALSE
      OBVIOUS
    <3>2. home[e.queue] \in DOMAIN heap
      BY <1>2, <1>3, <3>1
    <3>3. id \in Ids(Returned(home, awaited, home[e.queue]))
      BY <2>1, <2>3, <3>1 DEF Ids, Returned
    <3>4. id \in Queued'
      BY <1>2, <3>2, <3>3, QueuedNext
    <3>5. QED
      BY <2>2, <3>4
  <2>5. AckedOrHomeless(id)
    BY <1>1, <2>1, <2>4 DEF AckedOrHomeless
  <2>6. QED
    BY <2>5 DEF Explained
<1>6. QED
  BY <1>4, <1>5 DEF AllExplained, Leaving

LEMMA OnRecvMessageExplained ==
  ASSUME TInv, Places, NEW c, NEW q \in Queues, NEW level \in ConsumerLevels, NEW sent,
         OnRecvMessage(c, q, level, sent)
  PROVE  AllExplained
<1>1. CASE UNCHANGED <<tables, acks, dedup, loop, clients, copies>>
  BY <1>1, SameObjectsExplained DEF tables
<1>2. ASSUME NEW a, NEW e, NEW p, NEW out, Hands(a, e, p, out)
      PROVE  AllExplained
  BY <1>2, HandsExplained
<1>3. QED
  BY <1>1, <1>2, RecvHands

LEMMA LoopStepExplained ==
  ASSUME TInv, Places, LoopStep
  PROVE  AllExplained
<1>1. CASE \E sent \in Answers : PushOne(sent)
  <2>1. PICK sent : PushOne(sent)
    BY <1>1
  <2>2. PICK a, e, p, out : Hands(a, e, p, out)
    BY <2>1, PushHands
  <2>3. QED
    BY <2>2, HandsExplained
<1>2. CASE UNCHANGED <<objects, acks>>
  BY <1>2, SameObjectsExplained
<1>3. CASE \E q \in loop.todo : VisitQueue(q)
  BY <1>2, <1>3 DEF VisitQueue
<1>4. CASE QueueDrained \/ PushDone \/ ReceiveDone \/ SendMultiAck
  BY <1>2, <1>4 DEF QueueDrained, PushDone, ReceiveDone, SendMultiAck, tables
<1>5. QED
  BY <1>1, <1>3, <1>4 DEF LoopStep

LEMMA HandlerExplained ==
  ASSUME TInv, Places, IInv', Handler
  PROVE  AllExplained
<1>1. ASSUME UNCHANGED <<objects, acks>>
      PROVE  AllExplained
  BY <1>1, SameObjectsExplained
<1>2. ASSUME NEW c, NEW x, NEW kind, NEW ok, OnCreateExchange(c, x, kind, ok)
      PROVE  AllExplained
  BY <1>1, <1>2 DEF OnCreateExchange
<1>3. ASSUME NEW c, NEW x, NEW q, NEW key, NEW ok, OnCreateBinding(c, x, q, key, ok)
      PROVE  AllExplained
  BY <1>1, <1>3 DEF OnCreateBinding, Refuse, tables
<1>4. ASSUME NEW c, NEW x, NEW ok, OnDeleteExchange(c, x, ok)
      PROVE  AllExplained
  BY <1>1, <1>4 DEF OnDeleteExchange, Refuse, tables
<1>5. ASSUME NEW c \in Clients, NEW e, NEW sent \in Answers, OnClientAck(c, e.seq, sent)
      PROVE  AllExplained
  BY <1>5, OnClientAckExplained
<1>6. QED
  BY <1>2, <1>3, <1>4, <1>5, OnCreateQueueExplained, OnPublishMessageExplained,
     OnRecvMessageExplained, OnCreateSubscribeExplained, OnDeleteQueueExplained,
     OnCancelSubscribeExplained, OnClientExitExplained
     DEF Handler

\* No handler and no step of the loop lets a copy fall between the queues and
\* the list of unacknowledged messages: what leaves both was acknowledged, given
\* for good to a consumer that does not acknowledge, or went with its queue
\* (OnClientAck, PushOne, OnRecvMessage, OnDeleteQueue, OnClientExit).
THEOREM NoCopyVanishes == Spec => NothingVanishes
<1>1. ASSUME TInv, Places, TInv', [Next]_vars
      PROVE  [\A id \in (Queued \cup Unacked) \ (Queued' \cup Unacked') :
                \/ \E i \in DOMAIN toConnect' :
                     toConnect'[i].type = "push" /\ toConnect'[i].id = id /\ toConnect'[i].seq = -1
                \/ \E e \in ToSet(m_NeedAckMessageList) : e.id = id
                     /\ \/ \E c \in Clients, sent \in BOOLEAN : OnClientAck(c, e.seq, sent)
                        \/ e.queue \notin DOMAIN m_mSubcribeQueues' \cup DOMAIN m_mUnSubcribeQueues'
                \/ \E a \in DOMAIN objects : /\ id \in {e.id : e \in Waiting(objects[a])}
                                            /\ \/ a \notin DOMAIN objects'
                                               \/ a \notin Range(m_mSubcribeQueues')
                                                              \cup Range(m_mUnSubcribeQueues')
             ]_vars
  <2>1. IInv'
    BY <1>1 DEF TInv
  <2>2. CASE LoopStep
    <3>1. AllExplained
      BY <1>1, <2>2, LoopStepExplained
    <3>2. QED
      BY <3>1 DEF AllExplained, Leaving, Explained, PushedForGood, AckedOrHomeless,
                  WithItsQueue, Gone
  <2>3. CASE Handler
    <3>1. AllExplained
      BY <1>1, <2>1, <2>3, HandlerExplained
    <3>2. QED
      BY <3>1 DEF AllExplained, Leaving, Explained, PushedForGood, AckedOrHomeless,
                  WithItsQueue, Gone
  <2>4. CASE \E c \in Clients : Connect(c)
    <3>1. AllExplained
      BY <2>4, SameObjectsExplained DEF Connect, tables
    <3>2. QED
      BY <3>1 DEF AllExplained, Leaving, Explained, PushedForGood, AckedOrHomeless,
                  WithItsQueue, Gone
  <2>5. QED
    BY <1>1, <2>2, <2>3, <2>4 DEF Next
<1>2. QED
  BY <1>1, PlacesInvariant, PTL DEF Spec, NothingVanishes
=============================================================================
