------------------------------- MODULE Broker -------------------------------
(***************************************************************************)
(* LogicServer (logicServer/logicServer.cpp): the broker process.  It owns *)
(* the exchanges, the message queues and the messages waiting for a        *)
(* consumer's acknowledgement, and runs one loop: push messages to the     *)
(* subscribers, handle the packets that ConnectServer enqueued, send the   *)
(* batch acknowledgements.                                                 *)
(*                                                                         *)
(* MessageQueue objects are reached through pointers, from two maps and    *)
(* from the bindings of the exchanges, so they live in a heap, "objects",  *)
(* and an address freed may be allocated again.                            *)
(*                                                                         *)
(* toConnect and toPersis hold the packets of the latest step for the two  *)
(* shared-memory queues (ShmQueue.tla).  A push waits until LOGIC_TO_      *)
(* CONNECT has room; a reply or an acknowledgement that finds it full is   *)
(* dropped.  A full LOGIC_TO_PERSIS queue makes an Enqueue fail, which the *)
(* parameter ok (or sent) of a handler says.                               *)
(***************************************************************************)
EXTENDS TopicMatch, Integers, Sequences, FiniteSets, SequencesExt, SeqOps

CONSTANTS Exchanges,     \* names of exchanges
          Queues,        \* names of queues
          Keys,          \* binding and routing keys
          Clients,       \* client indexes: slots of ConnectServer's table
          Msgs,          \* messages a producer publishes
          MsgSeq,        \* MsgSeq[m]: iMsgSeq
          Confirm,       \* Confirm[m]: the producer's confirm level
          MsgDurable,    \* MsgDurable[m]: bDurable
          MsgPriority,   \* MsgPriority[m]: iPriority
          ExchangeKinds, \* [type, durable, autoDel] of exchanges to create
          QueueKinds,    \* [priority, durable, autoDel] of queues to create
          ConsumerLevels,\* confirm levels of consumers: 0 none, 1 .. 3
          KeyWords,      \* KeyWords[k]: what stands between the dots of k
          PersisMayFill, \* whether LOGIC_TO_PERSIS may be full
          Addresses,     \* bound: addresses of MessageQueue objects
          MaxCopies,     \* bound: message copies made
          MaxReconnects, \* bound: clients that come back
          None

\* exchange types and confirm levels (common_def/comdef.h)
EXCHANGE_TYPE_FANOUT == 1
EXCHANGE_TYPE_DIRECT == 2
EXCHANGE_TYPE_TOPIC  == 3
PRODUCER_SINGLE_ACK  == 1
PRODUCER_MUTIL_ACK   == 2

ASSUME BrokerAssumption ==
  /\ Clients \subseteq Nat
  /\ MaxCopies \in Nat /\ MaxReconnects \in Nat
  /\ MsgSeq \in [Msgs -> Nat]
  /\ Confirm \in [Msgs -> 0 .. 2]
  /\ MsgDurable \in [Msgs -> BOOLEAN]
  /\ MsgPriority \in [Msgs -> Nat]
  /\ ExchangeKinds \subseteq [type : 1 .. 3, durable : BOOLEAN, autoDel : BOOLEAN]
  /\ QueueKinds \subseteq [priority : Int, durable : BOOLEAN, autoDel : BOOLEAN]
  /\ ConsumerLevels \subseteq 0 .. 3
  /\ KeyWords \in [Keys -> Seq(STRING)]
  /\ PersisMayFill \in BOOLEAN
  /\ None \notin Queues /\ None \notin Clients

VARIABLES
  m_mExchanges,         \* name -> [type, durable, autoDel, bindings]
  m_mSubcribeQueues,    \* name -> address, for the queues with subscribers
  m_mUnSubcribeQueues,  \* name -> address, for the others
  objects,              \* address -> MessageQueue object
  m_NeedAckMessageList, \* copies sent and waiting for a consumer's ack
  m_iAckSeq,            \* number of the next message that needs an ack
  m_producerMsgSeqs,    \* <<client, iMsgSeq>> received, against duplicates
  m_producerLastMsgSeq, \* client -> latest number, for batch confirmation
  loop,                 \* where Run is: phase, queue being drained, queues left
  toConnect,            \* packets of the latest step to ConnectServer
  toPersis,             \* packets of the latest step to PersistenceServer
  online,               \* clients ConnectServer has a connection for
  reconnects,           \* bound's counter
  copies                \* message copies made so far; numbers them

tables  == <<m_mExchanges, m_mSubcribeQueues, m_mUnSubcribeQueues, objects>>
acks    == <<m_NeedAckMessageList, m_iAckSeq>>
dedup   == <<m_producerMsgSeqs, m_producerLastMsgSeq>>
clients == <<online, reconnects>>
vars    == <<m_mExchanges, m_mSubcribeQueues, m_mUnSubcribeQueues, objects,
             m_NeedAckMessageList, m_iAckSeq, m_producerMsgSeqs,
             m_producerLastMsgSeq, loop, toConnect, toPersis, online,
             reconnects, copies>>
-----------------------------------------------------------------------------
(* Maps. *)

Put(f, k, v) == [x \in DOMAIN f \cup {k} |-> IF x = k THEN v ELSE f[x]]

Drop(f, S) == [x \in DOMAIN f \ S |-> f[x]]

EmptyMap == [x \in {} |-> x]

(* Packets. *)

Reply(c, ok) == [type |-> "reply", client |-> c, ok |-> ok]
Ack(c, seq)  == [type |-> "ack", client |-> c, seq |-> seq]
Push(e)      == [type |-> "push", client |-> e.client, seq |-> e.seq, id |-> e.id]

\* A packet to the persistence layer: what happened, to which name, and the
\* durable index where a message is concerned.
Durable(type, name) == [type |-> type, name |-> name, index |-> -1]
DurableMsg(type, name, index) == [type |-> type, name |-> name, index |-> index]

If(cond, s) == IF cond THEN s ELSE <<>>

InOrder(S) == SetToSortSeq(S, <)

\* What an Enqueue to the persistence layer may return, and which of several
\* packets may have got through.
Answers == IF PersisMayFill THEN BOOLEAN ELSE {TRUE}
Through(packets) == IF PersisMayFill THEN SUBSET packets ELSE {packets}
-----------------------------------------------------------------------------
(* MessageQueue *)

NewQueue(q, kind) ==
  [name |-> q, priority |-> kind.priority, durable |-> kind.durable,
   autoDel |-> kind.autoDel, m_iConfirmLevel |-> 0, m_messagesList |-> <<>>,
   m_msgPriQueue |-> {}, m_vSubscribeConsumers |-> <<>>, m_iPushIndex |-> -1,
   m_iDurableIndex |-> 0]

IsEmpty(o) == o.m_messagesList = <<>> /\ o.m_msgPriQueue = {}

IsSubscribe(o) == o.m_vSubscribeConsumers # <<>>

\* What PopFrontMsg may take: one of the most urgent messages (the heap says
\* nothing about ties), else the first ordinary one.
FrontMsgs(o) ==
  IF o.m_msgPriQueue # {}
  THEN {e \in o.m_msgPriQueue : \A d \in o.m_msgPriQueue : d.priority <= e.priority}
  ELSE {o.m_messagesList[i] : i \in DOMAIN o.m_messagesList \cap {1}}

\* Mutant: top() without pop().
PopFrontMsgKeepsTop(o, e) ==
  IF e \in o.m_msgPriQueue THEN o ELSE [o EXCEPT !.m_messagesList = Tail(@)]

PopFrontMsg(o, e) ==
  IF e \in o.m_msgPriQueue
  THEN [o EXCEPT !.m_msgPriQueue = @ \ {e}]
  ELSE [o EXCEPT !.m_messagesList = Tail(@)]

\* The next subscriber's turn.
NextPushIndex(o) ==
  IF o.m_iPushIndex + 1 >= Len(o.m_vSubscribeConsumers) THEN 0 ELSE o.m_iPushIndex + 1

HasPriority(o, e) == o.priority > 0 /\ e.priority > 0

Capped(o, e) == [e EXCEPT !.priority = IF @ > o.priority THEN o.priority ELSE @]

Urgent(o, new)   == {Capped(o, e) : e \in {d \in ToSet(new) : HasPriority(o, d)}}
Ordinary(o, new) == Keep(new, {e \in ToSet(new) : ~HasPriority(o, e)})

\* Each of the messages new is added, in order; to the front, where they come to
\* stand in reverse.
AddMessage(o, new) ==
  [o EXCEPT !.m_msgPriQueue = @ \cup Urgent(o, new),
            !.m_messagesList = @ \o Ordinary(o, new)]

AddMessageFront(o, new) ==
  [o EXCEPT !.m_msgPriQueue = @ \cup Urgent(o, new),
            !.m_messagesList = Reverse(Ordinary(o, new)) \o @]

ClearMessage(o) == [o EXCEPT !.m_messagesList = <<>>, !.m_msgPriQueue = {}]

AddSubscribe(o, c, level) ==
  [o EXCEPT !.m_vSubscribeConsumers = IF c \in ToSet(@) THEN @ ELSE Append(@, c),
            !.m_iConfirmLevel = level]

\* Mutant: the search begins at the second consumer.
CancelSubscribeSkipsFirst(o, c) ==
  LET at == {i \in DOMAIN o.m_vSubscribeConsumers \ {1} : o.m_vSubscribeConsumers[i] = c}
  IN [o EXCEPT !.m_vSubscribeConsumers = IF at = {} THEN @ ELSE RemoveAt(@, Min(at))]

\* A client is in the list at most once.
CancelSubscribe(o, c) ==
  LET rest == RemoveFirst(o.m_vSubscribeConsumers, c) IN
  [o EXCEPT !.m_vSubscribeConsumers = rest,
            !.m_iConfirmLevel = IF rest = <<>> THEN 0 ELSE @]
-----------------------------------------------------------------------------
(* Exchange *)

NewExchange(kind) ==
  [type |-> kind.type, durable |-> kind.durable, autoDel |-> kind.autoDel,
   bindings |-> EmptyMap]

\* Mutant: the queue is added to the key's own list.
CreateBindingAppends(bindings, key, a) ==
  Put(bindings, key, Append(IF key \in DOMAIN bindings THEN bindings[key] ELSE <<>>, a))

\* For a key already bound the queue is added to a copy of the key's list, and
\* the copy is thrown away: the first queue stays the only one.
CreateBinding(bindings, key, a) ==
  IF key \in DOMAIN bindings THEN bindings ELSE Put(bindings, key, <<a>>)

\* The keys whose queues receive a message published with key.
FitKeys(x, key) ==
  CASE x.type = EXCHANGE_TYPE_DIRECT -> {key} \cap DOMAIN x.bindings
    [] x.type = EXCHANGE_TYPE_FANOUT -> DOMAIN x.bindings
    [] x.type = EXCHANGE_TYPE_TOPIC  -> {k \in DOMAIN x.bindings :
                                            IsFit(KeyWords[key], KeyWords[k])}

\* One element per copy to make: a queue bound with two fitting keys gets two.
FindBindingQueue(x, key) ==
  UNION {{<<k, a>> : a \in ToSet(x.bindings[k])} : k \in FitKeys(x, key)}

\* The queues in A are erased, one after the other, from a copy of each key's
\* list; a key whose copy ends up empty is erased from the map, the list of any
\* other key is left alone.
DeleteBindingQueue(x, A) ==
  [x EXCEPT !.bindings = Drop(@, {k \in DOMAIN @ : \E a \in A : ToSet(@[k]) \subseteq {a}})]

\* An exchange left without bindings, when it is deleted automatically.
DiesWith(n, A) ==
  LET x == m_mExchanges[n] IN
  /\ DOMAIN x.bindings # {}
  /\ DOMAIN DeleteBindingQueue(x, A).bindings = {}
  /\ x.autoDel

\* m_mExchanges once the loop over the exchanges ns has unbound the queues A.
Unbind(ns, A) ==
  [n \in DOMAIN m_mExchanges \ {d \in ns : DiesWith(d, A)} |->
     IF n \in ns THEN DeleteBindingQueue(m_mExchanges[n], A) ELSE m_mExchanges[n]]

\* The exchanges among ns whose deletion the persistence layer is told of.
DurableDead(ns, A) == {n \in ns : DiesWith(n, A) /\ m_mExchanges[n].durable}
-----------------------------------------------------------------------------
Init ==
  /\ m_mExchanges = EmptyMap
  /\ m_mSubcribeQueues = EmptyMap
  /\ m_mUnSubcribeQueues = EmptyMap
  /\ objects = EmptyMap
  /\ m_NeedAckMessageList = <<>>
  /\ m_iAckSeq = 0
  /\ m_producerMsgSeqs = {}
  /\ m_producerLastMsgSeq = EmptyMap
  /\ loop = [phase |-> "push", cur |-> None, todo |-> {}]
  /\ toConnect = <<>>
  /\ toPersis = <<>>
  /\ online = Clients
  /\ reconnects = 0
  /\ copies = 0

(* The names in the two maps. *)

\* Mutant: the subscribed queues are not looked at.
NamedUnsubscribed(q) == q \in DOMAIN m_mUnSubcribeQueues

Named(q) == q \in DOMAIN m_mSubcribeQueues \/ q \in DOMAIN m_mUnSubcribeQueues

QueueOf(q) == IF q \in DOMAIN m_mSubcribeQueues THEN m_mSubcribeQueues[q]
              ELSE m_mUnSubcribeQueues[q]

FreeAddresses == Addresses \ DOMAIN objects
-----------------------------------------------------------------------------
(* Run: one round of the loop.  First PushMessage goes over the subscribed  *)
(* queues, in the map's own order, and empties each of them.                *)

\* Mutant: all the queues.
RoundQueuesAll == DOMAIN m_mSubcribeQueues \cup DOMAIN m_mUnSubcribeQueues

\* Mutant: the round ends with its first queue.
RoundQueuesFirst ==
  {q \in DOMAIN m_mSubcribeQueues : q = CHOOSE d \in DOMAIN m_mSubcribeQueues : TRUE}

\* The queues a round of PushMessage goes over.
RoundQueues == DOMAIN m_mSubcribeQueues

\* The entry at the iterator.  A queue whose last subscriber is gone goes to
\* the other map; as the iterator has moved on by then, it is the entry after
\* it that is erased, and there is none after the last one: the process dies.
VisitQueue(q) ==
  /\ loop.phase = "push" /\ loop.cur = None /\ q \in loop.todo
  /\ \/ /\ IsSubscribe(objects[m_mSubcribeQueues[q]])
        /\ loop' = [loop EXCEPT !.cur = q, !.todo = @ \ {q}]
        /\ UNCHANGED <<m_mSubcribeQueues, m_mUnSubcribeQueues>>
     \/ /\ ~IsSubscribe(objects[m_mSubcribeQueues[q]])
        /\ \/ \E next \in loop.todo \ {q} :
                /\ m_mSubcribeQueues' = Drop(m_mSubcribeQueues, {next})
                /\ m_mUnSubcribeQueues' = Put(m_mUnSubcribeQueues, q, m_mSubcribeQueues[q])
                /\ loop' = [loop EXCEPT !.todo = @ \ {q, next}]
           \/ /\ loop.todo = {q}
              /\ loop' = [loop EXCEPT !.phase = "dead"]
              /\ UNCHANGED <<m_mSubcribeQueues, m_mUnSubcribeQueues>>
  /\ toConnect' = <<>> /\ toPersis' = <<>>
  /\ UNCHANGED <<m_mExchanges, objects, acks, dedup, clients, copies>>

\* One message of the current queue to the subscriber whose turn it is.
PushOne(sent) ==
  LET a == m_mSubcribeQueues[loop.cur]
      o == objects[a]
      i == NextPushIndex(o)
      awaited == o.m_iConfirmLevel > 0
  IN
  /\ loop.phase = "push" /\ loop.cur # None
  /\ ~IsEmpty(o)
  /\ \E e \in FrontMsgs(o) :
       LET pushed == [e EXCEPT !.client = o.m_vSubscribeConsumers[i + 1],
                               !.seq = IF awaited THEN m_iAckSeq ELSE -1,
                               !.queue = IF awaited THEN o.name ELSE @]
       IN /\ objects' = [objects EXCEPT ![a] = [PopFrontMsg(o, e) EXCEPT !.m_iPushIndex = i]]
          /\ m_NeedAckMessageList' = m_NeedAckMessageList \o If(awaited, <<pushed>>)
          /\ toConnect' = <<Push(pushed)>>
          /\ toPersis' = If(~awaited /\ e.durable /\ sent,
                            <<DurableMsg("consume", o.name, e.index)>>)
  /\ m_iAckSeq' = IF awaited THEN m_iAckSeq + 1 ELSE m_iAckSeq
  /\ UNCHANGED <<m_mExchanges, m_mSubcribeQueues, m_mUnSubcribeQueues, dedup,
                 loop, clients, copies>>

\* Nothing left in the current queue.
QueueDrained ==
  /\ loop.phase = "push" /\ loop.cur # None
  /\ IsEmpty(objects[m_mSubcribeQueues[loop.cur]])
  /\ loop' = [loop EXCEPT !.cur = None]
  /\ toConnect' = <<>> /\ toPersis' = <<>>
  /\ UNCHANGED <<tables, acks, dedup, clients, copies>>

PushDone ==
  /\ loop.phase = "push" /\ loop.cur = None /\ loop.todo = {}
  /\ loop' = [loop EXCEPT !.phase = "receive"]
  /\ toConnect' = <<>> /\ toPersis' = <<>>
  /\ UNCHANGED <<tables, acks, dedup, clients, copies>>

\* The ring is empty, or 800 packets have been handled.
ReceiveDone ==
  /\ loop.phase = "receive"
  /\ loop' = [loop EXCEPT !.phase = "acks"]
  /\ toConnect' = <<>> /\ toPersis' = <<>>
  /\ UNCHANGED <<tables, acks, dedup, clients, copies>>

\* The iterator is never advanced: with a producer in the map the loop sends
\* the acknowledgement of the first one for ever and the map is never cleared.
SendMultiAck ==
  /\ loop.phase = "acks"
  /\ \/ /\ DOMAIN m_producerLastMsgSeq = {}
        /\ loop' = [phase |-> "push", cur |-> None, todo |-> RoundQueues]
        /\ toConnect' = <<>>
     \/ /\ DOMAIN m_producerLastMsgSeq # {}
        /\ LET first == CHOOSE c \in DOMAIN m_producerLastMsgSeq : TRUE
           IN  toConnect' = <<Ack(first, m_producerLastMsgSeq[first])>>
        /\ UNCHANGED loop
  /\ toPersis' = <<>>
  /\ UNCHANGED <<tables, acks, dedup, clients, copies>>
-----------------------------------------------------------------------------
(* The handlers ProcessRecvData dispatches to.  Each begins with Receive:   *)
(* the loop took a packet of client c, whose connection is still open.      *)

Receive(c) == loop.phase = "receive" /\ c \in online

Refuse(c) == /\ toConnect' = <<Reply(c, FALSE)>>
             /\ toPersis' = <<>>
             /\ UNCHANGED tables

OnCreateExchange(c, x, kind, ok) ==
  /\ Receive(c)
  /\ \/ /\ x \in DOMAIN m_mExchanges
        /\ toConnect' = <<Reply(c, TRUE)>> /\ toPersis' = <<>>
        /\ UNCHANGED m_mExchanges
     \/ /\ x \notin DOMAIN m_mExchanges
        /\ m_mExchanges' = Put(m_mExchanges, x, NewExchange(kind))
        /\ toConnect' = <<Reply(c, kind.durable => ok)>>
        /\ toPersis' = If(kind.durable /\ ok, <<Durable("create exchange", x)>>)
  /\ UNCHANGED <<m_mSubcribeQueues, m_mUnSubcribeQueues, objects, acks, dedup,
                 loop, clients, copies>>

OnCreateQueue(c, q, kind, ok) ==
  /\ Receive(c)
  /\ \/ /\ Named(q)
        /\ toConnect' = <<Reply(c, TRUE)>> /\ toPersis' = <<>>
        /\ UNCHANGED <<m_mUnSubcribeQueues, objects>>
     \/ /\ ~Named(q)
        /\ \E a \in FreeAddresses :
           /\ objects' = Put(objects, a, NewQueue(q, kind))
           /\ m_mUnSubcribeQueues' = Put(m_mUnSubcribeQueues, q, a)
        /\ toConnect' = <<Reply(c, kind.durable => ok)>>
        /\ toPersis' = If(kind.durable /\ ok, <<Durable("create queue", q)>>)
  /\ UNCHANGED <<m_mExchanges, m_mSubcribeQueues, acks, dedup, loop, clients, copies>>

OnCreateBinding(c, x, q, key, ok) ==
  /\ Receive(c)
  /\ \/ /\ x \notin DOMAIN m_mExchanges \/ ~Named(q)
        /\ Refuse(c)
     \/ /\ x \in DOMAIN m_mExchanges /\ Named(q)
        /\ LET durable == m_mExchanges[x].durable IN
           /\ m_mExchanges' =
                [m_mExchanges EXCEPT ![x].bindings = CreateBinding(@, key, QueueOf(q))]
           /\ toConnect' = <<Reply(c, durable => ok)>>
           /\ toPersis' = If(durable /\ ok, <<Durable("bindings", x)>>)
        /\ UNCHANGED <<m_mSubcribeQueues, m_mUnSubcribeQueues, objects>>
  /\ UNCHANGED <<acks, dedup, loop, clients, copies>>

\* The copies a publish makes, one for each element of targets.
NewCopies(m, targets) ==
  [i \in DOMAIN targets |->
     LET o == objects[targets[i][2]]
         stored == MsgDurable[m] /\ o.durable
     IN  [id |-> copies + i, priority |-> MsgPriority[m], durable |-> MsgDurable[m],
          index |-> IF stored
                    THEN o.m_iDurableIndex
                           + Cardinality({j \in 1 .. i - 1 : targets[j][2] = targets[i][2]})
                    ELSE -1,
          queue |-> IF stored THEN o.name ELSE None,
          client |-> None, seq |-> -1]]

\* Object a with those of the new copies that are meant for it.
Filled(a, targets, new) ==
  LET mine == Keep(new, {e \in ToSet(new) : targets[e.id - copies][2] = a})
  IN  [AddMessage(objects[a], mine) EXCEPT
         !.m_iDurableIndex =
           @ + Cardinality({i \in DOMAIN mine : mine[i].index # -1})]

\* A message already received is acknowledged again, but that packet is sent
\* without the client's index (-1 is nobody's).
OnPublishMessage(c, x, key, m) ==
  LET targets == IF x \in DOMAIN m_mExchanges
                 THEN SetToSeq(FindBindingQueue(m_mExchanges[x], key))
                 ELSE <<>>
      new     == NewCopies(m, targets)
      toStore == {i \in DOMAIN new : new[i].index # -1}
      seen    == <<c, MsgSeq[m]>>
  IN
  /\ Receive(c)
  /\ \/ /\ Confirm[m] > 0 /\ seen \in m_producerMsgSeqs
        /\ toConnect' = <<Ack(-1, MsgSeq[m])>> /\ toPersis' = <<>>
        /\ UNCHANGED <<tables, dedup, copies>>
     \/ /\ ~(Confirm[m] > 0 /\ seen \in m_producerMsgSeqs)
        /\ targets = <<>>
        /\ Refuse(c)
        /\ UNCHANGED <<dedup, copies>>
     \/ /\ ~(Confirm[m] > 0 /\ seen \in m_producerMsgSeqs)
        /\ targets # <<>>
        /\ copies + Len(targets) <= MaxCopies
        /\ objects' = [a \in DOMAIN objects |-> Filled(a, targets, new)]
        /\ copies' = copies + Len(targets)
        /\ \E sent \in Through(toStore) :
             toPersis' = [i \in 1 .. Cardinality(sent) |->
                            LET e == new[InOrder(sent)[i]]
                            IN  DurableMsg("publish", e.queue, e.index)]
        /\ toConnect' = If(Confirm[m] = PRODUCER_SINGLE_ACK, <<Ack(c, MsgSeq[m])>>)
        /\ m_producerMsgSeqs' =
             IF Confirm[m] > 0 THEN m_producerMsgSeqs \cup {seen} ELSE m_producerMsgSeqs
        /\ m_producerLastMsgSeq' =
             IF Confirm[m] = PRODUCER_MUTIL_ACK
             THEN Put(m_producerLastMsgSeq, c, MsgSeq[m]) ELSE m_producerLastMsgSeq
        /\ UNCHANGED <<m_mExchanges, m_mSubcribeQueues, m_mUnSubcribeQueues>>
  /\ UNCHANGED <<acks, loop, clients>>

\* A consumer pulls one message.
OnRecvMessage(c, q, level, sent) ==
  /\ Receive(c)
  /\ \/ /\ Named(q) => IsEmpty(objects[QueueOf(q)])
        /\ Refuse(c)
        /\ UNCHANGED acks
     \/ /\ Named(q)
        /\ LET a == QueueOf(q) IN \E e \in FrontMsgs(objects[a]) :
             LET handed == [e EXCEPT !.client = c,
                                     !.seq = IF level > 0 THEN m_iAckSeq ELSE -1,
                                     !.queue = IF level > 0 THEN q ELSE @]
             IN /\ objects' = [objects EXCEPT ![a] = PopFrontMsg(@, e)]
                /\ m_NeedAckMessageList' = m_NeedAckMessageList \o If(level > 0, <<handed>>)
                /\ m_iAckSeq' = IF level > 0 THEN m_iAckSeq + 1 ELSE m_iAckSeq
                /\ toConnect' = <<Push(handed)>>
                /\ toPersis' = If(level = 0 /\ e.durable /\ sent,
                                  <<DurableMsg("consume", q, e.index)>>)
        /\ UNCHANGED <<m_mExchanges, m_mSubcribeQueues, m_mUnSubcribeQueues>>
  /\ UNCHANGED <<dedup, loop, clients, copies>>

OnCreateSubscribe(c, q, level, ok) ==
  /\ Receive(c)
  /\ \/ /\ ~Named(q)
        /\ Refuse(c)
     \/ /\ Named(q)
        /\ LET a   == QueueOf(q)
               o   == AddSubscribe(objects[a], c, level)
           IN \/ /\ o.durable => ok
                 /\ objects' = [objects EXCEPT ![a] = o]
                 /\ m_mUnSubcribeQueues' = Drop(m_mUnSubcribeQueues, {q})
                 /\ m_mSubcribeQueues' =
                      IF q \in DOMAIN m_mUnSubcribeQueues
                      THEN Put(m_mSubcribeQueues, q, a) ELSE m_mSubcribeQueues
                 /\ toConnect' = <<Reply(c, TRUE)>>
                 /\ toPersis' = If(o.durable, <<Durable("subscribers", q)>>)
              \/ /\ o.durable /\ ~ok
                 /\ objects' = [objects EXCEPT ![a] = CancelSubscribe(o, c)]
                 /\ toConnect' = <<Reply(c, FALSE)>> /\ toPersis' = <<>>
                 /\ UNCHANGED <<m_mSubcribeQueues, m_mUnSubcribeQueues>>
        /\ UNCHANGED m_mExchanges
  /\ UNCHANGED <<acks, dedup, loop, clients, copies>>

OnDeleteExchange(c, x, ok) ==
  /\ Receive(c)
  /\ \/ /\ x \in DOMAIN m_mExchanges => m_mExchanges[x].durable /\ ~ok
        /\ Refuse(c)
     \/ /\ x \in DOMAIN m_mExchanges
        /\ m_mExchanges[x].durable => ok
        /\ toPersis' = If(m_mExchanges[x].durable, <<Durable("delete exchange", x)>>)
        /\ m_mExchanges' = Drop(m_mExchanges, {x})
        /\ toConnect' = <<Reply(c, TRUE)>>
        /\ UNCHANGED <<m_mSubcribeQueues, m_mUnSubcribeQueues, objects>>
  /\ UNCHANGED <<acks, dedup, loop, clients, copies>>

\* The name is forgotten before the persistence layer is told; when that fails
\* the object and its bindings stay, out of anybody's reach.
OnDeleteQueue(c, q, ok) ==
  /\ Receive(c)
  /\ \/ /\ ~Named(q)
        /\ Refuse(c)
     \/ /\ Named(q)
        /\ m_mSubcribeQueues' = Drop(m_mSubcribeQueues, {q})
        /\ m_mUnSubcribeQueues' = Drop(m_mUnSubcribeQueues, {q})
        /\ LET a == QueueOf(q) IN
           \/ /\ objects[a].durable => ok
              /\ m_mExchanges' = Unbind(DOMAIN m_mExchanges, {a})
              /\ objects' = Drop(objects, {a})
              /\ toConnect' = <<Reply(c, TRUE)>>
              /\ toPersis' = If(objects[a].durable, <<Durable("delete queue", q)>>)
           \/ /\ objects[a].durable /\ ~ok
              /\ toConnect' = <<Reply(c, FALSE)>> /\ toPersis' = <<>>
              /\ UNCHANGED <<m_mExchanges, objects>>
  /\ UNCHANGED <<acks, dedup, loop, clients, copies>>

\* The queue loses its last subscriber and is deleted with it: unbound from one
\* exchange after another, then the persistence layer is told, then freed.  An
\* exchange or queue that layer cannot be told of ends the handler there, the
\* queue already out of the maps.
DeleteAutomatically(c, q, o, told) ==
  LET a == m_mSubcribeQueues[q]
      Deletions(ns) ==
        told \o SetToSeq({Durable("delete exchange", n) : n \in DurableDead(ns, {a})})
  IN
  \/ /\ m_mExchanges' = Unbind(DOMAIN m_mExchanges, {a})
     /\ \/ /\ objects' = Drop(objects, {a})
           /\ toConnect' = <<Reply(c, TRUE)>>
           /\ toPersis' = Deletions(DOMAIN m_mExchanges)
                             \o If(o.durable, <<Durable("delete queue", q)>>)
        \/ /\ o.durable /\ FALSE \in Answers
           /\ objects' = [objects EXCEPT ![a] = ClearMessage(o)]
           /\ toConnect' = <<Reply(c, FALSE)>>
           /\ toPersis' = Deletions(DOMAIN m_mExchanges)
  \/ \E before \in SUBSET DOMAIN m_mExchanges :
       \E n \in DurableDead(DOMAIN m_mExchanges \ before, {a}) :
         /\ FALSE \in Answers
         /\ m_mExchanges' = [Unbind(before, {a}) EXCEPT ![n] = DeleteBindingQueue(@, {a})]
         /\ objects' = [objects EXCEPT ![a] = ClearMessage(o)]
         /\ toConnect' = <<Reply(c, FALSE)>>
         /\ toPersis' = Deletions(before)

\* The queue leaves the map of subscribed queues whoever is still subscribed.
OnCancelSubscribe(c, q) ==
  LET a    == m_mSubcribeQueues[q]
      o    == objects[a]
      left == CancelSubscribe(o, c)
      told == If(o.durable, <<Durable("subscribers", q)>>)
      listed == q \in DOMAIN m_mSubcribeQueues \ DOMAIN m_mUnSubcribeQueues
  IN
  /\ Receive(c)
  /\ \/ ~listed /\ Refuse(c)
     \/ /\ listed /\ o.durable /\ FALSE \in Answers
        /\ objects' = [objects EXCEPT ![a] = AddSubscribe(left, c, o.m_iConfirmLevel)]
        /\ toConnect' = <<Reply(c, FALSE)>> /\ toPersis' = <<>>
        /\ UNCHANGED <<m_mExchanges, m_mSubcribeQueues, m_mUnSubcribeQueues>>
     \/ /\ listed /\ (IsSubscribe(left) \/ ~o.autoDel)
        /\ objects' = [objects EXCEPT ![a] = left]
        /\ m_mSubcribeQueues' = Drop(m_mSubcribeQueues, {q})
        /\ m_mUnSubcribeQueues' = IF IsSubscribe(left) THEN m_mUnSubcribeQueues
                                  ELSE Put(m_mUnSubcribeQueues, q, a)
        /\ toConnect' = <<Reply(c, TRUE)>> /\ toPersis' = told
        /\ UNCHANGED m_mExchanges
     \/ /\ listed /\ ~IsSubscribe(left) /\ o.autoDel
        /\ m_mSubcribeQueues' = Drop(m_mSubcribeQueues, {q})
        /\ DeleteAutomatically(c, q, left, told)
        /\ UNCHANGED m_mUnSubcribeQueues
  /\ UNCHANGED <<acks, dedup, loop, clients, copies>>

\* A client acknowledges number s; whether it was sent to this client is not
\* looked at.  The test of the level is always true, so level 3 (batch) removes
\* one message like the others.
OnClientAck(c, s, sent) ==
  LET waiting == {i \in DOMAIN m_NeedAckMessageList : m_NeedAckMessageList[i].seq = s}
      i == Min(waiting)
      e == m_NeedAckMessageList[i]
  IN
  /\ Receive(c)
  /\ waiting # {}
  /\ m_NeedAckMessageList' = RemoveAt(m_NeedAckMessageList, i)
  /\ toConnect' = <<>>
  /\ toPersis' = If(e.durable /\ sent, <<DurableMsg("consume", e.queue, e.index)>>)
  /\ UNCHANGED <<tables, m_iAckSeq, dedup, loop, clients, copies>>

\* "c#seq" is compared with the decimal index of the client that exits, as a
\* prefix: client 12's numbers go when client 1 exits.
DecimalPrefix(c, d) == d = c \/ (c > 0 /\ \E k \in 1 .. 3 : d \div 10^k = c)

\* Mutant: only the first consumer of a queue is looked at.
SubscriptionsFirst(c) ==
  {q \in DOMAIN m_mSubcribeQueues :
     LET o == objects[m_mSubcribeQueues[q]]
     IN  IsSubscribe(o) /\ Head(o.m_vSubscribeConsumers) = c}

\* The subscribed queues client c is a consumer of.
Subscriptions(c) ==
  {q \in DOMAIN m_mSubcribeQueues :
     c \in ToSet(objects[m_mSubcribeQueues[q]].m_vSubscribeConsumers)}

\* Mutant: one message is put back, like one message is acknowledged.
PutBackOne(heap, home, messages) ==
  IF messages = <<>> THEN heap
  ELSE LET e == Head(messages)
       IN IF e.queue \in DOMAIN home
          THEN [heap EXCEPT ![home[e.queue]] = AddMessageFront(@, <<e>>)] ELSE heap

\* heap, with the messages back at the front of the queues home knows by name,
\* one by one: their order is reversed.  Messages of other queues are dropped.
PutBack(heap, home, messages) ==
  [a \in DOMAIN heap |->
     AddMessageFront(heap[a], Keep(messages, {e \in ToSet(messages) :
       e.queue \in DOMAIN home /\ home[e.queue] = a}))]

\* Client c is gone (CMD_CLIENT_EXIT, made up by ConnectServer; it may come
\* twice).  m_producerLastMsgSeq keeps its entry.
OnClientExit(c) ==
  LET mine   == Subscriptions(c)
      Left(q) == CancelSubscribe(objects[m_mSubcribeQueues[q]], c)
      last   == {q \in mine : ~IsSubscribe(Left(q))}
      dying  == {q \in last : Left(q).autoDel}
      dead   == {m_mSubcribeQueues[q] : q \in dying}
      heap   == [a \in DOMAIN objects \ dead |->
                   IF \E q \in mine : m_mSubcribeQueues[q] = a
                   THEN CancelSubscribe(objects[a], c) ELSE objects[a]]
      sub    == Drop(m_mSubcribeQueues, last)
      unsub  == [q \in DOMAIN m_mUnSubcribeQueues \cup (last \ dying) |->
                   IF q \in last \ dying THEN m_mSubcribeQueues[q]
                   ELSE m_mUnSubcribeQueues[q]]
      home   == [q \in DOMAIN sub \cup DOMAIN unsub |->
                   IF q \in DOMAIN sub THEN sub[q] ELSE unsub[q]]
      awaited == {e \in ToSet(m_NeedAckMessageList) : e.client = c}
      Told(type, names) == {Durable(type, n) : n \in names}
      DurableOf(names) == {q \in names : Left(q).durable}
      subscribers == Told("subscribers", DurableOf(mine))
      exchanges   == Told("delete exchange", DurableDead(DOMAIN m_mExchanges, dead))
      queues      == Told("delete queue", DurableOf(dying))
  IN
  /\ loop.phase = "receive"
  /\ m_producerMsgSeqs' = {p \in m_producerMsgSeqs : ~DecimalPrefix(c, p[1])}
  /\ m_mSubcribeQueues' = sub
  /\ m_mUnSubcribeQueues' = unsub
  /\ m_mExchanges' = Unbind(DOMAIN m_mExchanges, dead)
  /\ objects' = PutBack(heap, home, Keep(m_NeedAckMessageList, awaited))
  /\ m_NeedAckMessageList' = Keep(m_NeedAckMessageList, ToSet(m_NeedAckMessageList) \ awaited)
  /\ online' = online \ {c}
  /\ toConnect' = <<>>
  /\ \E sent \in Through(subscribers \cup exchanges \cup queues) :
       toPersis' = SetToSeq(sent \cap subscribers) \o SetToSeq(sent \cap exchanges)
                     \o SetToSeq(sent \cap queues)
  /\ UNCHANGED <<m_iAckSeq, m_producerLastMsgSeq, loop, reconnects, copies>>

\* ConnectServer gives the index to a new connection.
Connect(c) ==
  /\ c \notin online /\ reconnects < MaxReconnects
  /\ online' = online \cup {c}
  /\ reconnects' = reconnects + 1
  /\ toConnect' = <<>> /\ toPersis' = <<>>
  /\ UNCHANGED <<tables, acks, dedup, loop, copies>>
-----------------------------------------------------------------------------
\* The steps of the loop itself, which nobody has to ask for.
LoopStep ==
  \/ \E q \in loop.todo : VisitQueue(q)
  \/ \E sent \in Answers : PushOne(sent)
  \/ QueueDrained
  \/ PushDone
  \/ ReceiveDone
  \/ SendMultiAck

Handler ==
  \/ \E c \in Clients, x \in Exchanges, kind \in ExchangeKinds, ok \in Answers :
       OnCreateExchange(c, x, kind, ok)
  \/ \E c \in Clients, q \in Queues, kind \in QueueKinds, ok \in Answers :
       OnCreateQueue(c, q, kind, ok)
  \/ \E c \in Clients, x \in Exchanges, q \in Queues, key \in Keys, ok \in Answers :
       OnCreateBinding(c, x, q, key, ok)
  \/ \E c \in Clients, x \in Exchanges, key \in Keys, m \in Msgs :
       OnPublishMessage(c, x, key, m)
  \/ \E c \in Clients, q \in Queues, level \in ConsumerLevels, sent \in Answers :
       OnRecvMessage(c, q, level, sent)
  \/ \E c \in Clients, q \in Queues, level \in ConsumerLevels, ok \in Answers :
       OnCreateSubscribe(c, q, level, ok)
  \/ \E c \in Clients, x \in Exchanges, ok \in Answers : OnDeleteExchange(c, x, ok)
  \/ \E c \in Clients, q \in Queues, ok \in Answers : OnDeleteQueue(c, q, ok)
  \/ \E c \in Clients, q \in Queues : OnCancelSubscribe(c, q)
  \/ \E c \in Clients, sent \in Answers :
       \E e \in ToSet(m_NeedAckMessageList) : OnClientAck(c, e.seq, sent)
  \/ \E c \in Clients : OnClientExit(c)

Next == LoopStep \/ Handler \/ \E c \in Clients : Connect(c)

Spec == Init /\ [][Next]_vars

\* The loop runs on its own: a step of it that can be taken is taken.
FairSpec == Spec /\ WF_vars(LoopStep)
-----------------------------------------------------------------------------
(* Properties. *)

Message ==
  [id : 1 .. MaxCopies, priority : Nat, durable : BOOLEAN, index : Nat \cup {-1},
   queue : Queues \cup {None}, client : Clients \cup {None}, seq : Nat \cup {-1}]

MessageQueueType ==
  [name : Queues, priority : Int, durable : BOOLEAN, autoDel : BOOLEAN,
   m_iConfirmLevel : ConsumerLevels \cup {0}, m_messagesList : Seq(Message),
   m_msgPriQueue : SUBSET Message, m_vSubscribeConsumers : Seq(Clients),
   m_iPushIndex : Nat \cup {-1}, m_iDurableIndex : Nat]

PartialMap(S, T) == UNION {[D -> T] : D \in SUBSET S}

\* Type invariant of the broker's state; the loop's position names a queue that
\* the map of subscribed queues has.
TypeOK ==
  /\ DOMAIN m_mExchanges \subseteq Exchanges
  /\ \A n \in DOMAIN m_mExchanges :
       /\ m_mExchanges[n].type \in 1 .. 3
       /\ m_mExchanges[n].durable \in BOOLEAN /\ m_mExchanges[n].autoDel \in BOOLEAN
       /\ DOMAIN m_mExchanges[n].bindings \subseteq Keys
       /\ \A k \in DOMAIN m_mExchanges[n].bindings :
            m_mExchanges[n].bindings[k] \in Seq(Addresses)
  /\ m_mSubcribeQueues \in PartialMap(Queues, Addresses)
  /\ m_mUnSubcribeQueues \in PartialMap(Queues, Addresses)
  /\ DOMAIN objects \subseteq Addresses
  /\ \A a \in DOMAIN objects : objects[a] \in MessageQueueType
  /\ m_NeedAckMessageList \in Seq(Message)
  /\ m_iAckSeq \in Nat
  /\ m_producerMsgSeqs \subseteq Clients \X Nat
  /\ DOMAIN m_producerLastMsgSeq \subseteq Clients
  /\ \A c \in DOMAIN m_producerLastMsgSeq : m_producerLastMsgSeq[c] \in Nat
  /\ loop.phase \in {"push", "receive", "acks", "dead"}
  /\ loop.cur \in DOMAIN m_mSubcribeQueues \cup {None}
  /\ loop.todo \subseteq DOMAIN m_mSubcribeQueues
  /\ online \subseteq Clients
  /\ reconnects \in 0 .. MaxReconnects /\ copies \in 0 .. MaxCopies

\* Every pointer the broker keeps, in its two maps of queues and in the lists of
\* its exchanges, is to an object that has not been deleted: whatever handler
\* deletes a queue, and wherever that handler returns early, no binding and no
\* name of it is left (OnDeleteQueue, OnCancelSubscribe, OnClientExit).
NoDangling ==
  /\ Range(m_mSubcribeQueues) \cup Range(m_mUnSubcribeQueues) \subseteq DOMAIN objects
  /\ \A n \in DOMAIN m_mExchanges : \A k \in DOMAIN m_mExchanges[n].bindings :
       ToSet(m_mExchanges[n].bindings[k]) \subseteq DOMAIN objects

\* A name stands for one object: the maps agree on it where both have it, and
\* the object at an address is the one that was created under the name.
OneObjectPerName ==
  /\ \A q \in DOMAIN m_mSubcribeQueues : objects[m_mSubcribeQueues[q]].name = q
  /\ \A q \in DOMAIN m_mUnSubcribeQueues : objects[m_mUnSubcribeQueues[q]].name = q
  /\ \A q \in DOMAIN m_mSubcribeQueues \cap DOMAIN m_mUnSubcribeQueues :
       m_mSubcribeQueues[q] = m_mUnSubcribeQueues[q]

\* A queue that the map of unsubscribed queues has, which PushMessage never
\* visits, has no subscriber, also after a subscription that failed half-way.
UnsubMeansNone ==
  \A q \in DOMAIN m_mUnSubcribeQueues : ~IsSubscribe(objects[m_mUnSubcribeQueues[q]])

Waiting(o) == ToSet(o.m_messagesList) \cup o.m_msgPriQueue

\* Ids of the copies the broker holds, in queues and waiting for an ack.
Queued == {e.id : e \in UNION {Waiting(o) : o \in Range(objects)}}
Unacked == {e.id : e \in ToSet(m_NeedAckMessageList)}

\* A copy is in one place: no two queues, no two positions of a queue and no
\* two entries of the list of unacknowledged messages hold it, and one that
\* waits for an ack is in no queue; the numbers under which the consumers
\* acknowledge are used once, in the order of the list.
UnackedOnce ==
  /\ \A a, b \in DOMAIN objects : a # b =>
       {e.id : e \in Waiting(objects[a])} \cap {e.id : e \in Waiting(objects[b])} = {}
  /\ \A a \in DOMAIN objects :
       Cardinality({e.id : e \in Waiting(objects[a])})
         = Len(objects[a].m_messagesList) + Cardinality(objects[a].m_msgPriQueue)
  /\ Queued \cap Unacked = {}
  /\ Cardinality(Unacked) = Len(m_NeedAckMessageList)
  /\ \A i, j \in DOMAIN m_NeedAckMessageList : i < j =>
       m_NeedAckMessageList[i].seq < m_NeedAckMessageList[j].seq
  /\ \A e \in ToSet(m_NeedAckMessageList) : e.seq \in 0 .. m_iAckSeq - 1

\* Once its exit has been handled, and until its index is given to somebody
\* else, client c gets no message any more: it has no subscription of a queue
\* that has a name, no message waits for its ack, and m_producerMsgSeqs has none
\* of its numbers (OnClientExit).  Its latest number for batch confirmation,
\* m_producerLastMsgSeq, does stay, and SendMultiAck confirms it to the index,
\* whoever has that by then: of this map the property says nothing.
ExitEndsDelivery ==
  \A c \in Clients \ online :
    /\ \A q \in Queues : Named(q) => c \notin ToSet(objects[QueueOf(q)].m_vSubscribeConsumers)
    /\ \A e \in ToSet(m_NeedAckMessageList) : e.client # c
    /\ \A p \in m_producerMsgSeqs : p[1] # c

\* A copy the broker holds leaves it only by a consumer's ack, by a push or an
\* answer to a consumer that does not acknowledge, or with its queue: deleted,
\* or no longer in the maps, be it that its deletion failed or that a consumer
\* exits without acknowledging.
NothingVanishes ==
  [][\A id \in (Queued \cup Unacked) \ (Queued' \cup Unacked') :
       \/ \E i \in DOMAIN toConnect' :
            toConnect'[i].type = "push" /\ toConnect'[i].id = id /\ toConnect'[i].seq = -1
       \/ \E e \in ToSet(m_NeedAckMessageList) : e.id = id
            /\ \/ \E c \in Clients, sent \in BOOLEAN : OnClientAck(c, e.seq, sent)
               \/ e.queue \notin DOMAIN m_mSubcribeQueues' \cup DOMAIN m_mUnSubcribeQueues'
       \/ \E a \in DOMAIN objects : /\ id \in {e.id : e \in Waiting(objects[a])}
                                   /\ \/ a \notin DOMAIN objects'
                                      \/ a \notin Range(m_mSubcribeQueues')
                                                     \cup Range(m_mUnSubcribeQueues')
    ]_vars

\* Where the loop can no longer serve anybody: dead, or in SendMultiAck for ever.
Wedged == loop.phase = "dead" \/ DOMAIN m_producerLastMsgSeq # {}

\* As long as the loop is not wedged, the messages of a subscribed queue are
\* pushed to its subscribers: every message that waits in a listed queue leaves
\* it, or the queue loses its place or its subscribers first (PushMessage).
Drains ==
  \A q \in Queues :
    LET Served == q \in DOMAIN m_mSubcribeQueues /\ IsSubscribe(objects[m_mSubcribeQueues[q]])
    IN (Served /\ ~IsEmpty(objects[m_mSubcribeQueues[q]]))
         ~> (Wedged \/ ~Served \/ IsEmpty(objects[m_mSubcribeQueues[q]]))

\* README: the messages of a queue are shared out among its consumers.  A queue
\* with a consumer online and a message gets rid of one of them, unless it is
\* deleted or the loop is wedged.
SubscribersServed ==
  \A a \in Addresses :
    LET Owes == /\ a \in DOMAIN objects
                /\ ToSet(objects[a].m_vSubscribeConsumers) \cap online # {}
                /\ ~IsEmpty(objects[a])
    IN Owes ~> (~Owes \/ Wedged)

\* SendMultiAck's comments: the batch confirmations are sent and the set is
\* emptied, so that the loop comes round to pushing again and again.
LoopComesRound == []<>(loop.phase = "push")
=============================================================================
