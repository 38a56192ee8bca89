-------------------------------- MODULE Client --------------------------------
(***************************************************************************)
(* The client library (client/client.cpp): one Producer and one Consumer,  *)
(* each with a connection of its own, and as much of the broker as decides *)
(* what they see: which messages it has received, which wait for a         *)
(* consumer's acknowledgement, and what it answers.                        *)
(*                                                                         *)
(* A connection carries packs in order, both ways; the bytes a client has  *)
(* received and not yet read (m_pRecvHead .. m_pRecvTail) are the front of *)
(* what is on the way to it.  Every call of the library waits for the      *)
(* first pack that comes, whatever it is.  The broker drops replies and    *)
(* acknowledgements, but not messages, when LOGIC_TO_CONNECT is full       *)
(* (FrontEnd.tla, Broker.tla); connections stay open here.                 *)
(***************************************************************************)
EXTENDS Integers, Sequences, FiniteSets, SequencesExt, SeqOps

CONSTANTS MaxMsgs,        \* bound: messages published
          MaxResends,     \* bound: messages sent again
          ProducerCalls,  \* bound: requests of the producer
          ConsumerCalls,  \* bound: requests of the consumer
          MaxManualAcks,  \* bound: acknowledgements by SendConsumerAck
          MaxDrops,       \* bound: replies and acknowledgements dropped
          ProducerRequests, \* what the producer asks to create or delete
          ConsumerRequests, \* what the consumer asks to create or delete
          SubscribeLevels,  \* confirm levels of subscriptions
          PullLevels        \* confirm levels of pulls

\* confirm levels (common_def/comdef.h)
PRODUCER_SINGLE_ACK  == 1
PRODUCER_MUTIL_ACK   == 2
CONSUMER_AUTO_ACK    == 1
CONSUMER_SINGLE_ACK  == 2
CONSUMER_MUTIL_ACK   == 3

ASSUME ClientAssumption ==
  /\ MaxMsgs \in Nat /\ MaxResends \in Nat
  /\ ProducerCalls \in Nat /\ ConsumerCalls \in Nat /\ MaxDrops \in Nat
  /\ MaxManualAcks \in Nat
  /\ SubscribeLevels \subseteq 0 .. 3 /\ PullLevels \subseteq 0 .. 3

Peers == {"producer", "consumer"}
Ids   == 0 .. MaxMsgs - 1
NoMsg == -1
NoSeq == -1
\* Four bytes of a reply's text, read as a number: above any number in use.
Text  == 2 * MaxMsgs + 1

VARIABLES
  up,            \* peer -> packs on their way to the broker
  down,          \* peer -> packs on their way back, received ones first
  waiting,       \* peer -> the request whose answer it waits for, or "no"
  calls,         \* peer -> bound's counter
  pLevel,        \* the producer's m_iConfirmLevel
  m_iMsgSeq,     \* the producer's next number
  m_NeedAckMsgList, \* numbers of the messages not confirmed, oldest first
  resends,       \* bound's counter
  manualAcks,    \* bound's counter
  manual,        \* the consumer's m_iConfirmLevel and m_iAckSeq
  m_SeqSet,      \* numbers the consumer has seen
  declared,      \* which of exchange, queue and binding the broker has
  queue,         \* messages in the queue
  subscribed,    \* the consumer's level for the queue, or NoSub
  brokerSeq,     \* the broker's m_iAckSeq
  unacked,       \* m_NeedAckMessageList: [seq, id]
  producerSeqs,  \* m_producerMsgSeqs
  lastSeq,       \* m_producerLastMsgSeq, or NoSeq
  hung,          \* whether the broker is in SendMultiAck for ever
  accepted,      \* history: messages put into the queue, in order
  refused,       \* history: messages the broker refused
  misread,       \* history: peers that read a reply as something else
  drops,         \* bound's counter
  dropped,       \* history: peers a reply was dropped for
  given,         \* history: messages the application got
  swallowed,     \* history: messages taken for the reply to a request
  late,          \* history: whether a call took a push for its answer
  cleared        \* history: messages deleted with their queue

wires    == <<up, down>>
producer == <<pLevel, m_iMsgSeq, m_NeedAckMsgList, resends>>
consumer == <<manual, manualAcks, m_SeqSet, given>>
lost     == <<swallowed, late>>
broker   == <<declared, queue, subscribed, brokerSeq, unacked, producerSeqs,
              lastSeq, hung, accepted, refused, drops, dropped, cleared>>
vars     == <<up, down, waiting, calls, pLevel, m_iMsgSeq, m_NeedAckMsgList,
              resends, manual, manualAcks, m_SeqSet, declared, queue, subscribed, brokerSeq,
              unacked, producerSeqs, lastSeq, hung, accepted, refused, misread,
              drops, dropped, given, swallowed, late, cleared>>

NoSub == -1
-----------------------------------------------------------------------------
(* Packs (message/message.cpp).  The bytes of a reply are a bool and a text: *)
(* read as a message they are a level and a number, read as an ack a number. *)

Request(what, level)    == [type |-> what, level |-> level, seq |-> NoSeq]
Publish(n)              == [type |-> "publish", level |-> pLevel, seq |-> n]
ConsumerAck(level, seq) == [type |-> "ack", level |-> level, seq |-> seq]
Message(type, level, seq, id) == [type |-> type, level |-> level, seq |-> seq, id |-> id]
ServerAck(seq)          == [type |-> "ack", level |-> 0, seq |-> seq, id |-> NoMsg]
Reply(ok) == [type |-> "reply", level |-> IF ok THEN 1 ELSE 0, seq |-> Text, id |-> NoMsg]

Send(peer, packs) == up' = [up EXCEPT ![peer] = @ \o packs]
-----------------------------------------------------------------------------
Init ==
  /\ up = [c \in Peers |-> <<>>]
  /\ down = [c \in Peers |-> <<>>]
  /\ waiting = [c \in Peers |-> "no"]
  /\ calls = [c \in Peers |-> 0]
  /\ pLevel \in {PRODUCER_SINGLE_ACK, PRODUCER_MUTIL_ACK}
  /\ m_iMsgSeq = 0
  /\ m_NeedAckMsgList = <<>>
  /\ resends = 0
  /\ manual = [level |-> 0, seq |-> NoSeq]
  /\ manualAcks = 0
  /\ m_SeqSet = {}
  /\ declared \in {{"exchange", "queue"}, {"exchange", "queue", "binding"}}
  /\ queue = <<>>
  /\ subscribed = NoSub
  /\ brokerSeq = 0
  /\ unacked = {}
  /\ producerSeqs = {}
  /\ lastSeq = NoSeq
  /\ hung = FALSE
  /\ accepted = <<>>
  /\ refused = {}
  /\ misread = {}
  /\ drops = 0
  /\ dropped = {}
  /\ given = {}
  /\ swallowed = {}
  /\ late = FALSE
  /\ cleared = {}
-----------------------------------------------------------------------------
(* Client: a call sends its request and waits for one pack.                 *)

MaxCalls(peer) == IF peer = "producer" THEN ProducerCalls ELSE ConsumerCalls

\* Mutant: does not wait for the reply.
CallAndGo(peer, what, level) ==
  /\ waiting[peer] = "no" /\ calls[peer] < MaxCalls(peer)
  /\ Send(peer, <<Request(what, level)>>)
  /\ calls' = [calls EXCEPT ![peer] = @ + 1]
  /\ UNCHANGED <<down, waiting, producer, consumer, broker, misread, lost>>

Call(peer, what, level) ==
  /\ waiting[peer] = "no" /\ calls[peer] < MaxCalls(peer)
  /\ Send(peer, <<Request(what, level)>>)
  /\ waiting' = [waiting EXCEPT ![peer] = what]
  /\ calls' = [calls EXCEPT ![peer] = @ + 1]
  /\ UNCHANGED <<down, producer, consumer, broker, misread, lost>>

Requests(peer) == IF peer = "producer" THEN ProducerRequests ELSE ConsumerRequests
Ask(peer, what) == what \in Requests(peer) /\ Call(peer, what, 0)

CreateExchange(peer) == Ask(peer, "create exchange")
CreateQueue(peer)    == Ask(peer, "create queue")
CreateBinding(peer)  == Ask(peer, "create binding")
DeleteExchange(peer) == Ask(peer, "delete exchange")
DeleteQueue(peer)    == Ask(peer, "delete queue")

\* A call other than RecvMessage takes the pack and throws it away unless it is
\* a reply.
RecvReply(peer) ==
  LET p == Head(down[peer]) IN
  /\ waiting[peer] \notin {"no", "pull"} /\ down[peer] # <<>>
  /\ down' = [down EXCEPT ![peer] = Tail(@)]
  /\ waiting' = [waiting EXCEPT ![peer] = "no"]
  /\ swallowed' = swallowed \cup ({p.id} \ {NoMsg})
  /\ late' = (late \/ p.type = "push")
  /\ UNCHANGED <<up, calls, producer, consumer, broker, misread>>
-----------------------------------------------------------------------------
(* Producer *)

PuslishMessage ==
  /\ waiting["producer"] = "no" /\ m_iMsgSeq < MaxMsgs
  /\ Send("producer", <<Publish(m_iMsgSeq)>>)
  /\ m_iMsgSeq' = m_iMsgSeq + 1
  /\ m_NeedAckMsgList' = Append(m_NeedAckMsgList, m_iMsgSeq)
  /\ UNCHANGED <<down, waiting, calls, pLevel, resends, consumer, broker, misread, lost>>

\* Mutant: a single confirmation is taken for a batch one.
ConfirmedUpTo(n, seqs) == \E s \in seqs : n <= s

\* Whether the numbers received confirm message n.
Confirmed(n, seqs) ==
  IF pLevel = PRODUCER_SINGLE_ACK THEN n \in seqs ELSE \E s \in seqs : n <= s

\* All the packs that have come are read as acknowledgements.
RecvServerAck ==
  /\ waiting["producer"] = "no"
  /\ \E k \in 1 .. Len(down["producer"]) :
       LET packs == SubSeq(down["producer"], 1, k)
           seqs  == {packs[i].seq : i \in 1 .. k} IN
       /\ down' = [down EXCEPT !["producer"] = SubSeq(@, k + 1, Len(@))]
       /\ m_NeedAckMsgList' = Keep(m_NeedAckMsgList, {n \in Ids : ~Confirmed(n, seqs)})
       /\ misread' = IF Text \in seqs THEN misread \cup {"producer"} ELSE misread
  /\ UNCHANGED <<up, waiting, calls, pLevel, m_iMsgSeq, resends, consumer, broker, lost>>

\* Mutant: a message sent again gets a new number.
ReSendAnew ==
  /\ waiting["producer"] = "no"
  /\ \E k \in 1 .. Len(m_NeedAckMsgList) :
       LET old == SubSeq(m_NeedAckMsgList, 1, k) IN
       /\ resends + k <= MaxResends
       /\ resends' = resends + k
       /\ Send("producer", [i \in 1 .. k |-> Publish(m_iMsgSeq + i - 1)])
       /\ m_iMsgSeq' = m_iMsgSeq + k
       /\ m_NeedAckMsgList' = SubSeq(m_NeedAckMsgList, k + 1, Len(m_NeedAckMsgList)) \o old
  /\ UNCHANGED <<down, waiting, calls, pLevel, consumer, broker, misread, lost>>

\* The messages that have waited long enough, the oldest ones, are sent again
\* and go to the end of the list.
ReSendMsg ==
  /\ waiting["producer"] = "no"
  /\ \E k \in 1 .. Len(m_NeedAckMsgList) :
       LET old == SubSeq(m_NeedAckMsgList, 1, k) IN
       /\ resends + k <= MaxResends
       /\ resends' = resends + k
       /\ Send("producer", [i \in 1 .. k |-> Publish(old[i])])
       /\ m_NeedAckMsgList' = SubSeq(m_NeedAckMsgList, k + 1, Len(m_NeedAckMsgList)) \o old
  /\ UNCHANGED <<down, waiting, calls, pLevel, m_iMsgSeq, consumer, broker,
                 misread, lost>>
-----------------------------------------------------------------------------
(* Consumer *)

CreateSubscribe(level) == Call("consumer", "subscribe", level)
RecvMessage(level)     == Call("consumer", "pull", level)
\* Not CMD_CANCEL_SUBCRIBE but the deletion of the queue is sent.
CancelSubscribe        == Call("consumer", "delete queue", 0)

\* Mutant: numbers are remembered whatever the level, -1 included.
RememberAlways(p) == m_SeqSet' = m_SeqSet \cup {p.seq}

Remember(p) == m_SeqSet' = IF p.level > 0 THEN m_SeqSet \cup {p.seq} ELSE m_SeqSet

\* What becomes of a pack taken for a message: acknowledged at once, or kept
\* for SendConsumerAck; given to the application unless its number is known.
\* ConsumeMessage looks for a number before it acknowledges, RecvMessage does not.
Use(p, rest) ==
  /\ IF p.level = CONSUMER_AUTO_ACK /\ (waiting["consumer"] = "pull" \/ p.seq # NoSeq)
     THEN Send("consumer", <<ConsumerAck(p.level, p.seq)>>) ELSE UNCHANGED up
  /\ manual' = IF p.level \in {CONSUMER_SINGLE_ACK, CONSUMER_MUTIL_ACK}
               THEN [level |-> p.level, seq |-> p.seq] ELSE manual
  /\ given' = IF p.seq \in m_SeqSet THEN given ELSE given \cup ({p.id} \ {NoMsg})
  /\ Remember(p)
  /\ down' = [down EXCEPT !["consumer"] = rest]

\* RecvMessage's answer: a reply says that there is no message.
RecvPulled ==
  LET p == Head(down["consumer"]) IN
  /\ waiting["consumer"] = "pull" /\ down["consumer"] # <<>>
  /\ IF p.type = "reply"
     THEN /\ down' = [down EXCEPT !["consumer"] = Tail(@)]
          /\ UNCHANGED <<up, manual, m_SeqSet, given>>
     ELSE Use(p, Tail(down["consumer"]))
  /\ late' = (late \/ p.type = "push")
  /\ waiting' = [waiting EXCEPT !["consumer"] = "no"]
  /\ UNCHANGED <<calls, manualAcks, producer, broker, misread, swallowed>>

\* The type of the pack is not looked at.
ConsumeMessage ==
  LET p == Head(down["consumer"]) IN
  /\ waiting["consumer"] = "no" /\ down["consumer"] # <<>>
  /\ Use(p, Tail(down["consumer"]))
  /\ misread' = IF p.type = "reply" THEN misread \cup {"consumer"} ELSE misread
  /\ UNCHANGED <<waiting, calls, manualAcks, producer, broker, lost>>

SendConsumerAck ==
  /\ waiting["consumer"] = "no" /\ manualAcks < MaxManualAcks
  /\ manual.level \in {CONSUMER_SINGLE_ACK, CONSUMER_MUTIL_ACK} /\ manual.seq # NoSeq
  /\ Send("consumer", <<ConsumerAck(manual.level, manual.seq)>>)
  /\ manualAcks' = manualAcks + 1
  /\ UNCHANGED <<down, waiting, calls, producer, manual, m_SeqSet, given, broker, misread, lost>>
-----------------------------------------------------------------------------
(* The broker (logicServer/logicServer.cpp) *)

Take(peer, type) == ~hung /\ up[peer] # <<>> /\ Head(up[peer]).type = type
Taken(peer)      == up' = [up EXCEPT ![peer] = Tail(@)]

Put(peer, pack) == down' = [down EXCEPT ![peer] = Append(@, pack)]

\* A reply or acknowledgement gets into the ring or is dropped.
RingFull == drops < MaxDrops /\ drops' = drops + 1 /\ UNCHANGED down

Acknowledge(peer, seq) ==
  \/ Put(peer, ServerAck(seq)) /\ UNCHANGED drops
  \/ RingFull
Answer(peer, ok) ==
  \/ Put(peer, Reply(ok)) /\ UNCHANGED <<drops, dropped>>
  \/ RingFull /\ dropped' = dropped \cup {peer}

Clients == <<waiting, calls, producer, consumer, misread, lost>>

Routed == {"exchange", "queue", "binding"} \subseteq declared

\* Mutant: the number of a message received is not looked up.
KnownNever(n) == FALSE
\* The message was received before.
Known(n) == n \in producerSeqs

\* The code means to acknowledge a duplicate, but the acknowledgement has the
\* index -1 and reaches nobody.
AcknowledgeDuplicate == UNCHANGED <<down, drops>>

OnPublishMessage ==
  LET n == Head(up["producer"]).seq IN
  /\ Take("producer", "publish") /\ Taken("producer")
  /\ \/ /\ Known(n)
        /\ AcknowledgeDuplicate
        /\ UNCHANGED <<queue, producerSeqs, lastSeq, accepted, refused, dropped>>
     \/ /\ ~Known(n) /\ ~Routed
        /\ Answer("producer", FALSE)
        /\ refused' = refused \cup {n}
        /\ UNCHANGED <<queue, producerSeqs, lastSeq, accepted>>
     \/ /\ ~Known(n) /\ Routed
        /\ queue' = Append(queue, n)
        /\ accepted' = Append(accepted, n)
        /\ producerSeqs' = producerSeqs \cup {n}
        /\ IF pLevel = PRODUCER_SINGLE_ACK
           THEN Acknowledge("producer", n) /\ UNCHANGED lastSeq
           ELSE lastSeq' = n /\ UNCHANGED <<down, drops>>
        /\ UNCHANGED <<refused, dropped>>
  /\ UNCHANGED <<Clients, declared, subscribed, brokerSeq, unacked, hung, cleared>>

\* The loop's last part, reached with a batch number to confirm: it sends that
\* number again and again.  (Of these acknowledgements one is on the way.)
SendMultiAck ==
  /\ lastSeq # NoSeq
  /\ hung' = TRUE
  /\ ServerAck(lastSeq) \notin ToSet(down["producer"])
  /\ Put("producer", ServerAck(lastSeq))
  /\ UNCHANGED <<Clients, up, declared, queue, subscribed, brokerSeq, unacked,
                 producerSeqs, lastSeq, accepted, refused, drops, dropped, cleared>>

\* The subscriber gets the next message in the loop's first part.
PushMessage ==
  /\ ~hung /\ lastSeq = NoSeq /\ subscribed # NoSub /\ queue # <<>>
  /\ IF subscribed > 0
     THEN /\ Put("consumer", Message("push", subscribed, brokerSeq, Head(queue)))
          /\ unacked' = unacked \cup {[seq |-> brokerSeq, id |-> Head(queue)]}
          /\ brokerSeq' = brokerSeq + 1
     ELSE /\ Put("consumer", Message("push", 0, NoSeq, Head(queue)))
          /\ UNCHANGED <<unacked, brokerSeq>>
  /\ queue' = Tail(queue)
  /\ UNCHANGED <<Clients, up, declared, subscribed, producerSeqs, lastSeq, hung,
                 accepted, refused, drops, dropped, cleared>>

OnRecvMessage ==
  LET level == Head(up["consumer"]).level IN
  /\ Take("consumer", "pull") /\ Taken("consumer")
  /\ IF queue = <<>>
     THEN /\ Answer("consumer", FALSE)
          /\ UNCHANGED <<queue, unacked, brokerSeq>>
     ELSE /\ Put("consumer", Message("pull", level, IF level > 0 THEN brokerSeq ELSE NoSeq,
                                     Head(queue)))
          /\ queue' = Tail(queue)
          /\ unacked' = IF level > 0
                        THEN unacked \cup {[seq |-> brokerSeq, id |-> Head(queue)]} ELSE unacked
          /\ brokerSeq' = IF level > 0 THEN brokerSeq + 1 ELSE brokerSeq
          /\ UNCHANGED <<drops, dropped>>
  /\ UNCHANGED <<Clients, declared, subscribed, producerSeqs, lastSeq, hung,
                 accepted, refused, cleared>>

OnCreateSubscribe ==
  /\ Take("consumer", "subscribe") /\ Taken("consumer")
  /\ subscribed' = IF "queue" \in declared THEN Head(up["consumer"]).level ELSE subscribed
  /\ Answer("consumer", "queue" \in declared)
  /\ UNCHANGED <<Clients, declared, queue, brokerSeq, unacked, producerSeqs,
                 lastSeq, hung, accepted, refused, cleared>>

\* Mutant: nothing is answered when there is nothing to bind.
OnCreateSilently(peer, type) ==
  LET what == IF type = "create exchange" THEN "exchange"
              ELSE IF type = "create queue" THEN "queue" ELSE "binding"
      may  == what = "binding" => {"exchange", "queue"} \subseteq declared IN
  /\ Take(peer, type) /\ Taken(peer)
  /\ declared' = IF may THEN declared \cup {what} ELSE declared
  /\ IF may THEN Answer(peer, may) ELSE UNCHANGED <<down, drops, dropped>>
  /\ UNCHANGED <<Clients, queue, subscribed, brokerSeq, unacked, producerSeqs,
                 lastSeq, hung, accepted, refused, cleared>>

\* What exists already is not made again; a binding needs both its ends.
OnCreate(peer, type) ==
  LET what == IF type = "create exchange" THEN "exchange"
              ELSE IF type = "create queue" THEN "queue" ELSE "binding"
      may  == what = "binding" => {"exchange", "queue"} \subseteq declared IN
  /\ Take(peer, type) /\ Taken(peer)
  /\ declared' = IF may THEN declared \cup {what} ELSE declared
  /\ Answer(peer, may)
  /\ UNCHANGED <<Clients, queue, subscribed, brokerSeq, unacked, producerSeqs,
                 lastSeq, hung, accepted, refused, cleared>>

OnDeleteExchange(peer) ==
  /\ Take(peer, "delete exchange") /\ Taken(peer)
  /\ declared' = declared \ {"exchange", "binding"}
  /\ Answer(peer, "exchange" \in declared)
  /\ UNCHANGED <<Clients, queue, subscribed, brokerSeq, unacked, producerSeqs,
                 lastSeq, hung, accepted, refused, cleared>>

\* An exchange that loses its last binding goes too (bAutoDel, the default).
OnDeleteQueue(peer) ==
  /\ Take(peer, "delete queue") /\ Taken(peer)
  /\ IF "queue" \in declared
     THEN /\ declared' = declared \ (IF "binding" \in declared THEN {"queue", "binding", "exchange"}
                                     ELSE {"queue"})
          /\ cleared' = cleared \cup ToSet(queue)
          /\ queue' = <<>>
          /\ subscribed' = NoSub
     ELSE UNCHANGED <<declared, queue, subscribed, cleared>>
  /\ Answer(peer, "queue" \in declared)
  /\ UNCHANGED <<Clients, brokerSeq, unacked, producerSeqs, lastSeq, hung,
                 accepted, refused>>

\* One number is acknowledged whatever the level.  (The branch that would take a
\* batch acknowledgement's lower numbers too, as its comments say, is never
\* reached: the condition before it is always true.)
Covers(p) == {e \in unacked : e.seq = p.seq}

OnClientAck ==
  /\ Take("consumer", "ack") /\ Taken("consumer")
  /\ unacked' = unacked \ Covers(Head(up["consumer"]))
  /\ UNCHANGED <<Clients, down, declared, queue, subscribed, brokerSeq,
                 producerSeqs, lastSeq, hung, accepted, refused, drops, dropped, cleared>>
-----------------------------------------------------------------------------
RecvStep == \E c \in Peers : RecvReply(c)

ClientStep ==
  \/ \E c \in Peers :
       \/ CreateExchange(c) \/ CreateQueue(c) \/ CreateBinding(c)
       \/ DeleteExchange(c) \/ DeleteQueue(c)
  \/ PuslishMessage \/ RecvServerAck \/ ReSendMsg
  \/ \E level \in SubscribeLevels : CreateSubscribe(level)
  \/ \E level \in PullLevels : RecvMessage(level)
  \/ CancelSubscribe \/ ConsumeMessage \/ SendConsumerAck

BrokerStep ==
  \/ OnPublishMessage \/ SendMultiAck \/ PushMessage
  \/ OnRecvMessage \/ OnCreateSubscribe \/ OnClientAck
  \/ \E c \in Peers :
       \/ \E type \in {"create exchange", "create queue", "create binding"} : OnCreate(c, type)
       \/ OnDeleteExchange(c) \/ OnDeleteQueue(c)

Next == RecvStep \/ RecvPulled \/ ClientStep \/ BrokerStep

Spec == Init /\ [][Next]_vars

\* The broker and the calls that have an answer do not all stand still.
FairSpec == Spec /\ WF_vars(BrokerStep \/ RecvStep \/ RecvPulled)
-----------------------------------------------------------------------------
(* Properties *)

UpPacks   == [type : {"create exchange", "create queue", "create binding", "delete exchange",
                      "delete queue", "subscribe", "pull", "publish", "ack"},
              level : 0 .. 3, seq : NoSeq .. Text]
DownPacks == [type : {"push", "pull", "ack", "reply"}, level : 0 .. 3, seq : NoSeq .. Text,
              id : Ids \cup {NoMsg}]

\* The state of the two clients and of the broker's end keeps its types.
TypeOK ==
  /\ up \in [Peers -> Seq(UpPacks)] /\ down \in [Peers -> Seq(DownPacks)]
  /\ waiting \in [Peers -> {"no", "create exchange", "create queue", "create binding",
                            "delete exchange", "delete queue", "subscribe", "pull"}]
  /\ calls \in [Peers -> Nat] /\ \A c \in Peers : calls[c] <= MaxCalls(c)
  /\ pLevel \in {PRODUCER_SINGLE_ACK, PRODUCER_MUTIL_ACK}
  /\ m_iMsgSeq \in 0 .. MaxMsgs /\ resends \in 0 .. MaxResends
  /\ manualAcks \in 0 .. MaxManualAcks
  /\ m_NeedAckMsgList \in Seq(Ids)
  /\ manual \in [level : {0, CONSUMER_SINGLE_ACK, CONSUMER_MUTIL_ACK}, seq : NoSeq .. MaxMsgs - 1]
  /\ m_SeqSet \subseteq Ids \cup {Text}
  /\ declared \subseteq {"exchange", "queue", "binding"}
  /\ queue \in Seq(Ids) /\ accepted \in Seq(Ids)
  /\ subscribed \in NoSub .. 3 /\ brokerSeq \in 0 .. MaxMsgs
  /\ unacked \subseteq [seq : Ids, id : Ids]
  /\ producerSeqs \subseteq Ids /\ lastSeq \in Ids \cup {NoSeq} /\ hung \in BOOLEAN
  /\ drops \in 0 .. MaxDrops /\ misread \subseteq Peers /\ dropped \subseteq Peers /\ late \in BOOLEAN
  /\ refused \cup given \cup swallowed \cup cleared \subseteq Ids

\* The queue gets a message once, however often it is sent again.
AcceptedOnce == IsInjective(accepted)

\* The producer keeps a message until the broker has accepted it, whatever it
\* reads as confirmations.  Not so with batch confirmation: a later message's
\* number covers one that was refused, and a refusal or any other reply that is
\* read as a confirmation covers everything.
KeptUntilAccepted ==
  \A n \in 0 .. m_iMsgSeq - 1 :
    \/ n \in ToSet(m_NeedAckMsgList) \/ n \in ToSet(accepted)
    \/ pLevel = PRODUCER_MUTIL_ACK /\ (n \in refused \/ "producer" \in misread)

InFlight == {down["consumer"][i].id : i \in DOMAIN down["consumer"]}

\* A message accepted is in the queue, waits for its acknowledgement, is on its
\* way, or has gone to the application, with its queue, or to a request of the
\* consumer that took it for its reply; no message goes any other way.
AllAccountedFor ==
  ToSet(accepted) \subseteq ToSet(queue) \cup {e.id : e \in unacked} \cup InFlight
                            \cup given \cup cleared \cup swallowed

\* The consumer's application gets a reply for a message only after a call took
\* a pushed message for its answer.
OutOfStep == "consumer" \in misread => late

\* A request returns, unless its reply found the ring full or the broker is
\* busy with a batch confirmation for ever.
RequestsReturn ==
  \A c \in Peers : waiting[c] # "no" ~> waiting[c] = "no" \/ hung \/ c \in dropped
=============================================================================
