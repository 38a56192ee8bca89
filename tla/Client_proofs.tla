---------------------------- MODULE Client_proofs ----------------------------
(***************************************************************************)
(* Proofs about Client, for any numbers of messages, calls and losses.     *)
(* First the calls and their replies: the broker queues a message once     *)
(* however often the producer sends it, and the consumer keeps in step     *)
(* with its requests as long as none of its calls takes a pushed message   *)
(* for the answer.  Then the types, what a producer may forget, and where  *)
(* each message is.                                                        *)
(***************************************************************************)
EXTENDS Client, SequenceTheorems, SeqFacts, FiniteSetTheorems, TLAPS

IsSeq(s) == \E S : s \in Seq(S)

\* Every pack, no pack, and not more than one pack of s has a type in T.
AllOf(s, T)  == \A i \in 1 .. Len(s) : s[i].type \in T
NoneOf(s, T) == \A i \in 1 .. Len(s) : s[i].type \notin T
OneOf(s, T)  == \A i, j \in 1 .. Len(s) : s[i].type \in T /\ s[j].type \in T => i = j

\* What the consumer asks, and what counts as the answer.
Asks     == {"create exchange", "create queue", "create binding", "delete exchange",
             "delete queue", "subscribe", "pull"}
Answered == {"reply", "pull"}
Sent     == Answered \cup {"push"}

WiresOK ==
  /\ DOMAIN up = Peers /\ DOMAIN down = Peers /\ DOMAIN waiting = Peers
  /\ IsSeq(up["consumer"]) /\ IsSeq(down["consumer"])

\* Without a call in progress nothing is asked and no answer is on the way; a
\* call in progress has its question or its answer on the way, not both.
InStep ==
  \/ late
  \/ /\ AllOf(down["consumer"], Sent)
     /\ IF waiting["consumer"] = "no"
        THEN NoneOf(up["consumer"], Asks) /\ NoneOf(down["consumer"], Answered)
        ELSE /\ OneOf(up["consumer"], Asks) /\ OneOf(down["consumer"], Answered)
             /\ NoneOf(up["consumer"], Asks) \/ NoneOf(down["consumer"], Answered)

\* A message accepted has its number among those received.
AcceptedKnown == accepted \in Seq(producerSeqs) /\ IsInjective(accepted)

IInv == WiresOK /\ InStep /\ OutOfStep
-----------------------------------------------------------------------------
(* A pack more at the end, or one less at the front. *)
LEMMA AddsOne ==
  ASSUME NEW s, IsSeq(s), NEW p
  PROVE  /\ IsSeq(Append(s, p)) /\ s \o <<p>> = Append(s, p)
         /\ Len(Append(s, p)) = Len(s) + 1 /\ Len(s) \in Nat
         /\ \A i \in 1 .. Len(s) : Append(s, p)[i] = s[i]
         /\ Append(s, p)[Len(s) + 1] = p
<1>1. PICK S : s \in Seq(S)
  BY DEF IsSeq
<1> DEFINE T == S \cup {p}
<1>2. s \in Seq(T) /\ p \in T
  BY <1>1
<1> HIDE DEF T
<1>3. Append(s, p) \in Seq(T) /\ Append(s, p) = s \o <<p>>
  BY <1>2, AppendProperties, AppendIsConcat
<1>4. IsSeq(Append(s, p))
  BY <1>3 DEF IsSeq
<1>5. QED
  BY <1>2, <1>3, <1>4, AppendProperties

LEMMA TakesOne ==
  ASSUME NEW s, IsSeq(s), s # <<>>
  PROVE  /\ IsSeq(Tail(s)) /\ Len(s) \in Nat /\ Len(s) >= 1
         /\ Len(Tail(s)) = Len(s) - 1 /\ Head(s) = s[1]
         /\ \A i \in 1 .. Len(s) - 1 : Tail(s)[i] = s[i + 1]
<1>1. PICK S : s \in Seq(S)
  BY DEF IsSeq
<1>2. Tail(s) \in Seq(S)
  BY <1>1
<1>3. QED
  BY <1>1, <1>2 DEF IsSeq

LEMMA CountsAdded ==
  ASSUME NEW s, IsSeq(s), NEW p, NEW T
  PROVE  /\ AllOf(s, T) /\ p.type \in T => AllOf(Append(s, p), T)
         /\ NoneOf(s, T) /\ p.type \notin T => NoneOf(Append(s, p), T)
         /\ OneOf(s, T) /\ p.type \notin T => OneOf(Append(s, p), T)
         /\ NoneOf(s, T) => OneOf(Append(s, p), T) /\ OneOf(s, T)
<1> DEFINE t == Append(s, p)
<1>1. /\ Len(t) = Len(s) + 1 /\ Len(s) \in Nat
      /\ \A i \in 1 .. Len(s) : t[i] = s[i]
      /\ t[Len(s) + 1] = p
  BY AddsOne
<1> HIDE DEF t
<1>2. \A i \in 1 .. Len(t) : i \in 1 .. Len(s) \/ i = Len(s) + 1
  BY <1>1
<1>3. /\ AllOf(s, T) /\ p.type \in T => AllOf(t, T)
      /\ NoneOf(s, T) /\ p.type \notin T => NoneOf(t, T)
  BY <1>1, <1>2 DEF AllOf, NoneOf
<1>4. OneOf(s, T) /\ p.type \notin T => OneOf(t, T)
  BY <1>1, <1>2 DEF OneOf
<1>5. NoneOf(s, T) => OneOf(t, T) /\ OneOf(s, T)
  BY <1>1, <1>2 DEF NoneOf, OneOf
<1>6. QED
  BY <1>3, <1>4, <1>5 DEF t

LEMMA CountsTaken ==
  ASSUME NEW s, IsSeq(s), s # <<>>, NEW T
  PROVE  /\ AllOf(s, T) => AllOf(Tail(s), T) /\ Head(s).type \in T
         /\ NoneOf(s, T) => NoneOf(Tail(s), T) /\ Head(s).type \notin T
         /\ OneOf(s, T) => OneOf(Tail(s), T)
         /\ OneOf(s, T) /\ Head(s).type \in T => NoneOf(Tail(s), T)
<1> DEFINE t == Tail(s)
<1>1. /\ Len(t) = Len(s) - 1 /\ Len(s) \in Nat /\ Len(s) >= 1 /\ Head(s) = s[1]
      /\ \A i \in 1 .. Len(s) - 1 : t[i] = s[i + 1]
  BY TakesOne
<1> HIDE DEF t
<1>2. \A i \in 1 .. Len(t) : i \in 1 .. Len(s) - 1 /\ i + 1 \in 1 .. Len(s) /\ i + 1 # 1
  BY <1>1
<1>3. 1 \in 1 .. Len(s)
  BY <1>1
<1>4. /\ AllOf(s, T) => AllOf(t, T) /\ Head(s).type \in T
      /\ NoneOf(s, T) => NoneOf(t, T) /\ Head(s).type \notin T
  BY <1>1, <1>2, <1>3 DEF AllOf, NoneOf
<1>5. OneOf(s, T) => OneOf(t, T)
  <2>1. \A i, j \in 1 .. Len(t) : i + 1 = j + 1 => i = j
    BY <1>1
  <2>2. QED
    BY <1>1, <1>2, <2>1 DEF OneOf
<1>6. OneOf(s, T) /\ Head(s).type \in T => NoneOf(t, T)
  BY <1>1, <1>2, <1>3 DEF OneOf, NoneOf
<1>7. QED
  BY <1>4, <1>5, <1>6 DEF t
-----------------------------------------------------------------------------
(* What steps do to the consumer's two wires. *)
U == up["consumer"]
D == down["consumer"]
W == waiting["consumer"]

Peered == DOMAIN up = Peers /\ DOMAIN down = Peers /\ DOMAIN waiting = Peers

(* Nothing. *)
LEMMA OthersMove ==
  ASSUME IInv, Peered', U' = U, D' = D, W' = W, late => late',
         "consumer" \in misread' => "consumer" \in misread
  PROVE  IInv'
BY DEF IInv, WiresOK, InStep, OutOfStep, Peered, U, D, W

(* A question is sent. *)
LEMMA AsksOne ==
  ASSUME IInv, Peered', NEW p, p.type \in Asks, W = "no", W' # "no", U' = Append(U, p), D' = D,
         late' = late, misread' = misread
  PROVE  IInv'
<1>1. IsSeq(U) /\ IsSeq(U') /\ IsSeq(D')
  BY AddsOne DEF IInv, WiresOK, U, D
<1>2. CASE late
  BY <1>1, <1>2 DEF IInv, WiresOK, InStep, OutOfStep, Peered, U, D
<1>3. CASE ~late
  <2>1. NoneOf(U, Asks) /\ NoneOf(D, Answered) /\ AllOf(D, Sent)
    BY <1>3 DEF IInv, InStep, U, D, W
  <2>2. OneOf(U', Asks) /\ OneOf(D, Answered)
    BY <1>1, <2>1, CountsAdded DEF IInv, WiresOK, D
  <2>3. InStep'
    BY <2>1, <2>2 DEF InStep, U, D, W
  <2>4. QED
    BY <1>1, <2>3 DEF IInv, WiresOK, OutOfStep, Peered, U, D
<1>4. QED
  BY <1>2, <1>3

(* An acknowledgement is sent. *)
LEMMA AcksOne ==
  ASSUME IInv, Peered', NEW p, p.type = "ack", W' = W, U' = Append(U, p), D' = D,
         late' = late, misread' = misread
  PROVE  IInv'
<1>1. IsSeq(U) /\ IsSeq(U') /\ IsSeq(D')
  BY AddsOne DEF IInv, WiresOK, U, D
<1>2. "ack" \notin Asks
  BY DEF Asks
<1>3. (NoneOf(U, Asks) => NoneOf(U', Asks)) /\ (OneOf(U, Asks) => OneOf(U', Asks))
  BY <1>1, <1>2, CountsAdded
<1>4. InStep'
  BY <1>3 DEF IInv, InStep, U, D, W
<1>5. QED
  BY <1>1, <1>4 DEF IInv, WiresOK, OutOfStep, Peered, U, D

(* The consumer takes a pack: a call does, or ConsumeMessage. *)
LEMMA ReadsOne ==
  ASSUME IInv, Peered', D # <<>>, D' = Tail(D), W' = "no",
         NEW p, p.type = "ack", U' = U \/ U' = Append(U, p),
         late => late',
         \/ /\ W # "no" /\ (Head(D).type = "push" => late')
            /\ misread' = misread
         \/ /\ W = "no"
            /\ "consumer" \in misread' => Head(D).type = "reply" \/ "consumer" \in misread
  PROVE  IInv'
<1>1. IsSeq(U) /\ IsSeq(U') /\ IsSeq(D) /\ IsSeq(D')
  <2>1. IsSeq(U) /\ IsSeq(D)
    BY DEF IInv, WiresOK, U, D
  <2>2. IsSeq(U')
    <3>1. CASE U' = U
      BY <2>1, <3>1
    <3>2. CASE U' = Append(U, p)
      BY <2>1, <3>2, AddsOne
    <3>3. QED
      BY <3>1, <3>2
  <2>3. IsSeq(D')
    BY <2>1, AddsOne, TakesOne
  <2>4. QED
    BY <2>1, <2>2, <2>3
<1>2. "ack" \notin Asks
  BY DEF Asks
<1>3. NoneOf(U, Asks) => NoneOf(U', Asks)
  BY <1>1, <1>2, CountsAdded
<1>4. CASE late'
  BY <1>1, <1>4 DEF IInv, WiresOK, InStep, OutOfStep, Peered, U, D
<1>5. CASE ~late'
  <2>1. ~late /\ AllOf(D, Sent) /\ AllOf(D', Sent) /\ Head(D).type \in Sent
    <3>1. ~late /\ AllOf(D, Sent)
      BY <1>5 DEF IInv, InStep, D
    <3>2. QED
      BY <1>1, <3>1, CountsTaken
  <2>2. NoneOf(U, Asks) /\ NoneOf(D', Answered) /\ ("consumer" \notin misread')
    <3>1. "consumer" \notin misread
      BY <2>1 DEF IInv, OutOfStep
    <3>2. CASE W # "no"
      <4>1. Head(D).type \in Answered
        BY <1>5, <2>1, <3>2 DEF Answered, Sent
      <4>2. OneOf(D, Answered) /\ (NoneOf(U, Asks) \/ NoneOf(D, Answered))
        BY <2>1, <3>2 DEF IInv, InStep, U, D, W
      <4>3. NoneOf(D', Answered) /\ ~NoneOf(D, Answered)
        BY <1>1, <4>1, <4>2, CountsTaken
      <4>4. QED
        BY <3>1, <3>2, <4>2, <4>3
    <3>3. CASE W = "no"
      <4>1. NoneOf(U, Asks) /\ NoneOf(D, Answered)
        BY <2>1, <3>3 DEF IInv, InStep, U, D, W
      <4>2. NoneOf(D', Answered) /\ Head(D).type \notin Answered
        BY <1>1, <4>1, CountsTaken
      <4>3. QED
        BY <3>1, <3>3, <4>1, <4>2 DEF Answered
    <3>4. QED
      BY <3>2, <3>3
  <2>3. InStep'
    BY <1>3, <2>1, <2>2 DEF InStep, U, D, W
  <2>4. QED
    BY <1>1, <2>2, <2>3 DEF IInv, WiresOK, OutOfStep, Peered, U, D
<1>6. QED
  BY <1>4, <1>5

(* The broker answers a question, or drops the answer. *)
LEMMA AnswersOne ==
  ASSUME IInv, Peered', U # <<>>, Head(U).type \in Asks, U' = Tail(U), W' = W,
         NEW p, p.type \in Answered, D' = D \/ D' = Append(D, p),
         late' = late, misread' = misread
  PROVE  IInv'
<1>1. IsSeq(U) /\ IsSeq(U') /\ IsSeq(D) /\ IsSeq(D')
  <2>1. IsSeq(U) /\ IsSeq(D)
    BY DEF IInv, WiresOK, U, D
  <2>2. QED
    BY <2>1, AddsOne, TakesOne
<1>2. CASE late
  BY <1>1, <1>2 DEF IInv, WiresOK, InStep, OutOfStep, Peered, U, D
<1>3. CASE ~late
  <2>1. ~NoneOf(U, Asks)
    BY <1>1, CountsTaken
  <2>2. /\ W # "no" /\ OneOf(U, Asks) /\ NoneOf(D, Answered) /\ AllOf(D, Sent)
    BY <1>3, <2>1 DEF IInv, InStep, U, D, W
  <2>3. NoneOf(U', Asks) /\ OneOf(U', Asks)
    BY <1>1, <2>2, CountsTaken
  <2>4. p.type \in Sent
    BY DEF Sent
  <2>5. OneOf(D', Answered) /\ AllOf(D', Sent)
    BY <1>1, <2>2, <2>4, CountsAdded
  <2>6. InStep'
    BY <2>2, <2>3, <2>5 DEF InStep, U, D, W
  <2>7. QED
    BY <1>1, <2>6 DEF IInv, WiresOK, OutOfStep, Peered, U, D
<1>4. QED
  BY <1>2, <1>3

(* The broker takes an acknowledgement, or pushes a message. *)
LEMMA TakesAck ==
  ASSUME IInv, Peered', U # <<>>, U' = Tail(U), W' = W, D' = D, late' = late, misread' = misread
  PROVE  IInv'
<1>1. IsSeq(U) /\ IsSeq(U')
  BY TakesOne DEF IInv, WiresOK, U
<1>2. (NoneOf(U, Asks) => NoneOf(U', Asks)) /\ (OneOf(U, Asks) => OneOf(U', Asks))
  BY <1>1, CountsTaken
<1>3. InStep'
  BY <1>2 DEF IInv, InStep, U, D, W
<1>4. QED
  BY <1>1, <1>3 DEF IInv, WiresOK, OutOfStep, Peered, U, D

LEMMA PushesOne ==
  ASSUME IInv, Peered', NEW p, p.type = "push", U' = U, W' = W, D' = Append(D, p),
         late' = late, misread' = misread
  PROVE  IInv'
<1>1. IsSeq(D) /\ IsSeq(D')
  BY AddsOne DEF IInv, WiresOK, D
<1>2. p.type \notin Answered /\ p.type \in Sent
  BY DEF Answered, Sent
<1>3. /\ NoneOf(D, Answered) => NoneOf(D', Answered)
      /\ OneOf(D, Answered) => OneOf(D', Answered)
      /\ AllOf(D, Sent) => AllOf(D', Sent)
  BY <1>1, <1>2, CountsAdded
<1>4. InStep'
  BY <1>3 DEF IInv, InStep, U, D, W
<1>5. QED
  BY <1>1, <1>4 DEF IInv, WiresOK, OutOfStep, Peered, U, D
-----------------------------------------------------------------------------
(* The actions. *)

LEMMA CallKeeps ==
  ASSUME IInv, NEW c \in Peers, NEW what, what \in Asks, NEW level, Call(c, what, level)
  PROVE  IInv'
<1>1. /\ up' = [up EXCEPT ![c] = @ \o <<Request(what, level)>>]
      /\ waiting' = [waiting EXCEPT ![c] = what]
      /\ waiting[c] = "no" /\ UNCHANGED <<down, late, misread>>
  BY DEF Call, Send, lost
<1>2. Peered /\ Peered' /\ IsSeq(U)
  BY <1>1 DEF IInv, WiresOK, Peered, U
<1>3. what # "no" /\ Request(what, level).type = what
  BY DEF Asks, Request
<1>4. CASE c = "consumer"
  <2>1. /\ U' = U \o <<Request(what, level)>> /\ W = "no" /\ W' = what
        /\ D' = D
    BY <1>1, <1>2, <1>4 DEF Peered, Peers, U, W, D
  <2>2. U' = Append(U, Request(what, level))
    BY <1>2, <2>1, AddsOne
  <2>3. QED
    BY <1>1, <1>2, <1>3, <2>1, <2>2, AsksOne
<1>5. CASE c # "consumer"
  <2>1. U' = U /\ D' = D /\ W' = W
    BY <1>1, <1>2, <1>5 DEF Peered, Peers, U, D, W
  <2>2. QED
    BY <1>1, <1>2, <2>1, OthersMove
<1>6. QED
  BY <1>4, <1>5

LEMMA RecvReplyKeeps ==
  ASSUME IInv, NEW c \in Peers, RecvReply(c)
  PROVE  IInv'
<1>1. /\ waiting[c] # "no" /\ down[c] # <<>>
      /\ down' = [down EXCEPT ![c] = Tail(@)]
      /\ waiting' = [waiting EXCEPT ![c] = "no"]
      /\ late' = (late \/ Head(down[c]).type = "push")
      /\ UNCHANGED <<up, misread>>
  BY DEF RecvReply
<1>2. Peered /\ Peered'
  BY <1>1 DEF IInv, WiresOK, Peered
<1>3. (late => late') /\ (Head(down[c]).type = "push" => late')
  BY <1>1
<1>4. CASE c = "consumer"
  <2>1. D # <<>> /\ D' = Tail(D) /\ W # "no" /\ W' = "no" /\ U' = U
    BY <1>1, <1>2, <1>4 DEF Peered, Peers, U, D, W
  <2>2. (late => late') /\ (Head(D).type = "push" => late')
    BY <1>3, <1>4 DEF D
  <2>3. ServerAck(0).type = "ack"
    BY DEF ServerAck
  <2>4. QED
    BY <1>1, <1>2, <2>1, <2>2, <2>3, ReadsOne
<1>5. CASE c # "consumer"
  <2>1. U' = U /\ D' = D /\ W' = W
    BY <1>1, <1>2, <1>5 DEF Peered, Peers, U, D, W
  <2>2. QED
    BY <1>1, <1>2, <1>3, <2>1, OthersMove
<1>6. QED
  BY <1>4, <1>5

LEMMA RecvPulledKeeps ==
  ASSUME IInv, RecvPulled
  PROVE  IInv'
<1>1. /\ waiting["consumer"] = "pull" /\ down["consumer"] # <<>>
      /\ down' = [down EXCEPT !["consumer"] = Tail(@)]
      /\ waiting' = [waiting EXCEPT !["consumer"] = "no"]
      /\ late' = (late \/ Head(down["consumer"]).type = "push")
      /\ misread' = misread
      /\ \/ UNCHANGED up
         \/ \E l, n : up' = [up EXCEPT !["consumer"] = @ \o <<ConsumerAck(l, n)>>]
  BY DEF RecvPulled, Use, Send
<1>2. Peered /\ Peered' /\ IsSeq(U)
  BY <1>1 DEF IInv, WiresOK, Peered, U
<1>3. (late => late') /\ (Head(D).type = "push" => late')
  BY <1>1 DEF D
<1>4. D # <<>> /\ D' = Tail(D) /\ W # "no" /\ W' = "no"
  BY <1>1, <1>2 DEF Peered, Peers, D, W
<1>5. CASE UNCHANGED up
  <2>1. U' = U /\ ServerAck(0).type = "ack"
    BY <1>5 DEF U, ServerAck
  <2>2. QED
    BY <1>1, <1>2, <1>3, <1>4, <2>1, ReadsOne
<1>6. ASSUME NEW l, NEW n, up' = [up EXCEPT !["consumer"] = @ \o <<ConsumerAck(l, n)>>]
      PROVE  IInv'
  <2>1. U' = U \o <<ConsumerAck(l, n)>> /\ ConsumerAck(l, n).type = "ack"
    BY <1>2, <1>6 DEF Peered, Peers, U, ConsumerAck
  <2>2. U' = Append(U, ConsumerAck(l, n))
    BY <1>2, <2>1, AddsOne
  <2>3. QED
    BY <1>1, <1>2, <1>3, <1>4, <2>1, <2>2, ReadsOne
<1>7. QED
  BY <1>1, <1>5, <1>6

LEMMA ConsumeMessageKeeps ==
  ASSUME IInv, ConsumeMessage
  PROVE  IInv'
<1>1. /\ waiting["consumer"] = "no" /\ down["consumer"] # <<>>
      /\ down' = [down EXCEPT !["consumer"] = Tail(down["consumer"])]
      /\ UNCHANGED <<waiting, late>>
      /\ \/ UNCHANGED up
         \/ \E l, n : up' = [up EXCEPT !["consumer"] = @ \o <<ConsumerAck(l, n)>>]
  BY DEF ConsumeMessage, Use, Send, lost
<1>2. "consumer" \in misread' => Head(down["consumer"]).type = "reply" \/ "consumer" \in misread
  BY DEF ConsumeMessage
<1>3. Peered /\ Peered' /\ IsSeq(U)
  BY <1>1 DEF IInv, WiresOK, Peered, U
<1>4. /\ D # <<>> /\ D' = Tail(D) /\ W = "no" /\ W' = "no"
      /\ late => late'
      /\ "consumer" \in misread' => Head(D).type = "reply" \/ "consumer" \in misread
  BY <1>1, <1>2, <1>3 DEF Peered, Peers, D, W
<1>5. CASE UNCHANGED up
  <2>1. U' = U /\ ServerAck(0).type = "ack"
    BY <1>5 DEF U, ServerAck
  <2>2. QED
    BY <1>3, <1>4, <2>1, ReadsOne
<1>6. ASSUME NEW l, NEW n, up' = [up EXCEPT !["consumer"] = @ \o <<ConsumerAck(l, n)>>]
      PROVE  IInv'
  <2>1. U' = U \o <<ConsumerAck(l, n)>> /\ ConsumerAck(l, n).type = "ack"
    BY <1>3, <1>6 DEF Peered, Peers, U, ConsumerAck
  <2>2. U' = Append(U, ConsumerAck(l, n))
    BY <1>3, <2>1, AddsOne
  <2>3. QED
    BY <1>3, <1>4, <2>1, <2>2, ReadsOne
<1>7. QED
  BY <1>1, <1>5, <1>6

LEMMA SendConsumerAckKeeps ==
  ASSUME IInv, SendConsumerAck
  PROVE  IInv'
<1>1. /\ up' = [up EXCEPT !["consumer"] = @ \o <<ConsumerAck(manual.level, manual.seq)>>]
      /\ UNCHANGED <<down, waiting, late, misread>>
  BY DEF SendConsumerAck, Send, lost
<1>2. Peered /\ Peered' /\ IsSeq(U)
  BY <1>1 DEF IInv, WiresOK, Peered, U
<1>3. /\ U' = U \o <<ConsumerAck(manual.level, manual.seq)>> /\ D' = D /\ W' = W
      /\ ConsumerAck(manual.level, manual.seq).type = "ack"
  BY <1>1, <1>2 DEF Peered, Peers, U, D, W, ConsumerAck
<1>4. U' = Append(U, ConsumerAck(manual.level, manual.seq))
  BY <1>2, <1>3, AddsOne
<1>5. QED
  BY <1>1, <1>2, <1>3, <1>4, AcksOne

(* What only the producer's wires see. *)
LEMMA ProducerKeeps ==
  ASSUME IInv, PuslishMessage \/ RecvServerAck \/ ReSendMsg \/ OnPublishMessage \/ SendMultiAck
  PROVE  IInv'
<1>1. /\ UNCHANGED <<waiting, late>>
      /\ "consumer" \in misread' => "consumer" \in misread
      /\ UNCHANGED up \/ \E s : up' = [up EXCEPT !["producer"] = s]
      /\ UNCHANGED down \/ \E s : down' = [down EXCEPT !["producer"] = s]
  <2>1. CASE PuslishMessage
    BY <2>1 DEF PuslishMessage, Send, lost
  <2>2. CASE RecvServerAck
    BY <2>2 DEF RecvServerAck, lost
  <2>3. CASE ReSendMsg
    BY <2>3 DEF ReSendMsg, Send, lost
  <2>4. CASE OnPublishMessage
    <3>1. UNCHANGED <<waiting, late, misread>>
      BY <2>4 DEF OnPublishMessage, Clients, lost
    <3>2. up' = [up EXCEPT !["producer"] = Tail(@)]
      BY <2>4 DEF OnPublishMessage, Taken
    <3>3. UNCHANGED down \/ \E p : down' = [down EXCEPT !["producer"] = Append(@, p)]
      BY <2>4 DEF OnPublishMessage, AcknowledgeDuplicate, Answer, Acknowledge, Put, RingFull
    <3>4. QED
      BY <3>1, <3>2, <3>3
  <2>5. CASE SendMultiAck
    BY <2>5 DEF SendMultiAck, Put, Clients, lost
  <2>6. QED
    BY <2>1, <2>2, <2>3, <2>4, <2>5
<1>2. Peered' /\ U' = U /\ D' = D /\ W' = W
  BY <1>1 DEF IInv, WiresOK, Peered, Peers, U, D, W
<1>3. QED
  BY <1>1, <1>2, OthersMove

LEMMA PushMessageKeeps ==
  ASSUME IInv, PushMessage
  PROVE  IInv'
<1>1. UNCHANGED <<up, waiting, late, misread>>
  BY DEF PushMessage, Clients, lost
<1>2. PICK l, n, id : down' = [down EXCEPT !["consumer"] = Append(@, Message("push", l, n, id))]
  BY DEF PushMessage, Put
<1>3. Message("push", l, n, id).type = "push"
  BY DEF Message
<1>4. Peered' /\ U' = U /\ W' = W /\ D' = Append(D, Message("push", l, n, id))
  BY <1>1, <1>2 DEF IInv, WiresOK, Peered, Peers, U, D, W
<1>5. QED
  BY <1>1, <1>3, <1>4, PushesOne

LEMMA OnClientAckKeeps ==
  ASSUME IInv, OnClientAck
  PROVE  IInv'
<1>1. /\ up["consumer"] # <<>> /\ up' = [up EXCEPT !["consumer"] = Tail(@)]
      /\ UNCHANGED <<down, waiting, late, misread>>
  BY DEF OnClientAck, Take, Taken, Clients, lost
<1>2. Peered' /\ U # <<>> /\ U' = Tail(U) /\ D' = D /\ W' = W
  BY <1>1 DEF IInv, WiresOK, Peered, Peers, U, D, W
<1>3. QED
  BY <1>1, <1>2, TakesAck

(* A request is answered, or its answer dropped. *)
LEMMA RequestKeeps ==
  ASSUME IInv, NEW c \in Peers, up[c] # <<>>, Head(up[c]).type \in Asks,
         up' = [up EXCEPT ![c] = Tail(@)],
         UNCHANGED down \/ \E p : p.type \in Answered /\ down' = [down EXCEPT ![c] = Append(@, p)],
         UNCHANGED <<waiting, late, misread>>
  PROVE  IInv'
<1>1. PICK p : p.type \in Answered /\ (UNCHANGED down \/ down' = [down EXCEPT ![c] = Append(@, p)])
  <2>1. Reply(TRUE).type \in Answered
    BY DEF Reply, Answered
  <2>2. QED
    BY <2>1
<1>2. Peered /\ Peered'
  BY <1>1 DEF IInv, WiresOK, Peered
<1>3. CASE c = "consumer"
  <2>1. U # <<>> /\ Head(U).type \in Asks /\ U' = Tail(U) /\ W' = W
    BY <1>2, <1>3 DEF Peered, Peers, U, W
  <2>2. D' = D \/ D' = Append(D, p)
    BY <1>1, <1>2, <1>3 DEF Peered, Peers, D
  <2>3. QED
    BY <1>1, <1>2, <2>1, <2>2, AnswersOne
<1>4. CASE c # "consumer"
  <2>1. U' = U /\ D' = D /\ W' = W
    BY <1>1, <1>2, <1>4 DEF Peered, Peers, U, D, W
  <2>2. QED
    BY <1>2, <2>1, OthersMove
<1>5. QED
  BY <1>3, <1>4

LEMMA HandlerKeeps ==
  ASSUME IInv, NEW c \in Peers,
         \/ OnRecvMessage \/ OnCreateSubscribe \/ OnDeleteExchange(c) \/ OnDeleteQueue(c)
         \/ \E type \in {"create exchange", "create queue", "create binding"} : OnCreate(c, type)
  PROVE  IInv'
<1>1. \A d, ok : Answer(d, ok) =>
        UNCHANGED down \/ \E p : p.type \in Answered /\ down' = [down EXCEPT ![d] = Append(@, p)]
  <2>1. \A ok : Reply(ok).type \in Answered
    BY DEF Reply, Answered
  <2>2. QED
    BY <2>1 DEF Answer, Put, RingFull
<1>2. \E d \in Peers :
        /\ up[d] # <<>> /\ Head(up[d]).type \in Asks /\ up' = [up EXCEPT ![d] = Tail(@)]
        /\ UNCHANGED down \/ \E p : p.type \in Answered /\ down' = [down EXCEPT ![d] = Append(@, p)]
        /\ UNCHANGED <<waiting, late, misread>>
  <2>1. CASE OnRecvMessage
    <3>1. /\ up["consumer"] # <<>> /\ Head(up["consumer"]).type = "pull"
          /\ up' = [up EXCEPT !["consumer"] = Tail(@)]
          /\ UNCHANGED <<waiting, late, misread>>
      BY <2>1 DEF OnRecvMessage, Take, Taken, Clients, lost
    <3>2. \A l, n, id : Message("pull", l, n, id).type \in Answered
      BY DEF Message, Answered
    <3>3. \/ Answer("consumer", FALSE)
          \/ \E l, n, id : Put("consumer", Message("pull", l, n, id))
      BY <2>1 DEF OnRecvMessage
    <3>4. \/ UNCHANGED down
          \/ \E p : p.type \in Answered /\ down' = [down EXCEPT !["consumer"] = Append(@, p)]
      BY <1>1, <3>2, <3>3 DEF Put
    <3>5. "consumer" \in Peers /\ "pull" \in Asks
      BY DEF Peers, Asks
    <3>6. QED
      BY <3>1, <3>4, <3>5
  <2>2. CASE OnCreateSubscribe
    <3>1. /\ up["consumer"] # <<>> /\ Head(up["consumer"]).type = "subscribe"
          /\ up' = [up EXCEPT !["consumer"] = Tail(@)]
          /\ Answer("consumer", "queue" \in declared)
          /\ UNCHANGED <<waiting, late, misread>>
      BY <2>2 DEF OnCreateSubscribe, Take, Taken, Clients, lost
    <3>2. "consumer" \in Peers /\ "subscribe" \in Asks
      BY DEF Peers, Asks
    <3>3. QED
      BY <1>1, <3>1, <3>2
  <2>3. CASE OnDeleteExchange(c)
    <3>1. /\ up[c] # <<>> /\ Head(up[c]).type = "delete exchange"
          /\ up' = [up EXCEPT ![c] = Tail(@)]
          /\ Answer(c, "exchange" \in declared)
          /\ UNCHANGED <<waiting, late, misread>>
      BY <2>3 DEF OnDeleteExchange, Take, Taken, Clients, lost
    <3>2. QED
      BY <1>1, <3>1 DEF Asks
  <2>4. CASE OnDeleteQueue(c)
    <3>1. /\ up[c] # <<>> /\ Head(up[c]).type = "delete queue"
          /\ up' = [up EXCEPT ![c] = Tail(@)]
          /\ Answer(c, "queue" \in declared)
          /\ UNCHANGED <<waiting, late, misread>>
      BY <2>4 DEF OnDeleteQueue, Take, Taken, Clients, lost
    <3>2. QED
      BY <1>1, <3>1 DEF Asks
  <2>5. ASSUME NEW type \in {"create exchange", "create queue", "create binding"}, OnCreate(c, type)
        PROVE  /\ up[c] # <<>> /\ Head(up[c]).type \in Asks /\ up' = [up EXCEPT ![c] = Tail(@)]
               /\ \/ UNCHANGED down
                  \/ \E p : p.type \in Answered /\ down' = [down EXCEPT ![c] = Append(@, p)]
               /\ UNCHANGED <<waiting, late, misread>>
    <3>1. /\ up[c] # <<>> /\ Head(up[c]).type = type
          /\ up' = [up EXCEPT ![c] = Tail(@)]
          /\ \E ok : Answer(c, ok)
          /\ UNCHANGED <<waiting, late, misread>>
      BY <2>5 DEF OnCreate, Take, Taken, Clients, lost
    <3>2. QED
      BY <1>1, <2>5, <3>1 DEF Asks
  <2>6. QED
    BY <2>1, <2>2, <2>3, <2>4, <2>5
<1>3. QED
  BY <1>2, RequestKeeps

LEMMA Initially ==
  ASSUME Init
  PROVE  IInv
<1>1. IsSeq(<<>>)
  <2>1. <<>> \in Seq({})
    BY EmptySeq
  <2>2. QED
    BY <2>1 DEF IsSeq
<1>2. Len(<<>>) = 0
  OBVIOUS
<1>3. \A T : AllOf(<<>>, T) /\ NoneOf(<<>>, T)
  BY <1>2 DEF AllOf, NoneOf
<1>4. up["consumer"] = <<>> /\ down["consumer"] = <<>> /\ waiting["consumer"] = "no"
  BY DEF Init, Peers
<1>5. WiresOK
  BY <1>1, <1>4 DEF Init, WiresOK
<1>6. InStep /\ OutOfStep
  BY <1>3, <1>4 DEF Init, InStep, OutOfStep
<1>7. QED
  BY <1>5, <1>6 DEF IInv

LEMMA NextKeeps ==
  ASSUME IInv, Next
  PROVE  IInv'
<1>1. CASE RecvStep
  BY <1>1, RecvReplyKeeps DEF RecvStep
<1>2. CASE RecvPulled
  BY <1>2, RecvPulledKeeps
<1>3. CASE ClientStep
  <2>1. \A c \in Peers, what \in Asks : \A level : Call(c, what, level) => IInv'
    BY CallKeeps
  <2>2. /\ \A c \in Peers : CreateExchange(c) \/ CreateQueue(c) \/ CreateBinding(c)
                            \/ DeleteExchange(c) \/ DeleteQueue(c) => IInv'
        /\ \A level : CreateSubscribe(level) \/ RecvMessage(level) => IInv'
        /\ CancelSubscribe => IInv'
    BY <2>1 DEF CreateExchange, CreateQueue, CreateBinding, DeleteExchange, DeleteQueue, Ask,
       CreateSubscribe, RecvMessage, CancelSubscribe, Asks, Peers
  <2>3. QED
    BY <1>3, <2>2, ProducerKeeps, ConsumeMessageKeeps, SendConsumerAckKeeps DEF ClientStep
<1>4. CASE BrokerStep
  <2>1. "consumer" \in Peers
    BY DEF Peers
  <2>2. QED
    BY <1>4, <2>1, ProducerKeeps, PushMessageKeeps, OnClientAckKeeps, HandlerKeeps DEF BrokerStep
<1>5. QED
  BY <1>1, <1>2, <1>3, <1>4 DEF Next

\* The inductive invariant: what is on the consumer's two wires, and what that
\* has to do with the call in progress, while no call took a push for its answer.
THEOREM Invariant == Spec => []IInv
<1>1. ASSUME IInv, [Next]_vars
      PROVE  IInv'
  <2>1. CASE UNCHANGED vars
    <3>1. /\ up' = up /\ down' = down /\ waiting' = waiting /\ misread' = misread
          /\ late => late'
      BY <2>1 DEF vars
    <3>2. Peered' /\ U' = U /\ D' = D /\ W' = W
      BY <1>1, <3>1 DEF IInv, WiresOK, Peered, U, D, W
    <3>3. QED
      BY <1>1, <3>1, <3>2, OthersMove
  <2>2. QED
    BY <1>1, <2>1, NextKeeps
<1>2. QED
  BY <1>1, Initially, PTL DEF Spec

\* ConsumeMessage reads a reply as a message only after one of the consumer's
\* calls has thrown a pushed message away as its answer (client.cpp:965): nothing
\* else, lost answers included, gets requests and answers out of step.
THEOREM StepIsLostByPushes == Spec => []OutOfStep
<1>1. IInv => OutOfStep
  BY DEF IInv
<1>2. QED
  BY <1>1, Invariant, PTL
-----------------------------------------------------------------------------
(* Acceptance. *)
LEMMA PublishKeeps ==
  ASSUME AcceptedKnown, NEW n, n \notin producerSeqs,
         accepted' = Append(accepted, n), producerSeqs' = producerSeqs \cup {n}
  PROVE  AcceptedKnown'
<1> DEFINE T == producerSeqs \cup {n}
           s == Append(accepted, n)
<1>1. accepted \in Seq(T) /\ n \in T
  BY DEF AcceptedKnown
<1> HIDE DEF T
<1>2. /\ s \in Seq(T) /\ Len(s) = Len(accepted) + 1 /\ Len(accepted) \in Nat
      /\ \A i \in 1 .. Len(accepted) : s[i] = accepted[i]
      /\ s[Len(accepted) + 1] = n
  BY <1>1, AppendProperties
<1>3. DOMAIN s = 1 .. Len(s) /\ DOMAIN accepted = 1 .. Len(accepted)
  BY <1>1, <1>2
<1>4. \A i \in 1 .. Len(accepted) : accepted[i] # n
  BY DEF AcceptedKnown
<1> HIDE DEF s
<1>5. \A i \in 1 .. Len(s) : i \in 1 .. Len(accepted) \/ i = Len(accepted) + 1
  BY <1>2
<1>6. IsInjective(s)
  BY <1>2, <1>3, <1>4, <1>5 DEF AcceptedKnown, IsInjective
<1>7. QED
  BY <1>2, <1>6 DEF AcceptedKnown, s, T

\* A message the producer sends again, because its confirmation is late or lost,
\* is not queued a second time: its number is in m_producerMsgSeqs from the moment
\* it was accepted (OnPublishMessage).
THEOREM QueuedOnce == Spec => []AcceptedOnce
<1>1. Init => AcceptedKnown
  BY EmptySeq DEF Init, AcceptedKnown, IsInjective
<1>2. ASSUME AcceptedKnown, [Next]_vars
      PROVE  AcceptedKnown'
  <2>1. CASE OnPublishMessage
    <3> DEFINE n == Head(up["producer"]).seq
    <3>1. \/ UNCHANGED <<accepted, producerSeqs>>
          \/ /\ n \notin producerSeqs /\ accepted' = Append(accepted, n)
             /\ producerSeqs' = producerSeqs \cup {n}
      BY <2>1 DEF OnPublishMessage, Known
    <3> HIDE DEF n
    <3>2. QED
      BY <1>2, <3>1, PublishKeeps DEF AcceptedKnown
  <2>2. CASE UNCHANGED <<accepted, producerSeqs>>
    BY <1>2, <2>2 DEF AcceptedKnown
  <2>3. RecvStep \/ RecvPulled \/ ClientStep \/ UNCHANGED vars => UNCHANGED <<accepted, producerSeqs>>
    BY DEF RecvStep, RecvReply, RecvPulled, ClientStep, CreateExchange, CreateQueue,
       CreateBinding, DeleteExchange, DeleteQueue, Ask, Call, CreateSubscribe, RecvMessage,
       CancelSubscribe, PuslishMessage, RecvServerAck, ReSendMsg, ConsumeMessage,
       SendConsumerAck, broker, vars
  <2>4. BrokerStep => OnPublishMessage \/ UNCHANGED <<accepted, producerSeqs>>
    BY DEF BrokerStep, SendMultiAck, PushMessage, OnRecvMessage, OnCreateSubscribe,
       OnClientAck, OnCreate, OnDeleteExchange, OnDeleteQueue
  <2>5. QED
    BY <1>2, <2>1, <2>2, <2>3, <2>4 DEF Next
<1>3. AcceptedKnown => AcceptedOnce
  BY DEF AcceptedKnown, AcceptedOnce
<1>4. QED
  BY <1>1, <1>2, <1>3, PTL DEF Spec

-----------------------------------------------------------------------------
(* Types.  What a pack's number may be depends on its type and level.       *)

Asked == {p \in UpPacks : p.type = "publish" => p.seq \in Ids}
Shown == {p \in DownPacks : /\ p.level > 0 => p.seq \in Ids \cup {Text}
                            /\ p.level > 1 => p.seq \in Ids}

WiresT == up \in [Peers -> Seq(Asked)] /\ down \in [Peers -> Seq(Shown)]
CallsT ==
  /\ waiting \in [Peers -> {"no", "create exchange", "create queue", "create binding",
                            "delete exchange", "delete queue", "subscribe", "pull"}]
  /\ calls \in [Peers -> Nat] /\ \A c \in Peers : calls[c] <= MaxCalls(c)
ProducerT ==
  /\ pLevel \in {PRODUCER_SINGLE_ACK, PRODUCER_MUTIL_ACK}
  /\ m_iMsgSeq \in 0 .. MaxMsgs /\ resends \in 0 .. MaxResends
  /\ m_NeedAckMsgList \in Seq(Ids)
ConsumerT ==
  /\ manual \in [level : {0, CONSUMER_SINGLE_ACK, CONSUMER_MUTIL_ACK}, seq : NoSeq .. MaxMsgs - 1]
  /\ manualAcks \in 0 .. MaxManualAcks
  /\ m_SeqSet \subseteq Ids \cup {Text} /\ given \subseteq Ids /\ swallowed \subseteq Ids
  /\ late \in BOOLEAN /\ misread \subseteq Peers
BrokerT ==
  /\ declared \subseteq {"exchange", "queue", "binding"}
  /\ queue \in Seq(Ids) /\ accepted \in Seq(Ids)
  /\ subscribed \in NoSub .. 3
  /\ unacked \subseteq [seq : Ids, id : Ids]
  /\ producerSeqs \subseteq Ids /\ lastSeq \in Ids \cup {NoSeq} /\ hung \in BOOLEAN
  /\ drops \in 0 .. MaxDrops /\ dropped \subseteq Peers
  /\ refused \subseteq Ids /\ cleared \subseteq Ids

\* A number is used up for a message that has left the queue.
Counted == brokerSeq \in Nat /\ brokerSeq + Len(queue) <= Len(accepted)

TInv == WiresT /\ CallsT /\ ProducerT /\ ConsumerT /\ BrokerT /\ Counted /\ AcceptedKnown

LEMMA Constants ==
  /\ MaxMsgs \in Nat /\ MaxResends \in Nat /\ MaxDrops \in Nat /\ MaxManualAcks \in Nat
  /\ Text \in Nat /\ Text > MaxMsgs /\ NoSeq = -1 /\ NoMsg = -1 /\ NoSub = -1
  /\ Ids = 0 .. MaxMsgs - 1 /\ Text \notin Ids /\ NoSeq \notin Ids /\ NoMsg \notin Ids
  /\ \A c \in Peers : MaxCalls(c) \in Nat
  /\ SubscribeLevels \subseteq 0 .. 3 /\ PullLevels \subseteq 0 .. 3
BY ClientAssumption DEF Text, NoSeq, NoMsg, NoSub, Ids, MaxCalls

(* More messages are not accepted than there are.                           *)
LEMMA AcceptedFits ==
  ASSUME TInv
  PROVE  Len(accepted) \in 0 .. MaxMsgs
<1>1. accepted \in Seq(Ids) /\ IsInjective(accepted)
  BY DEF TInv, BrokerT, AcceptedKnown
<1> DEFINE S == 1 .. Len(accepted)
<1>2. Len(accepted) \in Nat /\ accepted \in [S -> Ids]
  BY <1>1
<1>3. IsFiniteSet(S) /\ Cardinality(S) = Len(accepted)
  <2>1. IsFiniteSet(1 .. Len(accepted))
        /\ Cardinality(1 .. Len(accepted)) = IF 1 > Len(accepted) THEN 0 ELSE Len(accepted) - 1 + 1
    BY <1>2, FS_Interval
  <2>2. QED
    BY <1>2, <2>1
<1>4. IsFiniteSet(Ids) /\ Cardinality(Ids) = MaxMsgs
  <2>1. IsFiniteSet(0 .. MaxMsgs - 1)
        /\ Cardinality(0 .. MaxMsgs - 1) = IF 0 > MaxMsgs - 1 THEN 0 ELSE MaxMsgs - 1 - 0 + 1
    BY Constants, FS_Interval
  <2>2. QED
    BY <2>1, Constants
<1>5. CASE Len(accepted) > MaxMsgs
  <2> HIDE DEF S
  <2>1. \E x, y \in S : x # y /\ accepted[x] = accepted[y]
    BY <1>2, <1>3, <1>4, <1>5, FS_PigeonHole
  <2>2. DOMAIN accepted = S
    BY <1>2
  <2>3. QED
    BY <1>1, <2>1, <2>2 DEF IsInjective
<1>6. QED
  BY <1>2, <1>5, Constants

LEMMA PackTypes ==
  /\ \A what \in Asks, level \in 0 .. 3 : Request(what, level) \in Asked
  /\ ProducerT => \A n \in Ids : Publish(n) \in Asked
  /\ \A level \in 0 .. 3, n \in NoSeq .. Text : ConsumerAck(level, n) \in Asked
  /\ \A ok : Reply(ok) \in Shown
  /\ \A n \in Ids : ServerAck(n) \in Shown
  /\ \A type \in {"push", "pull"}, level \in 1 .. 3, n, id \in Ids : Message(type, level, n, id) \in Shown
  /\ \A type \in {"push", "pull"}, id \in Ids : Message(type, 0, NoSeq, id) \in Shown
<1>1. \A what \in Asks, level \in 0 .. 3 : Request(what, level) \in Asked
  <2>1. NoSeq \in NoSeq .. Text
    BY Constants
  <2> SUFFICES ASSUME NEW what \in Asks, NEW level \in 0 .. 3
               PROVE  Request(what, level) \in Asked
    OBVIOUS
  <2>2. Request(what, level) \in UpPacks
    BY <2>1 DEF Request, UpPacks, Asks
  <2>3. Request(what, level).type # "publish"
    BY DEF Request, Asks
  <2>4. QED
    BY <2>2, <2>3 DEF Asked
<1>2. ProducerT => \A n \in Ids : Publish(n) \in Asked
  BY Constants DEF ProducerT, Publish, Asked, UpPacks, PRODUCER_SINGLE_ACK, PRODUCER_MUTIL_ACK
<1>3. \A level \in 0 .. 3, n \in NoSeq .. Text : ConsumerAck(level, n) \in Asked
  BY Constants DEF ConsumerAck, Asked, UpPacks
<1>4. \A ok : Reply(ok) \in Shown
  BY Constants DEF Reply, Shown, DownPacks
<1>5. \A n \in Ids : ServerAck(n) \in Shown
  BY Constants DEF ServerAck, Shown, DownPacks
<1>6. \A type \in {"push", "pull"}, level \in 1 .. 3, n, id \in Ids : Message(type, level, n, id) \in Shown
  BY Constants DEF Message, Shown, DownPacks
<1>7. \A type \in {"push", "pull"}, id \in Ids : Message(type, 0, NoSeq, id) \in Shown
  BY Constants DEF Message, Shown, DownPacks
<1>8. QED
  BY <1>1, <1>2, <1>3, <1>4, <1>5, <1>6, <1>7

(* A wire gets packs at its end, or loses them at its front.                *)
LEMMA UpMoves ==
  ASSUME WiresT, NEW c \in Peers
  PROVE  /\ \A p \in Asked : up' = [up EXCEPT ![c] = @ \o <<p>>] => up' \in [Peers -> Seq(Asked)]
         /\ \A s \in Seq(Asked) : up' = [up EXCEPT ![c] = @ \o s] => up' \in [Peers -> Seq(Asked)]
         /\ up[c] # <<>> /\ up' = [up EXCEPT ![c] = Tail(@)] => up' \in [Peers -> Seq(Asked)]
         /\ up[c] # <<>> => Head(up[c]) \in Asked
<1>1. up[c] \in Seq(Asked)
  BY DEF WiresT
<1>2. /\ \A p \in Asked : up[c] \o <<p>> \in Seq(Asked)
      /\ \A s \in Seq(Asked) : up[c] \o s \in Seq(Asked)
      /\ up[c] # <<>> => Tail(up[c]) \in Seq(Asked) /\ Head(up[c]) \in Asked
  BY <1>1, AppendFacts, ConcatFacts, TailFacts
<1>3. QED
  BY <1>2 DEF WiresT

LEMMA DownMoves ==
  ASSUME WiresT, NEW c \in Peers
  PROVE  /\ \A p \in Shown : down' = [down EXCEPT ![c] = Append(@, p)] => down' \in [Peers -> Seq(Shown)]
         /\ down[c] # <<>> /\ down' = [down EXCEPT ![c] = Tail(@)] => down' \in [Peers -> Seq(Shown)]
         /\ down[c] # <<>> => Head(down[c]) \in Shown
         /\ \A k \in 1 .. Len(down[c]) :
              down' = [down EXCEPT ![c] = SubSeq(@, k + 1, Len(@))] => down' \in [Peers -> Seq(Shown)]
<1>1. down[c] \in Seq(Shown)
  BY DEF WiresT
<1>2. /\ \A p \in Shown : Append(down[c], p) \in Seq(Shown)
      /\ down[c] # <<>> => Tail(down[c]) \in Seq(Shown) /\ Head(down[c]) \in Shown
  BY <1>1, AppendFacts, TailFacts
<1>3. \A k \in 1 .. Len(down[c]) : SubSeq(down[c], k + 1, Len(down[c])) \in Seq(Shown)
  <2>1. \A k \in 1 .. Len(down[c]) : k \in 0 .. Len(down[c])
    OBVIOUS
  <2>2. QED
    BY <1>1, <2>1, CutFacts
<1>4. QED
  BY <1>2, <1>3 DEF WiresT

(* The calls.                                                               *)
LEMMA CallTyped ==
  ASSUME TInv, NEW c \in Peers, NEW what \in Asks, NEW level \in 0 .. 3, Call(c, what, level)
  PROVE  TInv'
<1>1. WiresT'
  <2>1. up' = [up EXCEPT ![c] = @ \o <<Request(what, level)>>] /\ down' = down
    BY DEF Call, Send
  <2>2. Request(what, level) \in Asked
    BY PackTypes
  <2>3. QED
    BY <2>1, <2>2, UpMoves DEF TInv, WiresT
<1>2. CallsT'
  <2>1. /\ waiting' = [waiting EXCEPT ![c] = what]
        /\ calls[c] < MaxCalls(c) /\ calls' = [calls EXCEPT ![c] = @ + 1]
    BY DEF Call
  <2>2. waiting \in [Peers -> Asks \cup {"no"}] /\ calls \in [Peers -> Nat]
    BY DEF TInv, CallsT, Asks
  <2>3. \A d \in Peers : calls'[d] \in Nat /\ calls'[d] <= MaxCalls(d)
    <3>1. \A d \in Peers : calls[d] \in Nat /\ calls[d] <= MaxCalls(d) /\ MaxCalls(d) \in Nat
      BY Constants DEF TInv, CallsT
    <3>2. \A d \in Peers : calls'[d] = IF d = c THEN calls[d] + 1 ELSE calls[d]
      BY <2>1, <2>2
    <3>3. calls[c] + 1 \in Nat /\ calls[c] + 1 <= MaxCalls(c)
      BY <2>1, <3>1
    <3>4. QED
      BY <3>1, <3>2, <3>3
  <2>4. waiting' \in [Peers -> Asks \cup {"no"}] /\ calls' \in [Peers -> Nat]
    BY <2>1, <2>2
  <2>5. QED
    BY <2>3, <2>4 DEF CallsT, Asks
<1>3. ProducerT' /\ ConsumerT' /\ BrokerT' /\ Counted' /\ AcceptedKnown'
  BY DEF Call, TInv, ProducerT, ConsumerT, BrokerT, Counted, AcceptedKnown, producer, consumer, broker, lost
<1>4. QED
  BY <1>1, <1>2, <1>3 DEF TInv

LEMMA ShownFacts ==
  ASSUME NEW p \in Shown
  PROVE  /\ p.level \in 0 .. 3 /\ p.seq \in NoSeq .. Text /\ p.id \in Ids \cup {NoMsg}
         /\ p.level > 0 => p.seq \in Ids \cup {Text}
         /\ p.level > 1 => p.seq \in Ids
         /\ p.type \in {"push", "pull", "ack", "reply"}
BY DEF Shown, DownPacks

LEMMA RecvReplyTyped ==
  ASSUME TInv, NEW c \in Peers, RecvReply(c)
  PROVE  TInv'
<1> DEFINE p == Head(down[c])
<1>1. /\ down[c] # <<>> /\ down' = [down EXCEPT ![c] = Tail(@)]
      /\ waiting' = [waiting EXCEPT ![c] = "no"]
      /\ swallowed' = swallowed \cup ({p.id} \ {NoMsg})
      /\ late' = (late \/ p.type = "push")
      /\ UNCHANGED <<up, calls, producer, consumer, broker, misread>>
  BY DEF RecvReply
<1>2. p \in Shown
  BY <1>1, DownMoves DEF TInv
<1> HIDE DEF p
<1>3. WiresT'
  BY <1>1, DownMoves DEF TInv, WiresT
<1>4. CallsT'
  BY <1>1 DEF TInv, CallsT, MaxCalls
<1>5. ConsumerT'
  BY <1>1, <1>2, ShownFacts DEF TInv, ConsumerT, consumer
<1>6. ProducerT' /\ BrokerT' /\ Counted' /\ AcceptedKnown'
  BY <1>1 DEF TInv, ProducerT, BrokerT, Counted, AcceptedKnown, producer, broker
<1>7. QED
  BY <1>3, <1>4, <1>5, <1>6 DEF TInv

(* A pack is used as a message.                                             *)
LEMMA UseTyped ==
  ASSUME TInv, NEW p \in Shown, down["consumer"] # <<>>, Use(p, Tail(down["consumer"]))
  PROVE  /\ WiresT'
         /\ manual' \in [level : {0, CONSUMER_SINGLE_ACK, CONSUMER_MUTIL_ACK}, seq : NoSeq .. MaxMsgs - 1]
         /\ m_SeqSet' \subseteq Ids \cup {Text} /\ given' \subseteq Ids
<1>1. "consumer" \in Peers
  BY DEF Peers
<1>2. down' \in [Peers -> Seq(Shown)]
  BY <1>1, DownMoves DEF TInv, Use
<1>3. up' \in [Peers -> Seq(Asked)]
  <2>1. CASE UNCHANGED up
    BY <2>1 DEF TInv, WiresT
  <2>2. CASE Send("consumer", <<ConsumerAck(p.level, p.seq)>>)
    <3>1. ConsumerAck(p.level, p.seq) \in Asked
      BY PackTypes, ShownFacts
    <3>2. up' = [up EXCEPT !["consumer"] = @ \o <<ConsumerAck(p.level, p.seq)>>]
      BY <2>2 DEF Send
    <3>3. QED
      BY <1>1, <3>1, <3>2, UpMoves DEF TInv
  <2>3. QED
    BY <2>1, <2>2 DEF Use
<1>4. manual' \in [level : {0, CONSUMER_SINGLE_ACK, CONSUMER_MUTIL_ACK}, seq : NoSeq .. MaxMsgs - 1]
  <2>1. p.level \in {CONSUMER_SINGLE_ACK, CONSUMER_MUTIL_ACK} => p.seq \in NoSeq .. MaxMsgs - 1
    BY ShownFacts, Constants DEF CONSUMER_SINGLE_ACK, CONSUMER_MUTIL_ACK
  <2>2. QED
    BY <2>1 DEF Use, TInv, ConsumerT
<1>5. m_SeqSet' \subseteq Ids \cup {Text} /\ given' \subseteq Ids
  BY ShownFacts DEF Use, Remember, TInv, ConsumerT
<1>6. QED
  BY <1>2, <1>3, <1>4, <1>5 DEF WiresT

LEMMA RecvPulledTyped ==
  ASSUME TInv, RecvPulled
  PROVE  TInv'
<1> DEFINE p == Head(down["consumer"])
<1>1. /\ down["consumer"] # <<>>
      /\ \/ /\ down' = [down EXCEPT !["consumer"] = Tail(@)]
            /\ UNCHANGED <<up, manual, m_SeqSet, given>>
         \/ Use(p, Tail(down["consumer"]))
      /\ waiting' = [waiting EXCEPT !["consumer"] = "no"]
      /\ late' = (late \/ p.type = "push")
      /\ UNCHANGED <<calls, manualAcks, producer, broker, misread, swallowed>>
  BY DEF RecvPulled
<1>2. "consumer" \in Peers
  BY DEF Peers
<1>3. p \in Shown
  BY <1>1, <1>2, DownMoves DEF TInv
<1> HIDE DEF p
<1>4. /\ WiresT'
      /\ manual' \in [level : {0, CONSUMER_SINGLE_ACK, CONSUMER_MUTIL_ACK}, seq : NoSeq .. MaxMsgs - 1]
      /\ m_SeqSet' \subseteq Ids \cup {Text} /\ given' \subseteq Ids
  <2>1. CASE down' = [down EXCEPT !["consumer"] = Tail(@)] /\ UNCHANGED <<up, manual, m_SeqSet, given>>
    BY <1>1, <1>2, <2>1, DownMoves DEF TInv, WiresT, ConsumerT
  <2>2. CASE Use(p, Tail(down["consumer"]))
    BY <1>1, <1>3, <2>2, UseTyped
  <2>3. QED
    BY <1>1, <2>1, <2>2
<1>5. CallsT'
  BY <1>1, <1>2 DEF TInv, CallsT, MaxCalls
<1>6. ConsumerT'
  BY <1>1, <1>4 DEF TInv, ConsumerT
<1>7. ProducerT' /\ BrokerT' /\ Counted' /\ AcceptedKnown'
  BY <1>1 DEF TInv, ProducerT, BrokerT, Counted, AcceptedKnown, producer, broker
<1>8. QED
  BY <1>4, <1>5, <1>6, <1>7 DEF TInv

LEMMA ConsumeMessageTyped ==
  ASSUME TInv, ConsumeMessage
  PROVE  TInv'
<1> DEFINE p == Head(down["consumer"])
<1>1. /\ down["consumer"] # <<>>
      /\ Use(p, Tail(down["consumer"]))
      /\ misread' = misread \/ misread' = misread \cup {"consumer"}
      /\ UNCHANGED <<waiting, calls, manualAcks, producer, broker, lost>>
  BY DEF ConsumeMessage
<1>2. "consumer" \in Peers
  BY DEF Peers
<1>3. p \in Shown
  BY <1>1, <1>2, DownMoves DEF TInv
<1> HIDE DEF p
<1>4. /\ WiresT'
      /\ manual' \in [level : {0, CONSUMER_SINGLE_ACK, CONSUMER_MUTIL_ACK}, seq : NoSeq .. MaxMsgs - 1]
      /\ m_SeqSet' \subseteq Ids \cup {Text} /\ given' \subseteq Ids
  BY <1>1, <1>3, UseTyped
<1>5. CallsT'
  BY <1>1 DEF TInv, CallsT, MaxCalls
<1>6. ConsumerT'
  BY <1>1, <1>2, <1>4 DEF TInv, ConsumerT, lost
<1>7. ProducerT' /\ BrokerT' /\ Counted' /\ AcceptedKnown'
  BY <1>1 DEF TInv, ProducerT, BrokerT, Counted, AcceptedKnown, producer, broker
<1>8. QED
  BY <1>4, <1>5, <1>6, <1>7 DEF TInv

LEMMA SendConsumerAckTyped ==
  ASSUME TInv, SendConsumerAck
  PROVE  TInv'
<1>1. /\ manualAcks < MaxManualAcks /\ manualAcks' = manualAcks + 1
      /\ up' = [up EXCEPT !["consumer"] = @ \o <<ConsumerAck(manual.level, manual.seq)>>]
      /\ UNCHANGED <<down, waiting, calls, producer, manual, m_SeqSet, given, broker, misread, lost>>
  BY DEF SendConsumerAck, Send
<1>2. ConsumerAck(manual.level, manual.seq) \in Asked
  <2>1. manual.level \in 0 .. 3 /\ manual.seq \in NoSeq .. Text
    BY Constants DEF TInv, ConsumerT, CONSUMER_SINGLE_ACK, CONSUMER_MUTIL_ACK
  <2>2. QED
    BY <2>1, PackTypes
<1>3. WiresT'
  <2>1. "consumer" \in Peers
    BY DEF Peers
  <2>2. QED
    BY <1>1, <1>2, <2>1, UpMoves DEF TInv, WiresT
<1>4. ConsumerT'
  BY <1>1, Constants DEF TInv, ConsumerT, lost
<1>5. CallsT' /\ ProducerT' /\ BrokerT' /\ Counted' /\ AcceptedKnown'
  BY <1>1 DEF TInv, CallsT, MaxCalls, ProducerT, BrokerT, Counted, AcceptedKnown, producer, broker
<1>6. QED
  BY <1>3, <1>4, <1>5 DEF TInv

LEMMA PuslishMessageTyped ==
  ASSUME TInv, PuslishMessage
  PROVE  TInv'
<1>1. /\ m_iMsgSeq < MaxMsgs /\ m_iMsgSeq' = m_iMsgSeq + 1
      /\ up' = [up EXCEPT !["producer"] = @ \o <<Publish(m_iMsgSeq)>>]
      /\ m_NeedAckMsgList' = Append(m_NeedAckMsgList, m_iMsgSeq)
      /\ UNCHANGED <<down, waiting, calls, pLevel, resends, consumer, broker, misread, lost>>
  BY DEF PuslishMessage, Send
<1>2. m_iMsgSeq \in Ids /\ m_iMsgSeq + 1 \in 0 .. MaxMsgs
  BY <1>1, Constants DEF TInv, ProducerT
<1>3. WiresT'
  <2>1. "producer" \in Peers /\ Publish(m_iMsgSeq) \in Asked
    BY <1>2, PackTypes DEF TInv, Peers
  <2>2. QED
    BY <1>1, <2>1, UpMoves DEF TInv, WiresT
<1>4. ProducerT'
  BY <1>1, <1>2, AppendFacts DEF TInv, ProducerT
<1>5. CallsT' /\ ConsumerT' /\ BrokerT' /\ Counted' /\ AcceptedKnown'
  BY <1>1 DEF TInv, CallsT, MaxCalls, ConsumerT, BrokerT, Counted, AcceptedKnown, consumer, broker, lost
<1>6. QED
  BY <1>3, <1>4, <1>5 DEF TInv

LEMMA RecvServerAckTyped ==
  ASSUME TInv, RecvServerAck
  PROVE  TInv'
<1>1. PICK k \in 1 .. Len(down["producer"]) :
        /\ down' = [down EXCEPT !["producer"] = SubSeq(@, k + 1, Len(@))]
        /\ \E S : m_NeedAckMsgList' = Keep(m_NeedAckMsgList, S)
        /\ misread' = misread \/ misread' = misread \cup {"producer"}
  BY DEF RecvServerAck
<1>2. UNCHANGED <<up, waiting, calls, pLevel, m_iMsgSeq, resends, consumer, broker, lost>>
  BY DEF RecvServerAck
<1>3. "producer" \in Peers
  BY DEF Peers
<1>4. WiresT'
  BY <1>1, <1>2, <1>3, DownMoves DEF TInv, WiresT
<1>5. ProducerT'
  <2>1. m_NeedAckMsgList' \in Seq(Ids)
    BY <1>1, KeepFacts DEF TInv, ProducerT
  <2>2. QED
    BY <1>2, <2>1 DEF TInv, ProducerT
<1>6. ConsumerT'
  BY <1>1, <1>2, <1>3 DEF TInv, ConsumerT, consumer, lost
<1>7. CallsT' /\ BrokerT' /\ Counted' /\ AcceptedKnown'
  BY <1>2 DEF TInv, CallsT, MaxCalls, BrokerT, Counted, AcceptedKnown, broker
<1>8. QED
  BY <1>4, <1>5, <1>6, <1>7 DEF TInv

LEMMA ReSendMsgTyped ==
  ASSUME TInv, ReSendMsg
  PROVE  TInv'
<1>1. PICK k \in 1 .. Len(m_NeedAckMsgList) :
        LET old == SubSeq(m_NeedAckMsgList, 1, k) IN
        /\ resends + k <= MaxResends /\ resends' = resends + k
        /\ up' = [up EXCEPT !["producer"] = @ \o [i \in 1 .. k |-> Publish(old[i])]]
        /\ m_NeedAckMsgList' = SubSeq(m_NeedAckMsgList, k + 1, Len(m_NeedAckMsgList)) \o old
  BY DEF ReSendMsg, Send
<1>2. UNCHANGED <<down, waiting, calls, pLevel, m_iMsgSeq, consumer, broker, misread, lost>>
  BY DEF ReSendMsg
<1> DEFINE old == SubSeq(m_NeedAckMsgList, 1, k)
           new == SubSeq(m_NeedAckMsgList, k + 1, Len(m_NeedAckMsgList))
<1>3. /\ old \in Seq(Ids) /\ Len(old) = k /\ new \in Seq(Ids)
      /\ k \in Nat
  <2>1. m_NeedAckMsgList \in Seq(Ids) /\ k \in 0 .. Len(m_NeedAckMsgList)
    BY DEF TInv, ProducerT
  <2>2. QED
    BY <2>1, CutFacts
<1> HIDE DEF old, new
<1>4. WiresT'
  <2>1. \A i \in 1 .. k : old[i] \in Ids
    BY <1>3
  <2>2. [i \in 1 .. k |-> Publish(old[i])] \in Seq(Asked)
    BY <1>3, <2>1, PackTypes DEF TInv
  <2>3. "producer" \in Peers
    BY DEF Peers
  <2>4. QED
    BY <1>1, <1>2, <2>2, <2>3, UpMoves DEF TInv, WiresT, old
<1>5. ProducerT'
  <2>1. m_NeedAckMsgList' \in Seq(Ids)
    BY <1>1, <1>3, ConcatFacts DEF old, new
  <2>2. resends' \in 0 .. MaxResends
    BY <1>1, <1>3, Constants DEF TInv, ProducerT
  <2>3. QED
    BY <1>2, <2>1, <2>2 DEF TInv, ProducerT
<1>6. CallsT' /\ ConsumerT' /\ BrokerT' /\ Counted' /\ AcceptedKnown'
  BY <1>2 DEF TInv, CallsT, MaxCalls, ConsumerT, BrokerT, Counted, AcceptedKnown, consumer, broker, lost
<1>7. QED
  BY <1>4, <1>5, <1>6 DEF TInv

-----------------------------------------------------------------------------
(* The broker takes a pack and answers.                                     *)
LEMMA TakeTyped ==
  ASSUME TInv, NEW c \in Peers, NEW type, Take(c, type), Taken(c)
  PROVE  up' \in [Peers -> Seq(Asked)] /\ Head(up[c]) \in Asked /\ Head(up[c]).type = type
BY UpMoves DEF TInv, Take, Taken

LEMMA AnswerTyped ==
  ASSUME TInv, NEW c \in Peers
  PROVE  /\ \A ok : Answer(c, ok) => /\ down' \in [Peers -> Seq(Shown)]
                                     /\ drops' \in 0 .. MaxDrops /\ dropped' \subseteq Peers
         /\ \A n \in Ids : Acknowledge(c, n) => /\ down' \in [Peers -> Seq(Shown)]
                                                /\ drops' \in 0 .. MaxDrops
         /\ \A p \in Shown : Put(c, p) => down' \in [Peers -> Seq(Shown)]
<1>1. \A p \in Shown : Put(c, p) => down' \in [Peers -> Seq(Shown)]
  BY DownMoves DEF TInv, Put
<1>2. RingFull => down' \in [Peers -> Seq(Shown)] /\ drops' \in 0 .. MaxDrops
  BY Constants DEF TInv, WiresT, BrokerT, RingFull
<1>3. drops \in 0 .. MaxDrops /\ dropped \subseteq Peers
  BY DEF TInv, BrokerT
<1>4. \A ok : Answer(c, ok) => /\ down' \in [Peers -> Seq(Shown)]
                               /\ drops' \in 0 .. MaxDrops /\ dropped' \subseteq Peers
  BY <1>1, <1>2, <1>3, PackTypes DEF Answer
<1>5. \A n \in Ids : Acknowledge(c, n) => /\ down' \in [Peers -> Seq(Shown)]
                                          /\ drops' \in 0 .. MaxDrops
  BY <1>1, <1>2, <1>3, PackTypes DEF Acknowledge
<1>6. QED
  BY <1>1, <1>4, <1>5

LEMMA ClientsTyped ==
  ASSUME TInv, UNCHANGED Clients
  PROVE  CallsT' /\ ProducerT' /\ ConsumerT'
BY DEF TInv, Clients, CallsT, MaxCalls, ProducerT, ConsumerT, producer, consumer, lost

LEMMA OnPublishMessageTyped ==
  ASSUME TInv, OnPublishMessage
  PROVE  TInv'
<1> DEFINE n == Head(up["producer"]).seq
<1>1. /\ Take("producer", "publish") /\ Taken("producer")
      /\ UNCHANGED <<Clients, declared, subscribed, brokerSeq, unacked, hung, cleared>>
  BY DEF OnPublishMessage
<1>2. "producer" \in Peers
  BY DEF Peers
<1>3. up' \in [Peers -> Seq(Asked)] /\ n \in Ids
  BY <1>1, <1>2, TakeTyped DEF Asked
<1>4. CASE UNCHANGED <<down, drops, queue, producerSeqs, lastSeq, accepted, refused, dropped>>
  BY <1>1, <1>3, <1>4, ClientsTyped DEF TInv, WiresT, BrokerT, Counted, AcceptedKnown
<1>5. CASE /\ Answer("producer", FALSE) /\ refused' = refused \cup {n}
           /\ UNCHANGED <<queue, producerSeqs, lastSeq, accepted>>
  <2>1. /\ down' \in [Peers -> Seq(Shown)]
        /\ drops' \in 0 .. MaxDrops /\ dropped' \subseteq Peers
    BY <1>2, <1>5, AnswerTyped
  <2>2. WiresT' /\ BrokerT'
    BY <1>1, <1>3, <1>5, <2>1 DEF TInv, WiresT, BrokerT
  <2>3. Counted' /\ AcceptedKnown'
    BY <1>1, <1>5 DEF TInv, Counted, AcceptedKnown
  <2>4. QED
    BY <1>1, <2>2, <2>3, ClientsTyped DEF TInv
<1>6. CASE /\ ~Known(n) /\ queue' = Append(queue, n) /\ accepted' = Append(accepted, n)
           /\ producerSeqs' = producerSeqs \cup {n}
           /\ \/ Acknowledge("producer", n) /\ UNCHANGED lastSeq
              \/ lastSeq' = n /\ UNCHANGED <<down, drops>>
           /\ UNCHANGED <<refused, dropped>>
  <2>1. /\ down' \in [Peers -> Seq(Shown)] /\ drops' \in 0 .. MaxDrops
        /\ lastSeq' \in Ids \cup {NoSeq}
    BY <1>2, <1>3, <1>6, AnswerTyped DEF TInv, WiresT, BrokerT
  <2> HIDE DEF n
  <2>2. /\ queue' \in Seq(Ids) /\ Len(queue') = Len(queue) + 1 /\ Len(queue) \in Nat
        /\ accepted' \in Seq(Ids) /\ Len(accepted') = Len(accepted) + 1 /\ Len(accepted) \in Nat
    BY <1>3, <1>6, AppendFacts DEF TInv, BrokerT
  <2>3. WiresT' /\ BrokerT'
    BY <1>1, <1>3, <1>6, <2>1, <2>2 DEF TInv, WiresT, BrokerT
  <2>4. Counted'
    BY <1>1, <2>2 DEF TInv, Counted
  <2>5. AcceptedKnown'
    BY <1>6, PublishKeeps DEF TInv, Known
  <2>6. QED
    BY <1>1, <2>3, <2>4, <2>5, ClientsTyped DEF TInv
<1>7. QED
  BY <1>4, <1>5, <1>6 DEF OnPublishMessage, AcknowledgeDuplicate

LEMMA SendMultiAckTyped ==
  ASSUME TInv, SendMultiAck
  PROVE  TInv'
<1>1. lastSeq \in Ids /\ "producer" \in Peers
  BY DEF SendMultiAck, TInv, BrokerT, Peers
<1>2. down' \in [Peers -> Seq(Shown)]
  BY <1>1, AnswerTyped, PackTypes DEF SendMultiAck
<1>3. WiresT' /\ BrokerT' /\ Counted' /\ AcceptedKnown'
  BY <1>2 DEF SendMultiAck, TInv, WiresT, BrokerT, Counted, AcceptedKnown
<1>4. CallsT' /\ ProducerT' /\ ConsumerT'
  BY ClientsTyped DEF SendMultiAck
<1>5. QED
  BY <1>3, <1>4 DEF TInv

(* The next message of the queue goes out, with a number or without.        *)
LEMMA DeliveryTyped ==
  ASSUME TInv, queue # <<>>, NEW type \in {"push", "pull"}, NEW level \in 0 .. 3,
         Put("consumer", Message(type, level, IF level > 0 THEN brokerSeq ELSE NoSeq, Head(queue))),
         unacked' = IF level > 0 THEN unacked \cup {[seq |-> brokerSeq, id |-> Head(queue)]}
                    ELSE unacked,
         brokerSeq' = IF level > 0 THEN brokerSeq + 1 ELSE brokerSeq,
         queue' = Tail(queue), up' \in [Peers -> Seq(Asked)],
         UNCHANGED <<Clients, declared, subscribed, producerSeqs, lastSeq, hung,
                     accepted, refused, drops, dropped, cleared>>
  PROVE  TInv'
<1>1. /\ queue' \in Seq(Ids) /\ Head(queue) \in Ids
      /\ Len(queue') = Len(queue) - 1 /\ Len(queue) \in Nat /\ Len(queue) > 0
  BY TailFacts DEF TInv, BrokerT
<1>2. brokerSeq \in Ids /\ brokerSeq + Len(queue) <= Len(accepted)
  BY <1>1, AcceptedFits, Constants DEF TInv, Counted
<1>3. down' \in [Peers -> Seq(Shown)]
  <2>1. "consumer" \in Peers
    BY DEF Peers
  <2>2. Message(type, level, IF level > 0 THEN brokerSeq ELSE NoSeq, Head(queue)) \in Shown
    <3>1. CASE level > 0
      <4>1. level \in 1 .. 3
        BY <3>1
      <4>2. QED
        BY <1>1, <1>2, <3>1, <4>1, PackTypes
    <3>2. CASE ~(level > 0)
      <4>1. level = 0
        BY <3>2
      <4>2. QED
        BY <1>1, <3>2, <4>1, PackTypes
    <3>3. QED
      BY <3>1, <3>2
  <2>3. QED
    BY <2>1, <2>2, AnswerTyped
<1>4. unacked' \subseteq [seq : Ids, id : Ids]
  BY <1>1, <1>2 DEF TInv, BrokerT
<1>5. WiresT' /\ BrokerT'
  BY <1>1, <1>3, <1>4 DEF TInv, WiresT, BrokerT
<1>6. Counted'
  <2>1. brokerSeq' = brokerSeq \/ brokerSeq' = brokerSeq + 1
    OBVIOUS
  <2>2. brokerSeq \in Nat /\ Len(accepted) \in Nat
    BY AcceptedFits DEF TInv, Counted
  <2>3. QED
    BY <1>1, <1>2, <2>1, <2>2 DEF Counted
<1>7. QED
  BY <1>5, <1>6, ClientsTyped DEF TInv, AcceptedKnown

LEMMA PushMessageTyped ==
  ASSUME TInv, PushMessage
  PROVE  TInv'
<1> DEFINE level == IF subscribed > 0 THEN subscribed ELSE 0
<1>1. subscribed \in 0 .. 3 /\ subscribed \in NoSub .. 3
  BY Constants DEF PushMessage, TInv, BrokerT
<1>2. level = subscribed /\ level \in 0 .. 3
  BY <1>1
<1>3. queue # <<>> /\ queue' = Tail(queue) /\ up' \in [Peers -> Seq(Asked)]
  BY DEF PushMessage, TInv, WiresT
<1>4. CASE level > 0
  BY <1>2, <1>3, <1>4, DeliveryTyped DEF PushMessage
<1>5. CASE ~(level > 0)
  <2>1. level = 0
    BY <1>2, <1>5
  <2>2. QED
    BY <1>2, <1>3, <1>5, <2>1, DeliveryTyped DEF PushMessage
<1>6. QED
  BY <1>4, <1>5

LEMMA OnRecvMessageTyped ==
  ASSUME TInv, OnRecvMessage
  PROVE  TInv'
<1> DEFINE level == Head(up["consumer"]).level
<1>1. "consumer" \in Peers
  BY DEF Peers
<1>2. up' \in [Peers -> Seq(Asked)] /\ level \in 0 .. 3
  BY <1>1, TakeTyped DEF OnRecvMessage, Asked, UpPacks
<1>3. CASE queue = <<>>
  <2>1. /\ down' \in [Peers -> Seq(Shown)]
        /\ drops' \in 0 .. MaxDrops /\ dropped' \subseteq Peers
    BY <1>1, <1>3, AnswerTyped DEF OnRecvMessage
  <2>2. WiresT' /\ BrokerT' /\ Counted' /\ AcceptedKnown'
    BY <1>2, <1>3, <2>1 DEF OnRecvMessage, TInv, WiresT, BrokerT, Counted, AcceptedKnown
  <2>3. QED
    BY <2>2, ClientsTyped DEF OnRecvMessage, TInv
<1>4. CASE queue # <<>>
  <2>1. /\ Put("consumer", Message("pull", level, IF level > 0 THEN brokerSeq ELSE NoSeq, Head(queue)))
        /\ queue' = Tail(queue)
        /\ unacked' = IF level > 0
                      THEN unacked \cup {[seq |-> brokerSeq, id |-> Head(queue)]} ELSE unacked
        /\ brokerSeq' = IF level > 0 THEN brokerSeq + 1 ELSE brokerSeq
        /\ UNCHANGED <<Clients, declared, subscribed, producerSeqs, lastSeq, hung,
                       accepted, refused, drops, dropped, cleared>>
    BY <1>4 DEF OnRecvMessage
  <2> HIDE DEF level
  <2>2. QED
    BY <1>2, <1>4, <2>1, DeliveryTyped
<1>5. QED
  BY <1>3, <1>4

LEMMA OnCreateSubscribeTyped ==
  ASSUME TInv, OnCreateSubscribe
  PROVE  TInv'
<1>1. "consumer" \in Peers
  BY DEF Peers
<1>2. up' \in [Peers -> Seq(Asked)] /\ Head(up["consumer"]).level \in 0 .. 3
  BY <1>1, TakeTyped DEF OnCreateSubscribe, Asked, UpPacks
<1>3. /\ down' \in [Peers -> Seq(Shown)]
      /\ drops' \in 0 .. MaxDrops /\ dropped' \subseteq Peers
  BY <1>1, AnswerTyped DEF OnCreateSubscribe
<1>4. subscribed' \in NoSub .. 3
  BY <1>2, Constants DEF OnCreateSubscribe, TInv, BrokerT
<1>5. WiresT' /\ BrokerT' /\ Counted' /\ AcceptedKnown'
  BY <1>2, <1>3, <1>4 DEF OnCreateSubscribe, TInv, WiresT, BrokerT, Counted, AcceptedKnown
<1>6. QED
  BY <1>5, ClientsTyped DEF OnCreateSubscribe, TInv

LEMMA OnCreateTyped ==
  ASSUME TInv, NEW c \in Peers, NEW type \in {"create exchange", "create queue", "create binding"},
         OnCreate(c, type)
  PROVE  TInv'
<1>1. up' \in [Peers -> Seq(Asked)]
  BY TakeTyped DEF OnCreate
<1>2. /\ down' \in [Peers -> Seq(Shown)]
      /\ drops' \in 0 .. MaxDrops /\ dropped' \subseteq Peers
  BY AnswerTyped DEF OnCreate
<1>3. declared' \subseteq {"exchange", "queue", "binding"}
  BY DEF OnCreate, TInv, BrokerT
<1>4. WiresT' /\ BrokerT' /\ Counted' /\ AcceptedKnown'
  BY <1>1, <1>2, <1>3 DEF OnCreate, TInv, WiresT, BrokerT, Counted, AcceptedKnown
<1>5. QED
  BY <1>4, ClientsTyped DEF OnCreate, TInv

LEMMA OnDeleteTyped ==
  ASSUME TInv, NEW c \in Peers, OnDeleteExchange(c) \/ OnDeleteQueue(c)
  PROVE  TInv'
<1>1. up' \in [Peers -> Seq(Asked)]
  BY TakeTyped DEF OnDeleteExchange, OnDeleteQueue
<1>2. /\ down' \in [Peers -> Seq(Shown)]
      /\ drops' \in 0 .. MaxDrops /\ dropped' \subseteq Peers
  BY AnswerTyped DEF OnDeleteExchange, OnDeleteQueue
<1>3. /\ queue \in Seq(Ids) /\ ToSet(queue) \subseteq Ids /\ <<>> \in Seq(Ids)
      /\ Len(queue) \in Nat /\ Len(<<>>) = 0
  BY RangeFacts DEF TInv, BrokerT
<1>4. UNCHANGED <<Clients, brokerSeq, unacked, producerSeqs, lastSeq, hung, accepted, refused>>
  BY DEF OnDeleteExchange, OnDeleteQueue
<1>5. /\ queue' \in {queue, <<>>} /\ declared' \subseteq declared
      /\ subscribed' \in {subscribed, NoSub} /\ cleared' \subseteq Ids
  BY <1>3 DEF OnDeleteExchange, OnDeleteQueue, TInv, BrokerT
<1>6. WiresT' /\ BrokerT'
  <2>1. subscribed \in NoSub .. 3 /\ NoSub \in NoSub .. 3 /\ declared \subseteq {"exchange", "queue", "binding"}
    BY Constants DEF TInv, BrokerT
  <2>2. /\ queue' \in Seq(Ids) /\ subscribed' \in NoSub .. 3
        /\ declared' \subseteq {"exchange", "queue", "binding"}
    BY <1>3, <1>5, <2>1
  <2>3. QED
    BY <1>1, <1>2, <1>4, <1>5, <2>2 DEF TInv, WiresT, BrokerT
<1>7. Counted' /\ AcceptedKnown'
  <2>1. Len(queue') <= Len(queue) /\ Len(queue') \in Nat
    BY <1>3, <1>5
  <2>2. Len(accepted) \in Nat
    BY AcceptedFits
  <2>3. QED
    BY <1>3, <1>4, <2>1, <2>2 DEF TInv, Counted, AcceptedKnown
<1>8. QED
  BY <1>4, <1>6, <1>7, ClientsTyped DEF TInv

LEMMA OnClientAckTyped ==
  ASSUME TInv, OnClientAck
  PROVE  TInv'
<1>1. "consumer" \in Peers
  BY DEF Peers
<1>2. up' \in [Peers -> Seq(Asked)]
  BY <1>1, TakeTyped DEF OnClientAck
<1>3. unacked' \subseteq unacked
  BY DEF OnClientAck, Covers, TInv, BrokerT
<1>4. WiresT' /\ BrokerT' /\ Counted' /\ AcceptedKnown'
  BY <1>2, <1>3 DEF OnClientAck, TInv, WiresT, BrokerT, Counted, AcceptedKnown
<1>5. QED
  BY <1>4, ClientsTyped DEF OnClientAck, TInv

-----------------------------------------------------------------------------
LEMMA InitTyped ==
  ASSUME Init
  PROVE  TInv
<1>1. \A X : <<>> \in Seq(X)
  BY EmptySeq
<1>2. WiresT /\ CallsT
  BY <1>1, Constants DEF Init, WiresT, CallsT
<1>3. ProducerT
  BY <1>1, Constants DEF Init, ProducerT
<1>4. ConsumerT
  <2>1. manual \in [level : {0, CONSUMER_SINGLE_ACK, CONSUMER_MUTIL_ACK}, seq : NoSeq .. MaxMsgs - 1]
    BY Constants DEF Init
  <2>2. 0 \in 0 .. MaxManualAcks
    BY Constants
  <2>3. QED
    BY <2>1, <2>2 DEF Init, ConsumerT
<1>5. BrokerT
  <2>1. queue \in Seq(Ids) /\ accepted \in Seq(Ids)
    BY <1>1 DEF Init
  <2>2. subscribed \in NoSub .. 3 /\ drops \in 0 .. MaxDrops /\ lastSeq \in Ids \cup {NoSeq}
    BY Constants DEF Init
  <2>3. QED
    BY <2>1, <2>2 DEF Init, BrokerT
<1>6. Counted /\ AcceptedKnown
  BY <1>1 DEF Init, Counted, AcceptedKnown, IsInjective
<1>7. QED
  BY <1>2, <1>3, <1>4, <1>5, <1>6 DEF TInv

LEMMA NextTyped ==
  ASSUME TInv, [Next]_vars
  PROVE  TInv'
<1>1. CASE UNCHANGED vars
  BY <1>1 DEF vars, TInv, WiresT, CallsT, MaxCalls, ProducerT, ConsumerT, BrokerT, Counted, AcceptedKnown
<1>2. CASE RecvStep \/ RecvPulled
  BY <1>2, RecvReplyTyped, RecvPulledTyped DEF RecvStep
<1>3. CASE ClientStep
  <2>1. \A c \in Peers, what \in Asks, level \in 0 .. 3 : Call(c, what, level) => TInv'
    BY CallTyped
  <2>2. 0 \in 0 .. 3 /\ SubscribeLevels \subseteq 0 .. 3 /\ PullLevels \subseteq 0 .. 3
    BY Constants
  <2>3. /\ \A c \in Peers : CreateExchange(c) \/ CreateQueue(c) \/ CreateBinding(c)
                            \/ DeleteExchange(c) \/ DeleteQueue(c) => TInv'
        /\ \A level \in SubscribeLevels : CreateSubscribe(level) => TInv'
        /\ \A level \in PullLevels : RecvMessage(level) => TInv'
        /\ CancelSubscribe => TInv'
    BY <2>1, <2>2 DEF CreateExchange, CreateQueue, CreateBinding, DeleteExchange, DeleteQueue, Ask,
       CreateSubscribe, RecvMessage, CancelSubscribe, Asks, Peers
  <2>4. QED
    BY <1>3, <2>3, PuslishMessageTyped, RecvServerAckTyped, ReSendMsgTyped, ConsumeMessageTyped,
       SendConsumerAckTyped DEF ClientStep
<1>4. CASE BrokerStep
  BY <1>4, OnPublishMessageTyped, SendMultiAckTyped, PushMessageTyped, OnRecvMessageTyped,
     OnCreateSubscribeTyped, OnClientAckTyped, OnCreateTyped, OnDeleteTyped DEF BrokerStep
<1>5. QED
  BY <1>1, <1>2, <1>3, <1>4 DEF Next

\* The inductive invariant behind the types: a number is used for a message that
\* has left the queue, so there are never more numbers than messages accepted.
THEOREM TypesHold == Spec => []TInv
<1>1. Init => TInv
  BY InitTyped
<1>2. TInv /\ [Next]_vars => TInv'
  BY NextTyped
<1>3. QED
  BY <1>1, <1>2, PTL DEF Spec

\* Numbers, levels and packs stay what the clients and the broker take them for,
\* also a number read out of a reply's text (client.cpp:746, 1004).
THEOREM TypeCorrect == Spec => []TypeOK
<1>1. TInv => TypeOK
  <2> SUFFICES ASSUME TInv
               PROVE  TypeOK
    OBVIOUS
  <2>1. up \in [Peers -> Seq(UpPacks)] /\ down \in [Peers -> Seq(DownPacks)]
    <3>1. Asked \subseteq UpPacks /\ Shown \subseteq DownPacks
      BY DEF Asked, Shown
    <3>2. Seq(Asked) \subseteq Seq(UpPacks) /\ Seq(Shown) \subseteq Seq(DownPacks)
      BY <3>1
    <3>3. QED
      BY <3>2 DEF TInv, WiresT
  <2>2. brokerSeq \in 0 .. MaxMsgs
    <3>1. Len(queue) \in Nat
      BY DEF TInv, BrokerT
    <3>2. QED
      BY <3>1, AcceptedFits, Constants DEF TInv, Counted
  <2>3. QED
    BY <2>1, <2>2 DEF TInv, CallsT, ProducerT, ConsumerT, BrokerT, TypeOK
<1>2. QED
  BY <1>1, TypesHold, PTL

-----------------------------------------------------------------------------
(* What a producer may forget.  The broker gets the messages in the order   *)
(* of their numbers: when it takes one, it has taken or refused all those   *)
(* with lower numbers, so a batch confirmation covers those only.           *)

P == up["producer"]
Q == down["producer"]
A == ToSet(accepted)

Handled(n)      == n \in A \cup refused
IsPublish(p, n) == p.type = "publish" /\ p.seq = n
\* Message n has come to the broker or is among the first i packs on the way.
Comes(n, i)     == Handled(n) \/ \E j \in 1 .. i : IsPublish(P[j], n)
Confirms(p)     == p.id = NoMsg /\ (p.seq = Text \/ (p.seq \in A /\ p = ServerAck(p.seq)))

Order ==
  /\ \A n \in 0 .. m_iMsgSeq - 1 : Comes(n, Len(P))
  /\ \A i \in 1 .. Len(P) : P[i].type = "publish" => \A n \in 0 .. P[i].seq - 1 : Comes(n, i - 1)
  /\ \A s \in A : \A n \in 0 .. s - 1 : Handled(n)
  /\ producerSeqs \subseteq A
Replies ==
  /\ \A p \in ToSet(Q) : Confirms(p)
  /\ lastSeq # NoSeq => pLevel = PRODUCER_MUTIL_ACK /\ lastSeq \in A
PInv ==
  /\ Order /\ Replies /\ KeptUntilAccepted
  /\ \A n \in ToSet(m_NeedAckMsgList) : n < m_iMsgSeq

LEMMA ProducerKinds ==
  ASSUME TInv
  PROVE  /\ P \in Seq(Asked) /\ Q \in Seq(Shown) /\ ToSet(Q) \subseteq Shown
         /\ Len(P) \in Nat /\ m_iMsgSeq \in 0 .. MaxMsgs /\ m_iMsgSeq \in Nat
         /\ m_NeedAckMsgList \in Seq(Ids) /\ ToSet(m_NeedAckMsgList) \subseteq Ids
         /\ accepted \in Seq(Ids) /\ A \subseteq Ids
         /\ \A i \in 1 .. Len(P) : P[i] \in Asked /\ (P[i].type = "publish" => P[i].seq \in Ids)
<1>1. P \in Seq(Asked) /\ Q \in Seq(Shown)
  BY DEF P, Q, TInv, WiresT, Peers
<1>2. /\ accepted \in Seq(Ids) /\ m_NeedAckMsgList \in Seq(Ids)
      /\ m_iMsgSeq \in 0 .. MaxMsgs
  BY DEF TInv, BrokerT, ProducerT
<1>3. \A i \in 1 .. Len(P) : P[i] \in Asked /\ (P[i].type = "publish" => P[i].seq \in Ids)
  BY <1>1 DEF Asked
<1>4. QED
  BY <1>1, <1>2, <1>3, RangeFacts DEF A

(* The producer sends packs, or the broker takes one.                       *)
LEMMA SendsInOrder ==
  ASSUME TInv, Order, NEW s \in Seq(Asked), P' = P \o s,
         \A i \in 1 .. Len(s) : s[i].type = "publish" => s[i].seq <= m_iMsgSeq,
         \/ m_iMsgSeq' = m_iMsgSeq
         \/ m_iMsgSeq' = m_iMsgSeq + 1 /\ Len(s) = 1 /\ IsPublish(s[1], m_iMsgSeq),
         UNCHANGED <<accepted, refused, producerSeqs>>
  PROVE  Order'
<1>1. /\ P' \in Seq(Asked) /\ Len(P') = Len(P) + Len(s) /\ Len(P) \in Nat /\ Len(s) \in Nat
      /\ \A i \in 1 .. Len(P) : P'[i] = P[i]
      /\ \A i \in 1 .. Len(s) : P'[Len(P) + i] = s[i]
  BY ProducerKinds, ConcatFacts
<1>2. m_iMsgSeq \in Nat
  BY ProducerKinds
<1>3. A' = A /\ \A n : Handled(n)' <=> Handled(n)
  BY DEF A, Handled
<1>4. ASSUME NEW n, NEW i \in 0 .. Len(P), Comes(n, i), NEW k \in i .. Len(P')
      PROVE  Comes(n, k)'
  <2>1. CASE Handled(n)
    BY <1>3, <2>1 DEF Comes
  <2>2. ASSUME NEW j \in 1 .. i, IsPublish(P[j], n)
        PROVE  Comes(n, k)'
    <3>1. j \in 1 .. Len(P) /\ j \in 1 .. k
      BY <1>1, <1>4
    <3>2. IsPublish(P'[j], n)
      BY <1>1, <2>2, <3>1
    <3>3. QED
      BY <3>1, <3>2 DEF Comes, IsPublish
  <2>3. QED
    BY <1>4, <2>1, <2>2 DEF Comes
<1>5. \A n \in 0 .. m_iMsgSeq' - 1 : Comes(n, Len(P))'
  <2>1. ASSUME NEW n \in 0 .. m_iMsgSeq - 1
        PROVE  Comes(n, Len(P))'
    <3>1. Len(P) \in 0 .. Len(P) /\ Len(P') \in Len(P) .. Len(P')
      BY <1>1
    <3>2. QED
      BY <1>4, <2>1, <3>1 DEF Order
  <2>2. ASSUME NEW n, n = m_iMsgSeq, Len(s) = 1, IsPublish(s[1], n)
        PROVE  Comes(n, Len(P))'
    <3> DEFINE j == Len(P) + 1
    <3>1. j \in 1 .. Len(P') /\ P'[j] = s[1]
      BY <1>1, <2>2
    <3> HIDE DEF j
    <3>2. QED
      BY <2>2, <3>1 DEF Comes, IsPublish
  <2>3. \A n \in 0 .. m_iMsgSeq' - 1 : n \in 0 .. m_iMsgSeq - 1
                                      \/ (n = m_iMsgSeq /\ Len(s) = 1 /\ IsPublish(s[1], n))
    BY <1>2
  <2>4. QED
    BY <2>1, <2>2, <2>3
<1>6. ASSUME NEW i \in 1 .. Len(P'), P'[i].type = "publish", NEW n \in 0 .. P'[i].seq - 1
      PROVE  Comes(n, i - 1)'
  <2>1. CASE i \in 1 .. Len(P)
    <3>1. Comes(n, i - 1) /\ i - 1 \in 0 .. Len(P) /\ i - 1 \in i - 1 .. Len(P')
      BY <1>1, <1>6, <2>1 DEF Order
    <3>2. QED
      BY <1>4, <3>1
  <2>2. CASE i \notin 1 .. Len(P)
    <3>1. i - Len(P) \in 1 .. Len(s) /\ i = Len(P) + (i - Len(P))
      BY <1>1, <2>2
    <3>2. P'[i] = s[i - Len(P)]
      BY <1>1, <3>1
    <3>3. P'[i].seq <= m_iMsgSeq /\ P'[i].seq \in Ids
      <4>1. s[i - Len(P)] \in Asked
        BY <3>1
      <4>2. QED
        BY <1>6, <3>1, <3>2, <4>1 DEF Asked
    <3>4. n \in 0 .. m_iMsgSeq - 1
      BY <1>2, <3>3 DEF Ids
    <3>5. Comes(n, Len(P)) /\ Len(P) \in 0 .. Len(P) /\ i - 1 \in Len(P) .. Len(P')
      BY <1>1, <2>2, <3>4 DEF Order
    <3>6. QED
      BY <1>4, <3>5
  <2>3. QED
    BY <2>1, <2>2
<1>7. QED
  BY <1>3, <1>5, <1>6 DEF Order

LEMMA TakesInOrder ==
  ASSUME TInv, Order, P # <<>>, P' = Tail(P), m_iMsgSeq' = m_iMsgSeq,
         A \subseteq A', refused \subseteq refused', producerSeqs' \subseteq A',
         \A n : IsPublish(Head(P), n) => Handled(n)',
         \A n \in A' \ A : IsPublish(Head(P), n)
  PROVE  Order'
<1>1. /\ Len(P') = Len(P) - 1 /\ Len(P) \in Nat /\ Len(P) > 0 /\ Head(P) = P[1]
      /\ \A i \in 1 .. Len(P) - 1 : P'[i] = P[i + 1]
  BY ProducerKinds, TailFacts
<1>2. \A n : Handled(n) => Handled(n)'
  BY DEF Handled
<1>3. ASSUME NEW n, NEW i \in 1 .. Len(P), Comes(n, i), NEW k, k = i - 1
      PROVE  Comes(n, k)'
  <2>1. CASE Handled(n)
    BY <1>2, <2>1 DEF Comes
  <2>2. ASSUME NEW j \in 1 .. i, IsPublish(P[j], n)
        PROVE  Comes(n, k)'
    <3>1. CASE j = 1
      BY <1>1, <2>2, <3>1 DEF Comes
    <3>2. CASE j # 1
      <4>1. j - 1 \in 1 .. k /\ j - 1 \in 1 .. Len(P) - 1 /\ (j - 1) + 1 = j
        BY <1>1, <1>3, <3>2
      <4>2. IsPublish(P'[j - 1], n)
        BY <1>1, <2>2, <4>1
      <4>3. QED
        BY <4>1, <4>2 DEF Comes, IsPublish
    <3>3. QED
      BY <3>1, <3>2
  <2>3. QED
    BY <1>3, <2>1, <2>2 DEF Comes
<1>4. \A n \in 0 .. m_iMsgSeq' - 1 : Comes(n, Len(P))'
  <2>1. Len(P) \in 1 .. Len(P)
    BY <1>1
  <2>2. \A k : k = Len(P) - 1 => \A n \in 0 .. m_iMsgSeq - 1 : Comes(n, k)'
    BY <1>3, <2>1 DEF Order
  <2>3. \A k : k = Len(P') => \A n \in 0 .. m_iMsgSeq - 1 : Comes(n, k)'
    BY <1>1, <2>2
  <2>4. QED
    BY <2>3 DEF Comes
<1>5. ASSUME NEW i \in 1 .. Len(P'), P'[i].type = "publish", NEW n \in 0 .. P'[i].seq - 1
      PROVE  Comes(n, i - 1)'
  <2>1. i + 1 \in 1 .. Len(P) /\ i \in 1 .. Len(P) /\ (i + 1) - 1 = i /\ P'[i] = P[i + 1]
    BY <1>1
  <2>2. Comes(n, i)
    BY <1>5, <2>1 DEF Order
  <2>3. QED
    BY <1>3, <2>1, <2>2
<1>6. ASSUME NEW s \in A', NEW n \in 0 .. s - 1
      PROVE  Handled(n)'
  <2>1. CASE s \in A
    BY <1>2, <2>1 DEF Order
  <2>2. CASE s \notin A
    <3>1. 1 \in 1 .. Len(P) /\ P[1].type = "publish" /\ P[1].seq = s /\ 1 - 1 = 0
      BY <1>1, <2>2 DEF IsPublish
    <3>2. Comes(n, 0)
      BY <3>1 DEF Order
    <3>3. QED
      BY <1>2, <3>2 DEF Comes
  <2>3. QED
    BY <2>1, <2>2
<1>7. QED
  BY <1>4, <1>5, <1>6 DEF Order

(* Another step.                                                            *)
LEMMA OrderStays ==
  ASSUME Order, P' = P, m_iMsgSeq' = m_iMsgSeq, UNCHANGED <<accepted, refused, producerSeqs>>
  PROVE  Order'
<1>1. A' = A /\ \A n : Handled(n)' <=> Handled(n)
  BY DEF A, Handled
<1>2. \A n, k : Comes(n, k) => Comes(n, k)'
  BY <1>1 DEF Comes
<1>3. QED
  BY <1>1, <1>2 DEF Order

(* The replies.                                                             *)
LEMMA ConfirmsStays ==
  ASSUME A \subseteq A'
  PROVE  \A p : Confirms(p) => Confirms(p)'
BY DEF Confirms, ServerAck

LEMMA AnswerConfirms ==
  ASSUME TInv, NEW c \in Peers, \A p \in ToSet(Q) : Confirms(p), A \subseteq A'
  PROVE  /\ \A ok : Answer(c, ok) => \A p \in ToSet(Q') : Confirms(p)'
         /\ \A n \in A' : n \in Ids /\ Acknowledge("producer", n) => \A p \in ToSet(Q') : Confirms(p)'
         /\ \A p : Put("consumer", p) => Q' = Q
<1>1. Q \in Seq(Shown) /\ down \in [Peers -> Seq(Shown)]
  BY ProducerKinds DEF TInv, WiresT
<1>2. \A p \in ToSet(Q) : Confirms(p)'
  BY ConfirmsStays
<1>3. \A p : Put("consumer", p) => Q' = Q
  BY DEF Put, Q
<1>4. ASSUME NEW p \in Shown, Put(c, p) \/ Put("producer", p), Confirms(p)'
      PROVE  \A q \in ToSet(Q') : Confirms(q)'
  <2>1. Q' = Q \/ Q' = Append(Q, p)
    BY <1>1, <1>4 DEF Put, Q, Peers
  <2>2. ToSet(Q') \subseteq ToSet(Q) \cup {p}
    <3>1. ToSet(Append(Q, p)) = ToSet(Q) \cup {p}
      BY <1>1, AppendFacts
    <3>2. QED
      BY <2>1, <3>1
  <2>3. QED
    BY <1>2, <1>4, <2>2
<1>5. RingFull => Q' = Q
  BY DEF RingFull, Q
<1>6. \A ok : Reply(ok) \in Shown /\ Confirms(Reply(ok))'
  BY PackTypes DEF Confirms, Reply
<1>7. \A n \in A' : n \in Ids => ServerAck(n) \in Shown /\ Confirms(ServerAck(n))'
  BY PackTypes DEF Confirms, ServerAck
<1>8. QED
  BY <1>2, <1>3, <1>4, <1>5, <1>6, <1>7 DEF Answer, Acknowledge

(* What the producer keeps.                                                 *)
LEMMA KeptStays ==
  ASSUME PInv, A \subseteq A', refused \subseteq refused', misread \subseteq misread',
         UNCHANGED <<m_iMsgSeq, m_NeedAckMsgList, pLevel>>
  PROVE  KeptUntilAccepted' /\ \A n \in ToSet(m_NeedAckMsgList') : n < m_iMsgSeq'
BY DEF PInv, KeptUntilAccepted, A

LEMMA PuslishMessageOrdered ==
  ASSUME TInv, PInv, PuslishMessage
  PROVE  PInv'
<1>1. /\ m_iMsgSeq < MaxMsgs /\ m_iMsgSeq' = m_iMsgSeq + 1
      /\ up' = [up EXCEPT !["producer"] = @ \o <<Publish(m_iMsgSeq)>>]
      /\ m_NeedAckMsgList' = Append(m_NeedAckMsgList, m_iMsgSeq)
      /\ UNCHANGED <<down, pLevel, misread, accepted, refused, producerSeqs, lastSeq>>
  BY DEF PuslishMessage, Send, broker
<1>2. m_iMsgSeq \in Ids /\ m_iMsgSeq \in Nat
  BY <1>1, ProducerKinds, Constants
<1>3. Order'
  <2> DEFINE s == <<Publish(m_iMsgSeq)>>
  <2>1. s \in Seq(Asked) /\ Len(s) = 1 /\ s[1] = Publish(m_iMsgSeq)
    BY <1>2, PackTypes DEF TInv
  <2>2. P' = P \o s
    BY <1>1 DEF P, TInv, WiresT, Peers
  <2> HIDE DEF s
  <2>3. IsPublish(s[1], m_iMsgSeq) /\ \A i \in 1 .. Len(s) : s[i].seq <= m_iMsgSeq
    BY <1>2, <2>1 DEF IsPublish, Publish
  <2>4. QED
    BY <1>1, <2>1, <2>2, <2>3, SendsInOrder DEF PInv
<1>4. Replies'
  BY <1>1 DEF PInv, Replies, Q, A, Confirms
<1>5. ToSet(m_NeedAckMsgList') = ToSet(m_NeedAckMsgList) \cup {m_iMsgSeq}
  BY <1>1, <1>2, ProducerKinds, AppendFacts
<1>6. KeptUntilAccepted'
  <2>1. \A n \in 0 .. m_iMsgSeq' - 1 : n \in 0 .. m_iMsgSeq - 1 \/ n = m_iMsgSeq
    BY <1>1, <1>2
  <2>2. QED
    BY <1>1, <1>5, <2>1 DEF PInv, KeptUntilAccepted
<1>7. \A n \in ToSet(m_NeedAckMsgList') : n < m_iMsgSeq'
  <2>1. \A n \in ToSet(m_NeedAckMsgList) : n < m_iMsgSeq /\ n \in Nat
    BY ProducerKinds DEF PInv, Ids
  <2>2. QED
    BY <1>1, <1>2, <1>5, <2>1
<1>8. QED
  BY <1>3, <1>4, <1>6, <1>7 DEF PInv

LEMMA ReSendMsgOrdered ==
  ASSUME TInv, PInv, ReSendMsg
  PROVE  PInv'
<1>1. PICK k \in 1 .. Len(m_NeedAckMsgList) :
        LET old == SubSeq(m_NeedAckMsgList, 1, k) IN
        /\ up' = [up EXCEPT !["producer"] = @ \o [i \in 1 .. k |-> Publish(old[i])]]
        /\ m_NeedAckMsgList' = SubSeq(m_NeedAckMsgList, k + 1, Len(m_NeedAckMsgList)) \o old
  BY DEF ReSendMsg, Send
<1>2. UNCHANGED <<down, pLevel, m_iMsgSeq, misread, accepted, refused, producerSeqs, lastSeq>>
  BY DEF ReSendMsg, broker
<1> DEFINE old == SubSeq(m_NeedAckMsgList, 1, k)
           new == SubSeq(m_NeedAckMsgList, k + 1, Len(m_NeedAckMsgList))
           s   == [i \in 1 .. k |-> Publish(old[i])]
<1>3. /\ old \in Seq(Ids) /\ Len(old) = k /\ new \in Seq(Ids)
      /\ k \in Nat /\ ToSet(m_NeedAckMsgList) = ToSet(old) \cup ToSet(new)
  <2>1. m_NeedAckMsgList \in Seq(Ids) /\ k \in 0 .. Len(m_NeedAckMsgList)
    BY ProducerKinds
  <2>2. QED
    BY <2>1, CutFacts
<1>4. /\ up' = [up EXCEPT !["producer"] = @ \o s]
      /\ m_NeedAckMsgList' = new \o old
  BY <1>1
<1> HIDE DEF old, new
<1>5. ToSet(m_NeedAckMsgList') = ToSet(m_NeedAckMsgList)
  BY <1>3, <1>4, ConcatFacts
<1>6. \A i \in 1 .. k : old[i] \in Ids /\ old[i] \in ToSet(m_NeedAckMsgList)
  BY <1>3, RangeFacts
<1>7. Order'
  <2>1. s \in Seq(Asked) /\ Len(s) = k /\ \A i \in 1 .. k : s[i] = Publish(old[i])
    BY <1>3, <1>6, PackTypes DEF TInv
  <2>2. P' = P \o s
    BY <1>4 DEF P, TInv, WiresT, Peers
  <2> HIDE DEF s
  <2>3. \A i \in 1 .. Len(s) : s[i].seq <= m_iMsgSeq
    <3>1. \A i \in 1 .. k : old[i] < m_iMsgSeq /\ old[i] \in Nat
      <4>1. Ids \subseteq Nat
        BY DEF Ids
      <4>2. QED
        BY <1>6, <4>1 DEF PInv
    <3>2. \A i \in 1 .. k : s[i].seq = old[i]
      BY <2>1 DEF Publish
    <3>3. \A i \in 1 .. k : s[i].seq \in Nat /\ s[i].seq < m_iMsgSeq /\ m_iMsgSeq \in Nat
      BY <3>1, <3>2, ProducerKinds
    <3>4. QED
      BY <2>1, <3>3
  <2>4. QED
    BY <1>2, <2>1, <2>2, <2>3, SendsInOrder DEF PInv
<1>8. Replies'
  BY <1>2 DEF PInv, Replies, Q, A, Confirms
<1>9. KeptUntilAccepted' /\ \A n \in ToSet(m_NeedAckMsgList') : n < m_iMsgSeq'
  BY <1>2, <1>5 DEF PInv, KeptUntilAccepted
<1>10. QED
  BY <1>7, <1>8, <1>9 DEF PInv

LEMMA RecvServerAckOrdered ==
  ASSUME TInv, PInv, RecvServerAck
  PROVE  PInv'
<1>1. PICK k \in 1 .. Len(Q) :
        LET packs == SubSeq(Q, 1, k)
            seqs  == {packs[i].seq : i \in 1 .. k} IN
        /\ down' = [down EXCEPT !["producer"] = SubSeq(@, k + 1, Len(@))]
        /\ m_NeedAckMsgList' = Keep(m_NeedAckMsgList, {n \in Ids : ~Confirmed(n, seqs)})
        /\ misread' = IF Text \in seqs THEN misread \cup {"producer"} ELSE misread
  BY DEF RecvServerAck, Q
<1>2. UNCHANGED <<up, pLevel, m_iMsgSeq, accepted, refused, producerSeqs, lastSeq>>
  BY DEF RecvServerAck, broker
<1> DEFINE packs == SubSeq(Q, 1, k)
           seqs  == {packs[i].seq : i \in 1 .. k}
           S     == {n \in Ids : ~Confirmed(n, seqs)}
<1>3. /\ m_NeedAckMsgList' = Keep(m_NeedAckMsgList, S)
      /\ misread \subseteq misread' /\ (Text \in seqs => "producer" \in misread')
  BY <1>1
<1>4. ToSet(m_NeedAckMsgList') = ToSet(m_NeedAckMsgList) \cap S
  BY <1>3, ProducerKinds, KeepFacts
<1>5. k \in 0 .. Len(Q) /\ Q \in Seq(Shown)
  BY ProducerKinds
<1>6. ToSet(Q') \subseteq ToSet(Q)
  <2>1. Q' = SubSeq(Q, k + 1, Len(Q))
    BY <1>1 DEF Q, TInv, WiresT, Peers
  <2>2. QED
    BY <1>5, <2>1, CutFacts
<1>7. \A s \in seqs : s = Text \/ s \in A
  <2>1. \A i \in 1 .. k : packs[i] = Q[i] /\ Q[i] \in ToSet(Q)
    <3>1. \A i \in 1 .. k : packs[i] = Q[i] /\ i \in 1 .. Len(Q)
      BY <1>5, CutFacts
    <3>2. QED
      BY <1>5, <3>1, RangeFacts
  <2>2. QED
    BY <2>1 DEF PInv, Replies, Confirms
<1> HIDE DEF seqs, packs
<1>8. ASSUME NEW n \in 0 .. m_iMsgSeq - 1, n \in ToSet(m_NeedAckMsgList), n \notin S
      PROVE  \/ n \in A
             \/ pLevel = PRODUCER_MUTIL_ACK /\ (n \in refused \/ "producer" \in misread')
  <2>1. Confirmed(n, seqs) /\ n \in Ids /\ n # Text
    BY <1>8, ProducerKinds, Constants
  <2>2. CASE pLevel = PRODUCER_SINGLE_ACK
    BY <1>7, <2>1, <2>2 DEF Confirmed
  <2>3. CASE pLevel # PRODUCER_SINGLE_ACK
    <3>1. PICK s \in seqs : n <= s
      BY <2>1, <2>3 DEF Confirmed
    <3>2. pLevel = PRODUCER_MUTIL_ACK
      BY <2>3 DEF TInv, ProducerT
    <3>3. CASE s = Text
      BY <1>3, <3>2, <3>3
    <3>4. CASE s \in A
      <4>1. s \in Ids /\ n \in Nat /\ (n = s \/ n \in 0 .. s - 1)
        BY <2>1, <3>1, <3>4, ProducerKinds DEF Ids
      <4>2. n \in A \/ Handled(n)
        BY <3>4, <4>1 DEF PInv, Order
      <4>3. QED
        BY <3>2, <4>2 DEF Handled
    <3>5. QED
      BY <1>7, <3>3, <3>4
  <2>4. QED
    BY <2>2, <2>3
<1>9. KeptUntilAccepted' /\ \A n \in ToSet(m_NeedAckMsgList') : n < m_iMsgSeq'
  <2>1. A' = A
    BY <1>2 DEF A
  <2>2. QED
    BY <1>2, <1>3, <1>4, <1>8, <2>1 DEF PInv, KeptUntilAccepted, A
<1>10. Order'
  BY <1>2, OrderStays DEF PInv, P
<1>11. Replies'
  BY <1>2, <1>6 DEF PInv, Replies, A, Confirms
<1>12. QED
  BY <1>9, <1>10, <1>11 DEF PInv

(* A producer's request is sent, answered or read.                          *)
LEMMA CallOrdered ==
  ASSUME TInv, PInv, NEW c \in Peers, NEW what \in Asks, NEW level \in 0 .. 3, Call(c, what, level)
  PROVE  PInv'
<1>1. /\ up' = [up EXCEPT ![c] = @ \o <<Request(what, level)>>]
      /\ UNCHANGED <<down, m_iMsgSeq, m_NeedAckMsgList, pLevel, misread, accepted, refused,
                     producerSeqs, lastSeq>>
  BY DEF Call, Send, producer, broker
<1>2. Order'
  <2>1. CASE c = "producer"
    <3> DEFINE s == <<Request(what, level)>>
    <3>1. s \in Seq(Asked) /\ Len(s) = 1 /\ s[1] = Request(what, level)
      BY PackTypes
    <3>2. P' = P \o s
      BY <1>1, <2>1 DEF P, TInv, WiresT
    <3> HIDE DEF s
    <3>3. \A i \in 1 .. Len(s) : s[i].type # "publish"
      <4>1. Request(what, level).type # "publish"
        BY DEF Request, Asks
      <4>2. \A i \in 1 .. Len(s) : i = 1
        BY <3>1
      <4>3. QED
        BY <3>1, <4>1, <4>2
    <3>4. QED
      BY <1>1, <3>1, <3>2, <3>3, SendsInOrder DEF PInv
  <2>2. CASE c # "producer"
    BY <1>1, <2>2, OrderStays DEF PInv, P
  <2>3. QED
    BY <2>1, <2>2
<1>3. Replies'
  BY <1>1 DEF PInv, Replies, Q, A, Confirms
<1>4. KeptUntilAccepted' /\ \A n \in ToSet(m_NeedAckMsgList') : n < m_iMsgSeq'
  BY <1>1, KeptStays DEF A
<1>5. QED
  BY <1>2, <1>3, <1>4 DEF PInv

LEMMA ReadingOrdered ==
  ASSUME TInv, PInv, (\E c \in Peers : RecvReply(c)) \/ RecvPulled \/ ConsumeMessage \/ SendConsumerAck
  PROVE  PInv'
<1>1. /\ UNCHANGED <<m_iMsgSeq, m_NeedAckMsgList, pLevel, accepted, refused, producerSeqs, lastSeq>>
      /\ misread \subseteq misread'
  BY DEF RecvReply, RecvPulled, ConsumeMessage, SendConsumerAck, producer, broker
<1>2. P' = P
  <2>1. \A packs : Send("consumer", packs) => P' = P
    BY DEF Send, P
  <2>2. \A p, rest : Use(p, rest) => P' = P
    BY <2>1 DEF Use, P
  <2>3. RecvPulled => P' = P
    BY <2>2 DEF RecvPulled, P
  <2>4. QED
    BY <2>1, <2>2, <2>3 DEF RecvReply, ConsumeMessage, SendConsumerAck, P
<1>3. ToSet(Q') \subseteq ToSet(Q)
  <2>1. Q' = Q \/ (Q # <<>> /\ Q' = Tail(Q))
    <3>1. \A p, rest : Use(p, rest) => Q' = Q
      BY DEF Use, Q
    <3>2. RecvPulled => Q' = Q
      <4>1. \A rest : down' = [down EXCEPT !["consumer"] = rest] => Q' = Q
        BY DEF Q
      <4>2. RecvPulled => \/ \E rest : down' = [down EXCEPT !["consumer"] = rest]
                          \/ \E p, rest : Use(p, rest)
        BY DEF RecvPulled
      <4>3. QED
        BY <3>1, <4>1, <4>2
    <3>3. \A c \in Peers : RecvReply(c) => Q' = Q \/ (Q # <<>> /\ Q' = Tail(Q))
      BY DEF RecvReply, Q, TInv, WiresT
    <3>4. SendConsumerAck => Q' = Q
      BY DEF SendConsumerAck, Q
    <3>5. QED
      BY <3>1, <3>2, <3>3, <3>4 DEF ConsumeMessage
  <2>2. Q # <<>> => ToSet(Tail(Q)) \subseteq ToSet(Q)
    BY ProducerKinds, TailFacts
  <2>3. QED
    BY <2>1, <2>2
<1>4. Order'
  BY <1>1, <1>2, OrderStays DEF PInv
<1>5. Replies'
  BY <1>1, <1>3 DEF PInv, Replies, A, Confirms
<1>6. KeptUntilAccepted' /\ \A n \in ToSet(m_NeedAckMsgList') : n < m_iMsgSeq'
  BY <1>1, KeptStays DEF A
<1>7. QED
  BY <1>4, <1>5, <1>6 DEF PInv

LEMMA OnPublishMessageOrdered ==
  ASSUME TInv, PInv, OnPublishMessage
  PROVE  PInv'
<1> DEFINE n == Head(up["producer"]).seq
<1>1. /\ Take("producer", "publish") /\ Taken("producer")
      /\ UNCHANGED <<pLevel, m_iMsgSeq, m_NeedAckMsgList, misread>>
  BY DEF OnPublishMessage, Clients, producer
<1>2. "producer" \in Peers /\ n \in Ids
  BY <1>1, TakeTyped DEF Peers, Asked
<1>3. P # <<>> /\ P' = Tail(P) /\ IsPublish(Head(P), n) /\ \A m : IsPublish(Head(P), m) => m = n
  BY <1>1 DEF Take, Taken, P, TInv, WiresT, Peers, IsPublish
<1>4. /\ A \subseteq A' /\ refused \subseteq refused' /\ A' \subseteq A \cup {n}
      /\ producerSeqs' \subseteq A' /\ (n \in A' \cup refused')
      /\ (\A p \in ToSet(Q') : Confirms(p)')
      /\ lastSeq' # NoSeq => pLevel = PRODUCER_MUTIL_ACK /\ lastSeq' \in A'
  <2>1. CASE n \in producerSeqs /\ UNCHANGED <<down, lastSeq, accepted, producerSeqs, refused>>
    <3>1. A' = A /\ Q' = Q
      BY <2>1 DEF A, Q
    <3>2. QED
      BY <2>1, <3>1, ConfirmsStays DEF PInv, Order, Replies
  <2>2. CASE /\ Answer("producer", FALSE) /\ refused' = refused \cup {n}
             /\ UNCHANGED <<lastSeq, accepted, producerSeqs>>
    <3>1. A' = A
      BY <2>2 DEF A
    <3>2. QED
      BY <1>2, <2>2, <3>1, AnswerConfirms DEF PInv, Order, Replies
  <2>3. CASE /\ accepted' = Append(accepted, n)
             /\ producerSeqs' = producerSeqs \cup {n}
             /\ \/ Acknowledge("producer", n) /\ UNCHANGED lastSeq
                \/ /\ pLevel # PRODUCER_SINGLE_ACK
                   /\ lastSeq' = n /\ UNCHANGED <<down, drops>>
             /\ UNCHANGED refused
    <3> HIDE DEF n
    <3>1. A' = A \cup {n}
      <4>1. accepted \in Seq(Ids)
        BY ProducerKinds
      <4>2. ToSet(Append(accepted, n)) = ToSet(accepted) \cup {n}
        BY <1>2, <4>1, AppendFacts
      <4>3. QED
        BY <2>3, <4>2 DEF A
    <3>2. \A p \in ToSet(Q') : Confirms(p)'
      <4>1. CASE Acknowledge("producer", n)
        BY <1>2, <3>1, <4>1, AnswerConfirms DEF PInv, Replies
      <4>2. CASE UNCHANGED down
        BY <3>1, <4>2, ConfirmsStays DEF PInv, Replies, Q
      <4>3. QED
        BY <2>3, <4>1, <4>2
    <3>3. lastSeq' # NoSeq => pLevel = PRODUCER_MUTIL_ACK /\ lastSeq' \in A'
      BY <2>3, <3>1 DEF PInv, Replies, TInv, ProducerT
    <3>4. QED
      BY <2>3, <3>1, <3>2, <3>3 DEF PInv, Order
  <2>4. QED
    BY <2>1, <2>2, <2>3 DEF OnPublishMessage, Known, AcknowledgeDuplicate
<1> HIDE DEF n
<1>5. Order'
  <2>1. \A m : IsPublish(Head(P), m) => Handled(m)'
    BY <1>3, <1>4 DEF Handled
  <2>2. QED
    BY <1>1, <1>3, <1>4, <2>1, TakesInOrder DEF PInv
<1>6. Replies'
  BY <1>1, <1>4 DEF Replies
<1>7. KeptUntilAccepted' /\ \A m \in ToSet(m_NeedAckMsgList') : m < m_iMsgSeq'
  BY <1>1, <1>4, KeptStays
<1>8. QED
  BY <1>5, <1>6, <1>7 DEF PInv

(* The broker does anything else.                                           *)
LEMMA TakeOrdered ==
  ASSUME TInv, PInv, NEW c \in Peers, NEW type, type # "publish", Take(c, type), Taken(c),
         UNCHANGED <<m_iMsgSeq, accepted, refused, producerSeqs>>
  PROVE  Order'
<1>1. CASE c = "producer"
  <2>1. P # <<>> /\ P' = Tail(P) /\ \A n : ~IsPublish(Head(P), n)
    BY <1>1 DEF Take, Taken, P, TInv, WiresT, IsPublish
  <2>2. A' = A
    BY DEF A
  <2>3. QED
    BY <2>1, <2>2, TakesInOrder DEF PInv, Order
<1>2. CASE c # "producer"
  BY <1>2, OrderStays DEF Taken, P, PInv
<1>3. QED
  BY <1>1, <1>2

LEMMA BrokerOrdered ==
  ASSUME TInv, PInv,
         \/ SendMultiAck \/ PushMessage \/ OnRecvMessage \/ OnCreateSubscribe \/ OnClientAck
         \/ \E c \in Peers :
              \/ \E type \in {"create exchange", "create queue", "create binding"} : OnCreate(c, type)
              \/ OnDeleteExchange(c) \/ OnDeleteQueue(c)
  PROVE  PInv'
<1>1. UNCHANGED <<m_iMsgSeq, m_NeedAckMsgList, pLevel, misread, accepted, refused, producerSeqs, lastSeq>>
  BY DEF SendMultiAck, PushMessage, OnRecvMessage, OnCreateSubscribe, OnClientAck, OnCreate,
         OnDeleteExchange, OnDeleteQueue, Clients, producer
<1>2. "consumer" \in Peers /\ A' = A
  BY <1>1 DEF Peers, A
<1>3. Order'
  <2>1. CASE UNCHANGED up
    BY <1>1, <2>1, OrderStays DEF PInv, P
  <2>2. CASE \E c \in Peers : \E type : type # "publish" /\ Take(c, type) /\ Taken(c)
    BY <1>1, <2>2, TakeOrdered
  <2>3. QED
    BY <1>2, <2>1, <2>2 DEF SendMultiAck, PushMessage, OnRecvMessage, OnCreateSubscribe, OnClientAck,
       OnCreate, OnDeleteExchange, OnDeleteQueue
<1>4. \A p \in ToSet(Q') : Confirms(p)'
  <2>1. \A p \in ToSet(Q) : Confirms(p)
    BY DEF PInv, Replies
  <2>2. CASE Q' = Q
    BY <1>2, <2>1, <2>2, ConfirmsStays
  <2>3. CASE \E c \in Peers : \E ok : Answer(c, ok)
    BY <1>2, <2>1, <2>3, AnswerConfirms
  <2>4. CASE SendMultiAck
    <3>1. lastSeq \in A' /\ lastSeq \in Ids /\ Acknowledge("producer", lastSeq)
      BY <1>2, <2>4, ProducerKinds DEF SendMultiAck, Acknowledge, PInv, Replies
    <3>2. QED
      BY <1>2, <2>1, <3>1, AnswerConfirms
  <2>5. PushMessage \/ OnClientAck => Q' = Q
    <3>1. \A p : Put("consumer", p) => Q' = Q
      BY <1>2, <2>1, AnswerConfirms
    <3>2. PushMessage => \E p : Put("consumer", p)
      BY DEF PushMessage
    <3>3. OnClientAck => Q' = Q
      BY DEF OnClientAck, Q
    <3>4. QED
      BY <3>1, <3>2, <3>3
  <2>6. OnRecvMessage => Q' = Q \/ Answer("consumer", FALSE)
    <3>1. \A p : Put("consumer", p) => Q' = Q
      BY <1>2, <2>1, AnswerConfirms
    <3>2. OnRecvMessage => Answer("consumer", FALSE) \/ \E p : Put("consumer", p)
      BY DEF OnRecvMessage
    <3>3. QED
      BY <3>1, <3>2
  <2>7. QED
    BY <1>2, <2>2, <2>3, <2>4, <2>5, <2>6 DEF OnCreateSubscribe, OnCreate, OnDeleteExchange, OnDeleteQueue
<1>5. Replies'
  BY <1>1, <1>2, <1>4 DEF PInv, Replies
<1>6. KeptUntilAccepted' /\ \A n \in ToSet(m_NeedAckMsgList') : n < m_iMsgSeq'
  BY <1>1, <1>2, KeptStays
<1>7. QED
  BY <1>3, <1>5, <1>6 DEF PInv

LEMMA InitOrdered ==
  ASSUME Init
  PROVE  PInv
<1>1. ToSet(<<>>) = {} /\ Len(<<>>) = 0
  BY DEF ToSet
<1>2. P = <<>> /\ Q = <<>> /\ A = {}
  BY <1>1 DEF Init, P, Q, A, Peers
<1>3. Order /\ Replies
  BY <1>1, <1>2 DEF Init, Order, Replies
<1>4. KeptUntilAccepted /\ \A n \in ToSet(m_NeedAckMsgList) : n < m_iMsgSeq
  BY <1>1 DEF Init, KeptUntilAccepted
<1>5. QED
  BY <1>3, <1>4 DEF PInv

LEMMA NextOrdered ==
  ASSUME TInv, PInv, [Next]_vars
  PROVE  PInv'
<1>1. CASE UNCHANGED vars
  <2>1. Order'
    BY <1>1, OrderStays DEF PInv, P, vars
  <2>2. Replies'
    BY <1>1 DEF PInv, Replies, Q, A, Confirms, vars
  <2>3. KeptUntilAccepted' /\ \A n \in ToSet(m_NeedAckMsgList') : n < m_iMsgSeq'
    BY <1>1, KeptStays DEF A, vars
  <2>4. QED
    BY <2>1, <2>2, <2>3 DEF PInv
<1>2. CASE RecvStep \/ RecvPulled
  BY <1>2, ReadingOrdered DEF RecvStep
<1>3. CASE ClientStep
  <2>1. \A c \in Peers, what \in Asks, level \in 0 .. 3 : Call(c, what, level) => PInv'
    BY CallOrdered
  <2>2. 0 \in 0 .. 3 /\ SubscribeLevels \subseteq 0 .. 3 /\ PullLevels \subseteq 0 .. 3
    BY Constants
  <2>3. /\ \A c \in Peers : CreateExchange(c) \/ CreateQueue(c) \/ CreateBinding(c)
                            \/ DeleteExchange(c) \/ DeleteQueue(c) => PInv'
        /\ \A level \in SubscribeLevels : CreateSubscribe(level) => PInv'
        /\ \A level \in PullLevels : RecvMessage(level) => PInv'
        /\ CancelSubscribe => PInv'
    BY <2>1, <2>2 DEF CreateExchange, CreateQueue, CreateBinding, DeleteExchange, DeleteQueue, Ask,
       CreateSubscribe, RecvMessage, CancelSubscribe, Asks, Peers
  <2>4. QED
    BY <1>3, <2>3, PuslishMessageOrdered, RecvServerAckOrdered, ReSendMsgOrdered, ReadingOrdered
       DEF ClientStep
<1>4. CASE BrokerStep
  BY <1>4, OnPublishMessageOrdered, BrokerOrdered DEF BrokerStep
<1>5. QED
  BY <1>1, <1>2, <1>3, <1>4 DEF Next

\* The broker takes the producer's messages in the order of their numbers.
THEOREM TakenInOrder == Spec => []PInv
<1>1. Init => PInv
  BY InitOrdered
<1>2. TInv /\ PInv /\ [Next]_vars => PInv'
  BY NextOrdered
<1>3. QED
  BY <1>1, <1>2, TypesHold, PTL DEF Spec

\* Producer::RecvServerAck forgets a message only when the broker has accepted it,
\* or, with batch confirmation, refused it, or after a reply was read as a
\* confirmation (client.cpp:746): never because of a number that belongs to another
\* message, however the messages are sent again.
THEOREM NothingForgottenUnaccepted == Spec => []KeptUntilAccepted
<1>1. PInv => KeptUntilAccepted
  BY DEF PInv
<1>2. QED
  BY <1>1, TakenInOrder, PTL
-----------------------------------------------------------------------------
(* Where a message is.  A message on its way to the consumer is nowhere     *)
(* else, and its number, if it has one, has not been seen: when it reaches  *)
(* the consumer it is given to the application or lost to a request.  A     *)
(* number the consumer may acknowledge belongs to a message given.          *)

Differ(p, q) == p.id # NoMsg => p.id # q.id /\ (p.seq # NoSeq => p.seq # q.seq)
Distinct(s)  == \A i, j \in 1 .. Len(s) : i # j => Differ(s[i], s[j])

InA == ToSet(accepted)
InQ == ToSet(queue)
InD == ToSet(D)
InU == ToSet(U)

Empty(p) == p.seq = Text /\ p.level <= 1
Fresh(p) ==
  /\ p.id \in InA /\ p.id \notin given \cup swallowed \cup InQ
  /\ p.type # "reply" /\ (p.level > 0 => p.seq # NoSeq)
  /\ p.seq # NoSeq => /\ p.seq < brokerSeq /\ p.seq \notin m_SeqSet
                      /\ \A e \in unacked : e.seq = p.seq => e.id = p.id
Settled(n) ==
  n \in {NoSeq, Text} \/ (n < brokerSeq /\ \A e \in unacked : e.seq = n => e.id \in given)

Places ==
  /\ given \cap swallowed = {}
  /\ given \cup swallowed \cup InQ \subseteq InA
  /\ IsInjective(queue) /\ InQ \cap (given \cup swallowed) = {}
Packs ==
  /\ Distinct(D)
  /\ \A p \in InD : IF p.id = NoMsg THEN Empty(p) ELSE Fresh(p)
Numbers ==
  /\ \A e \in unacked : e.seq < brokerSeq
  /\ m_SeqSet \subseteq (0 .. brokerSeq - 1) \cup {Text}
  /\ \A p \in InU : p.type = "ack" => Settled(p.seq)
  /\ Settled(manual.seq)

CInv == Places /\ Packs /\ Numbers /\ AllAccountedFor

LEMMA Kinds ==
  ASSUME TInv
  PROVE  /\ U \in Seq(Asked) /\ D \in Seq(Shown)
         /\ InU \subseteq Asked /\ InD \subseteq Shown
         /\ queue \in Seq(Ids) /\ accepted \in Seq(Ids) /\ InQ \subseteq Ids /\ InA \subseteq Ids
         /\ InFlight = {p.id : p \in InD}
         /\ brokerSeq \in 0 .. MaxMsgs
<1>1. U \in Seq(Asked) /\ D \in Seq(Shown)
  BY DEF U, D, TInv, WiresT, Peers
<1>2. queue \in Seq(Ids) /\ accepted \in Seq(Ids)
  BY DEF TInv, BrokerT
<1>3. InU \subseteq Asked /\ InD \subseteq Shown /\ InQ \subseteq Ids /\ InA \subseteq Ids
  BY <1>1, <1>2, RangeFacts DEF InU, InD, InQ, InA
<1>4. InFlight = {p.id : p \in InD}
  BY DEF InFlight, InD, D, ToSet
<1>5. brokerSeq \in 0 .. MaxMsgs
  <2>1. Len(queue) \in Nat
    BY <1>2
  <2>2. QED
    BY <2>1, AcceptedFits, Constants DEF TInv, Counted
<1>6. QED
  BY <1>1, <1>2, <1>3, <1>4, <1>5

LEMMA DistinctFacts ==
  ASSUME NEW s \in Seq(Shown), Distinct(s)
  PROVE  /\ \A p \in Shown : (\A q \in ToSet(s) : Differ(p, q) /\ Differ(q, p)) => Distinct(Append(s, p))
         /\ s # <<>> => Distinct(Tail(s)) /\ \A q \in ToSet(Tail(s)) : Differ(q, Head(s))
<1>1. ASSUME NEW p \in Shown, \A q \in ToSet(s) : Differ(p, q) /\ Differ(q, p)
      PROVE  Distinct(Append(s, p))
  <2> DEFINE t == Append(s, p)
  <2>1. /\ Len(t) = Len(s) + 1 /\ Len(s) \in Nat /\ t[Len(s) + 1] = p
        /\ \A i \in 1 .. Len(s) : t[i] = s[i] /\ s[i] \in ToSet(s)
    BY AppendFacts, RangeFacts
  <2> HIDE DEF t
  <2>2. \A i \in 1 .. Len(t) : i \in 1 .. Len(s) \/ i = Len(s) + 1
    BY <2>1
  <2>3. Distinct(t)
    BY <1>1, <2>1, <2>2 DEF Distinct
  <2>4. QED
    BY <2>3 DEF t
<1>2. ASSUME s # <<>>
      PROVE  Distinct(Tail(s)) /\ \A q \in ToSet(Tail(s)) : Differ(q, Head(s))
  <2> DEFINE t == Tail(s)
  <2>1. /\ t \in Seq(Shown) /\ Head(s) = s[1] /\ Len(t) = Len(s) - 1 /\ Len(s) \in Nat /\ Len(s) > 0
        /\ \A i \in 1 .. Len(s) - 1 : t[i] = s[i + 1]
    BY <1>2, TailFacts
  <2>2. ToSet(t) = {t[i] : i \in 1 .. Len(t)}
    BY <2>1, RangeFacts
  <2> HIDE DEF t
  <2>3. \A i, j \in 1 .. Len(t) : i + 1 \in 1 .. Len(s) /\ 1 \in 1 .. Len(s) /\ i + 1 # 1
                                  /\ i \in 1 .. Len(s) - 1 /\ (i # j => i + 1 # j + 1)
    BY <2>1
  <2>4. Distinct(t)
    BY <2>1, <2>3 DEF Distinct
  <2>5. \A i \in 1 .. Len(t) : Differ(t[i], s[1])
    BY <2>1, <2>3 DEF Distinct
  <2>6. QED
    BY <2>1, <2>2, <2>4, <2>5 DEF t
<1>3. QED
  BY <1>1, <1>2

(* A step that leaves the messages where they are, but for those that may   *)
(* go with their queue.                                                     *)
LEMMA MessagesStayOrGo ==
  ASSUME TInv, CInv, Distinct(D'),
         \A p \in InD' : p \in InD \/ (p.id = NoMsg /\ Empty(p)),
         \A p \in InD : p.id # NoMsg => p \in InD',
         \A p \in InU' : p \in InU \/ p.type # "ack" \/ p.seq = manual.seq,
         IsInjective(queue'), InQ' \subseteq InQ, InQ \subseteq InQ' \cup cleared',
         cleared \subseteq cleared',
         UNCHANGED <<accepted, given, swallowed, unacked, brokerSeq, m_SeqSet, manual>>
  PROVE  CInv'
<1>1. Places'
  BY DEF CInv, Places, InA
<1>2. Packs'
  <2>1. \A p : Fresh(p) => Fresh(p)'
    BY DEF Fresh, InA
  <2>2. \A p : Empty(p) => Empty(p)'
    BY DEF Empty
  <2>3. QED
    BY <2>1, <2>2 DEF CInv, Packs
<1>3. Numbers'
  BY DEF CInv, Numbers, Settled
<1>4. AllAccountedFor'
  <2>1. InFlight = {p.id : p \in InD} /\ InFlight' = {p.id : p \in InD'}
    BY DEF InFlight, InD, D, ToSet
  <2>2. \A n \in InA : n # NoMsg
    BY Kinds, Constants
  <2>3. \A n \in InA : n \in InFlight => n \in InFlight'
    BY <2>1, <2>2
  <2>4. QED
    BY <2>3 DEF CInv, AllAccountedFor, InA, InQ
<1>5. QED
  BY <1>1, <1>2, <1>3, <1>4 DEF CInv

LEMMA MessagesStay ==
  ASSUME TInv, CInv, Distinct(D'),
         \A p \in InD' : p \in InD \/ (p.id = NoMsg /\ Empty(p)),
         \A p \in InD : p.id # NoMsg => p \in InD',
         \A p \in InU' : p \in InU \/ p.type # "ack" \/ p.seq = manual.seq,
         UNCHANGED <<queue, accepted, given, swallowed, cleared, unacked, brokerSeq,
                     m_SeqSet, manual>>
  PROVE  CInv'
<1>1. IsInjective(queue') /\ InQ' = InQ
  BY DEF CInv, Places, InQ
<1>2. QED
  BY <1>1, MessagesStayOrGo

(* The consumer's wires stay; or lose a pack, or get one.                   *)
LEMMA PackAdded ==
  ASSUME TInv, CInv, NEW p \in Shown, p.id = NoMsg, Empty(p), D' = Append(D, p)
  PROVE  Distinct(D') /\ InD' = InD \cup {p}
<1>1. D \in Seq(Shown) /\ InD \subseteq Shown
  BY Kinds
<1>2. InD' = InD \cup {p}
  BY <1>1, AppendFacts DEF InD
<1>3. ASSUME NEW q \in InD
      PROVE  Differ(p, q) /\ Differ(q, p)
  <2>1. Differ(p, q)
    BY DEF Differ
  <2>2. CASE q.id # NoMsg /\ q.seq # NoSeq
    <3>1. q.seq < brokerSeq /\ q.seq \in NoSeq .. Text
      BY <1>1, <2>2, ShownFacts DEF CInv, Packs, Fresh
    <3>2. q.seq # p.seq
      BY <3>1, Kinds, Constants DEF Empty
    <3>3. QED
      BY <2>1, <2>2, <3>2 DEF Differ
  <2>3. CASE ~(q.id # NoMsg /\ q.seq # NoSeq)
    BY <2>1, <2>3 DEF Differ
  <2>4. QED
    BY <2>2, <2>3
<1>4. QED
  BY <1>1, <1>2, <1>3, DistinctFacts DEF CInv, Packs, InD

LEMMA ReplyIsEmpty ==
  \A ok : Reply(ok) \in Shown /\ Reply(ok).id = NoMsg /\ Empty(Reply(ok))
BY PackTypes DEF Reply, Empty

LEMMA CallKeepsMessages ==
  ASSUME TInv, CInv, NEW c \in Peers, NEW what \in Asks, NEW level \in 0 .. 3, Call(c, what, level)
  PROVE  CInv'
<1>1. D' = D /\ InD' = InD /\ Distinct(D')
  BY DEF Call, D, InD, CInv, Packs
<1>2. U' = U \/ U' = Append(U, Request(what, level))
  <2>1. up' = [up EXCEPT ![c] = @ \o <<Request(what, level)>>]
    BY DEF Call, Send
  <2>2. CASE c = "consumer"
    BY <2>1, <2>2, Kinds, PackTypes, AppendFacts DEF U, TInv, WiresT
  <2>3. CASE c # "consumer"
    BY <2>1, <2>3 DEF U, Peers, TInv, WiresT
  <2>4. QED
    BY <2>2, <2>3
<1>3. Request(what, level) \in Asked /\ Request(what, level).type # "ack"
  BY PackTypes DEF Request, Asks
<1>4. \A p \in InU' : p \in InU \/ p.type # "ack"
  <2>1. ToSet(Append(U, Request(what, level))) = ToSet(U) \cup {Request(what, level)}
    BY <1>3, Kinds, AppendFacts
  <2>2. QED
    BY <1>2, <1>3, <2>1 DEF InU
<1>5. QED
  BY <1>1, <1>4, MessagesStay DEF Call, consumer, broker, lost

LEMMA AckKeepsMessages ==
  ASSUME TInv, CInv, SendConsumerAck
  PROVE  CInv'
<1>1. D' = D /\ InD' = InD /\ Distinct(D')
  BY DEF SendConsumerAck, D, InD, CInv, Packs
<1> DEFINE p == ConsumerAck(manual.level, manual.seq)
<1>2. p \in Asked
  <2>1. manual.level \in 0 .. 3 /\ manual.seq \in NoSeq .. Text
    BY Constants DEF TInv, ConsumerT, CONSUMER_SINGLE_ACK, CONSUMER_MUTIL_ACK
  <2>2. QED
    BY <2>1, PackTypes
<1>3. U' = Append(U, p)
  BY <1>2, Kinds, AppendFacts DEF SendConsumerAck, Send, U, TInv, WiresT, Peers
<1>4. InU' = InU \cup {p} /\ p.seq = manual.seq
  BY <1>2, <1>3, Kinds, AppendFacts DEF InU, ConsumerAck
<1>5. QED
  BY <1>1, <1>4, MessagesStay DEF SendConsumerAck, broker, lost

LEMMA ProducerKeepsMessages ==
  ASSUME TInv, CInv, PuslishMessage \/ RecvServerAck \/ ReSendMsg \/ SendMultiAck
  PROVE  CInv'
<1>1. U' = U /\ D' = D
  <2>1. /\ \A packs : Send("producer", packs) => U' = U
        /\ UNCHANGED up => U' = U
        /\ \A p : Put("producer", p) => D' = D
        /\ \A rest : down' = [down EXCEPT !["producer"] = rest] => D' = D
        /\ UNCHANGED down => D' = D
    <3>1. UNCHANGED up => U' = U
      BY DEF U
    <3>2. UNCHANGED down => D' = D
      BY DEF D
    <3>3. \A packs : Send("producer", packs) => U' = U
      BY DEF Send, U
    <3>4. \A rest : down' = [down EXCEPT !["producer"] = rest] => D' = D
      BY DEF D
    <3>5. \A p : Put("producer", p) => D' = D
      BY DEF Put, D
    <3>6. QED
      BY <3>1, <3>2, <3>3, <3>4, <3>5
  <2>2. CASE PuslishMessage
    BY <2>1, <2>2 DEF PuslishMessage
  <2>3. CASE RecvServerAck
    <3>1. UNCHANGED up /\ \E rest : down' = [down EXCEPT !["producer"] = rest]
      BY <2>3 DEF RecvServerAck
    <3>2. QED
      BY <2>1, <3>1
  <2>4. CASE ReSendMsg
    <3>1. UNCHANGED down /\ \E packs : Send("producer", packs)
      BY <2>4 DEF ReSendMsg
    <3>2. QED
      BY <2>1, <3>1
  <2>5. CASE SendMultiAck
    BY <2>1, <2>5 DEF SendMultiAck
  <2>6. QED
    BY <2>2, <2>3, <2>4, <2>5
<1>2. InD' = InD /\ InU' = InU /\ Distinct(D')
  BY <1>1 DEF InD, InU, CInv, Packs
<1>3. UNCHANGED <<queue, accepted, given, swallowed, cleared, unacked, brokerSeq,
                  m_SeqSet, manual>>
  BY DEF PuslishMessage, RecvServerAck, ReSendMsg, SendMultiAck, Clients, consumer, broker, lost
<1>4. QED
  BY <1>2, <1>3, MessagesStay

(* The consumer takes the first pack.                                       *)
LEMMA PackTaken ==
  ASSUME TInv, CInv, D # <<>>, D' = Tail(D)
  PROVE  /\ Head(D) \in InD /\ InD = InD' \cup {Head(D)} /\ Distinct(D')
         /\ \A q \in InD' : Differ(q, Head(D))
<1>1. D \in Seq(Shown)
  BY Kinds
<1>2. ToSet(D) = ToSet(Tail(D)) \cup {Head(D)}
  BY <1>1, TailFacts
<1>3. Distinct(Tail(D)) /\ \A q \in ToSet(Tail(D)) : Differ(q, Head(D))
  BY <1>1, DistinctFacts DEF CInv, Packs
<1>4. InD' = ToSet(Tail(D))
  BY DEF InD
<1>5. QED
  BY <1>2, <1>3, <1>4 DEF InD

LEMMA ReplyTaken ==
  ASSUME TInv, CInv, D # <<>>, D' = Tail(D), Head(D).id = NoMsg, InU' = InU,
         UNCHANGED <<queue, accepted, given, swallowed, cleared, unacked, brokerSeq,
                     m_SeqSet, manual>>
  PROVE  CInv'
BY PackTaken, MessagesStay

LEMMA MessageSwallowed ==
  ASSUME TInv, CInv, D # <<>>, D' = Tail(D), NEW p, p = Head(D), p.id # NoMsg, InU' = InU,
         swallowed' = swallowed \cup {p.id},
         UNCHANGED <<queue, accepted, given, cleared, unacked, brokerSeq, m_SeqSet, manual>>
  PROVE  CInv'
<1>1. /\ p \in InD /\ InD = InD' \cup {p} /\ Distinct(D')
      /\ \A q \in InD' : Differ(q, p)
  BY PackTaken
<1>2. Fresh(p)
  BY <1>1 DEF CInv, Packs
<1>3. Places'
  BY <1>2 DEF CInv, Places, Fresh, InQ, InA
<1>4. Packs'
  <2>1. ASSUME NEW q \in InD', q.id # NoMsg
        PROVE  Fresh(q)'
    <3>1. Fresh(q) /\ q.id # p.id
      BY <1>1, <2>1 DEF CInv, Packs, Differ
    <3>2. QED
      BY <3>1 DEF Fresh, InQ, InA
  <2>2. ASSUME NEW q \in InD', q.id = NoMsg
        PROVE  Empty(q)'
    BY <1>1, <2>2 DEF CInv, Packs, Empty
  <2>3. QED
    BY <1>1, <2>1, <2>2 DEF Packs
<1>5. Numbers'
  BY DEF CInv, Numbers, Settled
<1>6. AllAccountedFor'
  <2>1. InFlight = {q.id : q \in InD} /\ InFlight' = {q.id : q \in InD'}
    BY DEF InFlight, InD, D, ToSet
  <2>2. InFlight \subseteq InFlight' \cup {p.id}
    BY <1>1, <2>1
  <2>3. QED
    BY <2>2 DEF CInv, AllAccountedFor
<1>7. QED
  BY <1>3, <1>4, <1>5, <1>6 DEF CInv

LEMMA RecvReplyKeepsMessages ==
  ASSUME TInv, PInv, CInv, NEW c \in Peers, RecvReply(c)
  PROVE  CInv'
<1>1. /\ InU' = InU
      /\ UNCHANGED <<queue, accepted, given, cleared, unacked, brokerSeq, m_SeqSet, manual>>
  BY DEF RecvReply, U, InU, consumer, broker
<1> DEFINE p == Head(down[c])
<1>2. /\ down[c] # <<>> /\ down' = [down EXCEPT ![c] = Tail(@)]
      /\ swallowed' = swallowed \cup ({p.id} \ {NoMsg})
  BY DEF RecvReply
<1> HIDE DEF p
<1>3. CASE c = "producer"
  <2>1. Q # <<>> /\ p = Head(Q) /\ D' = D
    BY <1>2, <1>3 DEF p, Q, D
  <2>2. p.id = NoMsg
    <3>1. Head(Q) \in ToSet(Q)
      BY <2>1, ProducerKinds, TailFacts
    <3>2. QED
      BY <2>1, <3>1 DEF PInv, Replies, Confirms
  <2>3. InD' = InD /\ Distinct(D')
    BY <2>1 DEF InD, CInv, Packs
  <2>4. swallowed' = swallowed
    BY <1>2, <2>2
  <2>5. QED
    BY <1>1, <2>3, <2>4, MessagesStay
<1>4. CASE c = "consumer"
  <2>1. D # <<>> /\ p = Head(D) /\ D' = Tail(D)
    BY <1>2, <1>4 DEF p, D, TInv, WiresT
  <2>2. CASE p.id = NoMsg
    <3>1. swallowed' = swallowed
      BY <1>2, <2>2
    <3>2. QED
      BY <1>1, <2>1, <2>2, <3>1, ReplyTaken
  <2>3. CASE p.id # NoMsg
    <3>1. swallowed' = swallowed \cup {p.id}
      BY <1>2, <2>3
    <3>2. QED
      BY <1>1, <2>1, <2>3, <3>1, MessageSwallowed
  <2>4. QED
    BY <2>2, <2>3
<1>5. QED
  BY <1>3, <1>4 DEF Peers

(* A message taken for a message is given to the application.               *)
LEMMA UseFacts ==
  ASSUME TInv, D # <<>>, NEW p \in Shown, Use(p, Tail(down["consumer"]))
  PROVE  /\ D' = Tail(D)
         /\ \A r \in InU' : r \in InU \/ (p.level > 0 /\ r.seq = p.seq)
         /\ manual' = manual \/ (p.level > 1 /\ manual'.seq = p.seq)
         /\ given' = IF p.seq \in m_SeqSet THEN given ELSE given \cup ({p.id} \ {NoMsg})
         /\ m_SeqSet' = IF p.level > 0 THEN m_SeqSet \cup {p.seq} ELSE m_SeqSet
<1>1. D' = Tail(D)
  BY DEF Use, D, TInv, WiresT, Peers
<1>2. \A r \in InU' : r \in InU \/ (p.level > 0 /\ r.seq = p.seq)
  <2> DEFINE a == ConsumerAck(p.level, p.seq)
  <2>1. CASE UNCHANGED up
    BY <2>1 DEF InU, U
  <2>2. CASE p.level = CONSUMER_AUTO_ACK /\ Send("consumer", <<a>>)
    <3>1. a \in Asked /\ a.seq = p.seq
      BY PackTypes, ShownFacts DEF ConsumerAck
    <3> HIDE DEF a
    <3>2. U' = U \o <<a>>
      BY <2>2 DEF Send, U, TInv, WiresT, Peers
    <3>3. U \o <<a>> = Append(U, a) /\ ToSet(Append(U, a)) = ToSet(U) \cup {a}
      BY <3>1, Kinds, AppendFacts
    <3>4. p.level > 0
      BY <2>2 DEF CONSUMER_AUTO_ACK
    <3>5. QED
      BY <2>2, <3>1, <3>2, <3>3, <3>4 DEF InU
  <2>3. QED
    BY <2>1, <2>2 DEF Use
<1>3. manual' = manual \/ (p.level > 1 /\ manual'.seq = p.seq)
  BY DEF Use, CONSUMER_SINGLE_ACK, CONSUMER_MUTIL_ACK
<1>4. QED
  BY <1>1, <1>2, <1>3 DEF Use, Remember

LEMMA UseKeepsMessages ==
  ASSUME TInv, CInv, D # <<>>, NEW p, p = Head(D), Use(p, Tail(down["consumer"])),
         UNCHANGED <<queue, accepted, swallowed, cleared, unacked, brokerSeq>>
  PROVE  CInv'
<1>0. D \in Seq(Shown)
  BY Kinds
<1>1. p \in Shown /\ p \in InD
  BY <1>0, TailFacts DEF InD
<1>2. /\ D' = Tail(D)
      /\ \A r \in InU' : r \in InU \/ (p.level > 0 /\ r.seq = p.seq)
      /\ manual' = manual \/ (p.level > 1 /\ manual'.seq = p.seq)
      /\ given' = IF p.seq \in m_SeqSet THEN given ELSE given \cup ({p.id} \ {NoMsg})
      /\ m_SeqSet' = IF p.level > 0 THEN m_SeqSet \cup {p.seq} ELSE m_SeqSet
  BY <1>1, UseFacts
<1>3. /\ InD = InD' \cup {p} /\ Distinct(D')
      /\ \A q \in InD' : Differ(q, p)
  BY <1>2, PackTaken
<1>4. p.level \in 0 .. 3 /\ p.seq \in NoSeq .. Text
  BY <1>1, ShownFacts
<1>5. brokerSeq \in 0 .. MaxMsgs /\ NoSeq \notin m_SeqSet
  BY Kinds, Constants DEF CInv, Numbers
<1>6. given' = given \cup ({p.id} \ {NoMsg})
  <2>1. CASE p.id = NoMsg
    BY <1>2, <2>1
  <2>2. CASE p.id # NoMsg
    <3>1. p.seq \notin m_SeqSet
      BY <1>1, <1>5, <2>2 DEF CInv, Packs, Fresh
    <3>2. QED
      BY <1>2, <3>1
  <2>3. QED
    BY <2>1, <2>2
<1>7. p.id # NoMsg => p.id \in InA /\ p.id \notin given \cup swallowed \cup InQ
  BY <1>1 DEF CInv, Packs, Fresh
<1>8. Places'
  BY <1>6, <1>7 DEF CInv, Places, InQ, InA
<1>9. Packs'
  <2>1. ASSUME NEW q \in InD', q.id # NoMsg
        PROVE  Fresh(q)'
    <3>1. Fresh(q) /\ q.id # p.id /\ (q.seq # NoSeq => q.seq # p.seq)
      BY <1>3, <2>1 DEF CInv, Packs, Differ
    <3>2. q.id \notin given'
      BY <1>6, <3>1 DEF Fresh
    <3>3. q.seq # NoSeq => q.seq \notin m_SeqSet'
      BY <1>2, <3>1 DEF Fresh
    <3>4. QED
      BY <3>1, <3>2, <3>3 DEF Fresh, InQ, InA
  <2>2. ASSUME NEW q \in InD', q.id = NoMsg
        PROVE  Empty(q)'
    BY <1>3, <2>2 DEF CInv, Packs, Empty
  <2>3. QED
    BY <1>3, <2>1, <2>2 DEF Packs
<1>10. \A n : Settled(n) => Settled(n)'
  BY <1>6 DEF Settled
<1>11. p.level > 0 => Settled(p.seq)'
  <2>1. CASE p.id = NoMsg
    BY <1>1, <2>1 DEF CInv, Packs, Empty, Settled
  <2>2. CASE p.id # NoMsg
    <3>1. Fresh(p) /\ p.id \in given'
      BY <1>1, <1>6, <2>2 DEF CInv, Packs
    <3>2. QED
      BY <3>1 DEF Fresh, Settled
  <2>3. QED
    BY <2>1, <2>2
<1>12. Numbers'
  <2>1. m_SeqSet' \subseteq (0 .. brokerSeq - 1) \cup {Text}
    <3>1. p.level > 0 => p.seq \in (0 .. brokerSeq - 1) \cup {Text}
      <4>1. CASE p.id = NoMsg
        BY <1>1, <4>1 DEF CInv, Packs, Empty
      <4>2. CASE p.id # NoMsg /\ p.level > 0
        <5>1. p.seq # NoSeq /\ p.seq < brokerSeq
          BY <1>1, <4>2 DEF CInv, Packs, Fresh
        <5>2. QED
          BY <1>4, <1>5, <5>1, Constants
      <4>3. QED
        BY <4>1, <4>2
    <3>2. QED
      BY <1>2, <3>1 DEF CInv, Numbers
  <2>2. \A r \in InU' : r.type = "ack" => Settled(r.seq)'
    BY <1>2, <1>10, <1>11 DEF CInv, Numbers
  <2>3. Settled(manual.seq)'
    <3>1. \A n : n = manual'.seq /\ Settled(n)' => Settled(manual.seq)'
      BY DEF Settled
    <3>2. CASE manual' = manual
      BY <1>10, <3>1, <3>2 DEF CInv, Numbers
    <3>3. CASE p.level > 1 /\ manual'.seq = p.seq
      <4>1. p.level > 0
        BY <1>4, <3>3
      <4>2. QED
        BY <1>11, <3>1, <3>3, <4>1
    <3>4. QED
      BY <1>2, <3>2, <3>3
  <2>4. QED
    BY <2>1, <2>2, <2>3 DEF CInv, Numbers
<1>13. AllAccountedFor'
  <2>1. InFlight = {q.id : q \in InD} /\ InFlight' = {q.id : q \in InD'}
    BY DEF InFlight, InD, D, ToSet
  <2>2. InFlight \subseteq InFlight' \cup {p.id}
    BY <1>3, <2>1
  <2>3. ToSet(accepted) \subseteq Ids
    BY Kinds DEF InA
  <2>4. QED
    BY <1>6, <2>2, <2>3, Constants DEF CInv, AllAccountedFor
<1>14. QED
  BY <1>8, <1>9, <1>12, <1>13 DEF CInv

LEMMA ReadingKeepsMessages ==
  ASSUME TInv, CInv, RecvPulled \/ ConsumeMessage
  PROVE  CInv'
<1>1. D # <<>> /\ UNCHANGED <<queue, accepted, swallowed, cleared, unacked, brokerSeq>>
  BY DEF RecvPulled, ConsumeMessage, D, broker, lost
<1>2. CASE Use(Head(D), Tail(down["consumer"]))
  BY <1>1, <1>2, UseKeepsMessages
<1>3. CASE /\ Head(D).type = "reply" /\ down' = [down EXCEPT !["consumer"] = Tail(@)]
           /\ UNCHANGED <<up, manual, m_SeqSet, given>>
  <2>1. D' = Tail(D) /\ InU' = InU
    BY <1>3 DEF D, InU, U, TInv, WiresT, Peers
  <2>2. Head(D) \in InD
    BY <1>1, <2>1, PackTaken
  <2>3. Head(D).id = NoMsg
    BY <1>3, <2>2 DEF CInv, Packs, Fresh
  <2>4. QED
    BY <1>1, <1>3, <2>1, <2>3, ReplyTaken
<1>4. QED
  BY <1>2, <1>3 DEF RecvPulled, ConsumeMessage, D
-----------------------------------------------------------------------------
(* The broker's steps.                                                      *)
LEMMA TakenFacts ==
  ASSUME TInv, NEW c \in Peers, NEW type, Take(c, type), Taken(c)
  PROVE  /\ InU' \subseteq InU
         /\ c = "consumer" => Head(up["consumer"]) \in InU /\ Head(up["consumer"]).type = type
<1>1. CASE c = "consumer"
  <2>1. U # <<>> /\ U' = Tail(U) /\ Head(U).type = type
    BY <1>1 DEF Take, Taken, U, TInv, WiresT
  <2>2. ToSet(U) = ToSet(Tail(U)) \cup {Head(U)}
    BY <2>1, Kinds, TailFacts
  <2>3. QED
    BY <2>1, <2>2 DEF InU, U
<1>2. CASE c # "consumer"
  BY <1>2 DEF Taken, InU, U
<1>3. QED
  BY <1>1, <1>2

LEMMA AnswerFacts ==
  ASSUME TInv, CInv, NEW c \in Peers
  PROVE  /\ \A ok : Answer(c, ok) => /\ Distinct(D')
                                     /\ \A p \in InD' : p \in InD \/ (p.id = NoMsg /\ Empty(p))
                                     /\ InD \subseteq InD'
         /\ \A n : Acknowledge("producer", n) => D' = D
<1>1. \A p : Put("producer", p) => D' = D
  BY DEF Put, D
<1>2. RingFull => D' = D
  BY DEF RingFull, D
<1>3. D' = D => InD' = InD /\ Distinct(D')
  BY DEF InD, CInv, Packs
<1>4. ASSUME NEW ok, Put("consumer", Reply(ok))
      PROVE  Distinct(D') /\ InD' = InD \cup {Reply(ok)} /\ Reply(ok).id = NoMsg /\ Empty(Reply(ok))
  <2>1. D' = Append(D, Reply(ok))
    BY <1>4 DEF Put, D, TInv, WiresT, Peers
  <2>2. Reply(ok) \in Shown /\ Reply(ok).id = NoMsg /\ Empty(Reply(ok))
    BY ReplyIsEmpty
  <2>3. QED
    BY <2>1, <2>2, PackAdded
<1>5. QED
  BY <1>1, <1>2, <1>3, <1>4 DEF Answer, Acknowledge, Peers

LEMMA AnsweredKeepsMessages ==
  ASSUME TInv, CInv, NEW c \in Peers,
         \/ c = "consumer" /\ OnCreateSubscribe
         \/ \E type : OnCreate(c, type)
         \/ OnDeleteExchange(c) \/ OnDeleteQueue(c)
  PROVE  CInv'
<1>1. (\E type : Take(c, type) /\ Taken(c)) /\ \E ok : Answer(c, ok)
  BY DEF OnCreateSubscribe, OnCreate, OnDeleteExchange, OnDeleteQueue
<1>2. /\ InU' \subseteq InU /\ Distinct(D')
      /\ \A p \in InD' : p \in InD \/ (p.id = NoMsg /\ Empty(p))
      /\ InD \subseteq InD'
  BY <1>1, TakenFacts, AnswerFacts
<1>3. UNCHANGED <<accepted, given, swallowed, unacked, brokerSeq, m_SeqSet, manual>>
  BY DEF OnCreateSubscribe, OnCreate, OnDeleteExchange, OnDeleteQueue, Clients, consumer, lost
<1>4. \/ UNCHANGED <<queue, cleared>>
      \/ queue' = <<>> /\ cleared' = cleared \cup ToSet(queue)
  BY DEF OnCreateSubscribe, OnCreate, OnDeleteExchange, OnDeleteQueue
<1>5. CASE UNCHANGED <<queue, cleared>>
  BY <1>2, <1>3, <1>5, MessagesStay
<1>6. CASE queue' = <<>> /\ cleared' = cleared \cup ToSet(queue)
  <2>1. IsInjective(<<>>) /\ ToSet(<<>>) = {}
    BY DEF IsInjective, ToSet
  <2>2. InQ' = {} /\ IsInjective(queue')
    BY <1>6, <2>1 DEF InQ
  <2>3. InQ \subseteq cleared' /\ cleared \subseteq cleared'
    BY <1>6 DEF InQ
  <2>4. QED
    BY <1>2, <1>3, <2>2, <2>3, MessagesStayOrGo
<1>7. QED
  BY <1>4, <1>5, <1>6

(* A message accepted is new: it is nowhere yet.                            *)
LEMMA PublishKeepsMessages ==
  ASSUME TInv, PInv, CInv, OnPublishMessage
  PROVE  CInv'
<1> DEFINE n == Head(up["producer"]).seq
<1>1. /\ UNCHANGED <<given, swallowed, cleared, unacked, brokerSeq, m_SeqSet, manual>>
      /\ Take("producer", "publish") /\ Taken("producer")
  BY DEF OnPublishMessage, Clients, consumer, lost
<1>2. "producer" \in Peers /\ n \in Ids
  BY <1>1, TakeTyped DEF Peers, Asked
<1>3. InU' \subseteq InU
  BY <1>1, <1>2, TakenFacts
<1>4. CASE UNCHANGED <<queue, accepted>>
  <2>1. UNCHANGED down \/ Answer("producer", FALSE) \/ Acknowledge("producer", n)
    BY DEF OnPublishMessage, AcknowledgeDuplicate
  <2>2. /\ Distinct(D')
        /\ \A p \in InD' : p \in InD \/ (p.id = NoMsg /\ Empty(p))
        /\ InD \subseteq InD'
    <3>1. D' = D => InD' = InD /\ Distinct(D')
      BY DEF InD, CInv, Packs
    <3>2. UNCHANGED down => D' = D
      BY DEF D
    <3>3. QED
      BY <1>2, <2>1, <3>1, <3>2, AnswerFacts
  <2>3. QED
    BY <1>1, <1>3, <1>4, <2>2, MessagesStay
<1>5. CASE /\ n \notin producerSeqs /\ queue' = Append(queue, n) /\ accepted' = Append(accepted, n)
           /\ UNCHANGED down \/ Acknowledge("producer", n)
  <2> HIDE DEF n
  <2>1. D' = D /\ InD' = InD
    <3>1. UNCHANGED down => D' = D
      BY DEF D
    <3>2. D' = D
      BY <1>2, <1>5, <3>1, AnswerFacts
    <3>3. QED
      BY <3>2 DEF InD
  <2>2. n \notin InA
    <3>1. InA \subseteq producerSeqs
      BY RangeFacts DEF InA, TInv, AcceptedKnown
    <3>2. QED
      BY <1>5, <3>1
  <2>3. n \notin InQ
    BY <2>2 DEF CInv, Places
  <2>4. InA' = InA \cup {n} /\ InQ' = InQ \cup {n} /\ IsInjective(queue')
    <3>1. ToSet(Append(accepted, n)) = ToSet(accepted) \cup {n}
      BY <1>2, Kinds, AppendFacts
    <3>2. ToSet(Append(queue, n)) = ToSet(queue) \cup {n} /\ IsInjective(Append(queue, n))
      BY <1>2, <2>3, Kinds, AppendFacts DEF CInv, Places, InQ
    <3>3. QED
      BY <1>5, <3>1, <3>2 DEF InA, InQ
  <2>5. Places'
    BY <1>1, <2>2, <2>4 DEF CInv, Places
  <2>6. Packs'
    <3>1. \A p : p.id # n /\ Fresh(p) => Fresh(p)'
      BY <1>1, <2>4 DEF Fresh
    <3>2. \A p \in InD : p.id # NoMsg => p.id # n
      BY <2>2 DEF CInv, Packs, Fresh
    <3>3. \A p : Empty(p) => Empty(p)'
      BY DEF Empty
    <3>4. QED
      BY <2>1, <3>1, <3>2, <3>3 DEF CInv, Packs
  <2>7. Numbers'
    BY <1>1, <1>3 DEF CInv, Numbers, Settled
  <2>8. AllAccountedFor'
    <3>1. InFlight' = InFlight
      BY <2>1 DEF InFlight, D
    <3>2. QED
      BY <1>1, <2>4, <3>1 DEF CInv, AllAccountedFor, InA, InQ
  <2>9. QED
    BY <2>5, <2>6, <2>7, <2>8 DEF CInv
<1>6. QED
  BY <1>4, <1>5 DEF OnPublishMessage, Known

(* The next message of the queue goes to the consumer, with a new number.   *)
LEMMA DeliveryKeepsMessages ==
  ASSUME TInv, CInv, queue # <<>>, NEW type \in {"push", "pull"}, NEW level \in 0 .. 3,
         NEW p, p = Message(type, level, IF level > 0 THEN brokerSeq ELSE NoSeq, Head(queue)),
         Put("consumer", p),
         unacked' = IF level > 0 THEN unacked \cup {[seq |-> brokerSeq, id |-> Head(queue)]}
                    ELSE unacked,
         brokerSeq' = IF level > 0 THEN brokerSeq + 1 ELSE brokerSeq,
         queue' = Tail(queue), InU' \subseteq InU,
         UNCHANGED <<accepted, given, swallowed, cleared, m_SeqSet, manual>>
  PROVE  CInv'
<1> DEFINE n == Head(queue)
<1>1. /\ n \in Ids /\ Tail(queue) \in Seq(Ids) /\ Len(queue) \in Nat /\ Len(queue) > 0
      /\ ToSet(queue) = ToSet(Tail(queue)) \cup {n}
      /\ IsInjective(Tail(queue)) /\ n \notin ToSet(Tail(queue))
  BY Kinds, TailFacts DEF CInv, Places
<1>2. brokerSeq \in Ids /\ brokerSeq \in Nat
  BY <1>1, AcceptedFits, Constants DEF TInv, Counted
<1>3. /\ p.id = n /\ p.type = type /\ p.level = level
      /\ p.seq = IF level > 0 THEN brokerSeq ELSE NoSeq
  BY DEF Message
<1>4. p \in Shown
  <2>1. CASE level > 0
    <3>1. level \in 1 .. 3
      BY <2>1
    <3>2. QED
      BY <1>1, <1>2, <2>1, <3>1, PackTypes
  <2>2. CASE ~(level > 0)
    <3>1. level = 0
      BY <2>2
    <3>2. QED
      BY <1>1, <2>2, <3>1, PackTypes
  <2>3. QED
    BY <2>1, <2>2
<1> DEFINE e == [seq |-> brokerSeq, id |-> n]
<1>5. /\ unacked \subseteq unacked' /\ unacked' \subseteq unacked \cup {e}
      /\ level > 0 => e \in unacked'
      /\ e.seq = brokerSeq /\ e.id = n
  OBVIOUS
<1>6. /\ InQ = InQ' \cup {n} /\ n \notin InQ' /\ IsInjective(queue')
      /\ n \in InQ /\ InQ \subseteq InA /\ n \notin given \cup swallowed /\ InA' = InA
  BY <1>1 DEF InQ, InA, CInv, Places
<1>7. D' = Append(D, p) /\ InD' = InD \cup {p}
  <2>1. D' = Append(D, p)
    BY DEF Put, D, TInv, WiresT, Peers
  <2>2. ToSet(Append(D, p)) = ToSet(D) \cup {p}
    BY <1>4, Kinds, AppendFacts
  <2>3. QED
    BY <2>1, <2>2 DEF InD
<1> HIDE DEF n, e
<1>8. ASSUME NEW q \in InD
      PROVE  /\ q \in Shown /\ (q.seq # NoSeq => q.seq # brokerSeq)
             /\ q.id # NoMsg => /\ Fresh(q) /\ q.id # n
                                /\ q.seq # NoSeq => q.seq < brokerSeq
             /\ q.id = NoMsg => Empty(q)
  <2>1. q \in Shown /\ q.seq \in NoSeq .. Text
    BY Kinds, ShownFacts
  <2>2. CASE q.id = NoMsg
    BY <1>2, <2>1, <2>2, Constants DEF CInv, Packs, Empty
  <2>3. CASE q.id # NoMsg
    <3>1. Fresh(q)
      BY <2>3 DEF CInv, Packs
    <3>2. q.id # n /\ (q.seq # NoSeq => q.seq < brokerSeq)
      BY <1>6, <3>1 DEF Fresh
    <3>3. q.seq # NoSeq => q.seq # brokerSeq
      BY <1>2, <2>1, <3>2
    <3>4. QED
      BY <2>1, <2>3, <3>1, <3>2, <3>3
  <2>4. QED
    BY <2>2, <2>3
<1>9. brokerSeq' \in Nat /\ brokerSeq <= brokerSeq' /\ (level > 0 => brokerSeq < brokerSeq')
  BY <1>2
<1>10. Places'
  BY <1>6 DEF CInv, Places
<1>11. Packs'
  <2>1. Distinct(D')
    <3>1. ASSUME NEW q \in InD
          PROVE  Differ(p, q) /\ Differ(q, p)
      BY <1>1, <1>3, <1>8, Constants DEF Differ
    <3>2. QED
      BY <1>4, <1>7, <3>1, Kinds, DistinctFacts DEF InD, CInv, Packs
  <2>2. ASSUME NEW q \in InD, q.id # NoMsg
        PROVE  Fresh(q)'
    <3>1. Fresh(q) /\ q.id # n /\ q.seq \in NoSeq .. Text
      BY <1>8, <2>2, ShownFacts
    <3>2. q.seq # NoSeq => /\ q.seq < brokerSeq' /\ q.seq # brokerSeq
                           /\ \A f \in unacked' : f.seq = q.seq => f.id = q.id
      <4>1. q.seq # NoSeq => q.seq < brokerSeq /\ q.seq # brokerSeq
        BY <1>8, <2>2
      <4>2. q.seq # NoSeq => q.seq < brokerSeq'
        BY <1>2, <1>9, <3>1, <4>1
      <4>3. q.seq # NoSeq => \A f \in unacked' : f.seq = q.seq => f.id = q.id
        BY <1>5, <3>1, <4>1 DEF Fresh
      <4>4. QED
        BY <4>1, <4>2, <4>3
    <3>3. QED
      BY <1>6, <3>1, <3>2 DEF Fresh
  <2>3. Fresh(p)'
    <3>1. p.seq # NoSeq => p.seq = brokerSeq /\ level > 0
      BY <1>3
    <3>2. brokerSeq \notin m_SeqSet
      BY <1>2, Constants DEF CInv, Numbers
    <3>3. \A f \in unacked' : f.seq = brokerSeq => f.id = n
      BY <1>2, <1>5 DEF CInv, Numbers
    <3>4. level > 0 => p.seq # NoSeq
      BY <1>2, <1>3, Constants
    <3>5. QED
      BY <1>3, <1>6, <1>9, <3>1, <3>2, <3>3, <3>4 DEF Fresh
  <2>4. \A q \in InD : q.id = NoMsg => Empty(q)'
    BY <1>8 DEF Empty
  <2>5. p.id # NoMsg
    BY <1>1, <1>3, Constants
  <2>6. QED
    BY <1>7, <2>1, <2>2, <2>3, <2>4, <2>5 DEF Packs
<1>12. Numbers'
  <2>1. \A f \in unacked : f.seq \in Ids /\ f.seq < brokerSeq
    BY DEF TInv, BrokerT, CInv, Numbers
  <2>2. \A f \in unacked' : f.seq < brokerSeq'
    <3>1. \A f \in unacked : f.seq < brokerSeq'
      BY <1>2, <1>9, <2>1, Constants
    <3>2. ASSUME NEW f \in unacked', f \notin unacked
          PROVE  f.seq < brokerSeq'
      <4>1. f = e /\ level > 0
        BY <1>5, <3>2
      <4>2. QED
        BY <1>5, <1>9, <4>1
    <3>3. QED
      BY <3>1, <3>2
  <2>3. m_SeqSet' \subseteq (0 .. brokerSeq' - 1) \cup {Text}
    BY <1>2, <1>9 DEF CInv, Numbers
  <2>4. \A m \in NoSeq .. Text : Settled(m) => Settled(m)'
    <3>1. ASSUME NEW m \in NoSeq .. Text, Settled(m), m # NoSeq, m # Text
          PROVE  Settled(m)'
      <4>1. m < brokerSeq /\ \A f \in unacked : f.seq = m => f.id \in given
        BY <3>1 DEF Settled
      <4>2. m < brokerSeq' /\ m # brokerSeq
        BY <1>2, <1>9, <4>1, Constants
      <4>3. QED
        BY <1>5, <4>1, <4>2 DEF Settled
    <3>2. QED
      BY <3>1 DEF Settled
  <2>5. manual.seq \in NoSeq .. Text /\ \A q \in InU : q.seq \in NoSeq .. Text
    <3>1. manual.seq \in NoSeq .. MaxMsgs - 1
      BY DEF TInv, ConsumerT
    <3>2. \A q \in Asked : q.seq \in NoSeq .. Text
      BY DEF Asked, UpPacks
    <3>3. QED
      BY <3>1, <3>2, Kinds, Constants
  <2>6. \A q \in InU' : q.type = "ack" => Settled(q.seq)'
    BY <2>4, <2>5 DEF CInv, Numbers
  <2>7. Settled(manual.seq)'
    <3>1. \A m : m = manual.seq /\ Settled(m)' => Settled(manual.seq)'
      BY DEF Settled
    <3>2. QED
      BY <2>4, <2>5, <3>1 DEF CInv, Numbers
  <2>8. QED
    BY <2>2, <2>3, <2>6, <2>7 DEF Numbers
<1>13. AllAccountedFor'
  <2>1. InFlight = {q.id : q \in InD} /\ InFlight' = {q.id : q \in InD'}
    BY DEF InFlight, InD, D, ToSet
  <2>2. InFlight' = InFlight \cup {n}
    BY <1>3, <1>7, <2>1
  <2>3. QED
    BY <1>5, <1>6, <2>2 DEF CInv, AllAccountedFor, InA, InQ
<1>14. QED
  BY <1>10, <1>11, <1>12, <1>13 DEF CInv

LEMMA PushKeepsMessages ==
  ASSUME TInv, CInv, PushMessage
  PROVE  CInv'
<1> DEFINE level == subscribed
           p == Message("push", level, IF level > 0 THEN brokerSeq ELSE NoSeq, Head(queue))
<1>1. subscribed \in 0 .. 3
  BY Constants DEF PushMessage, TInv, BrokerT
<1>2. InU' \subseteq InU
  BY DEF PushMessage, InU, U
<1>3. UNCHANGED <<accepted, given, swallowed, cleared, m_SeqSet, manual>>
  BY DEF PushMessage, Clients, consumer, lost
<1>4. queue # <<>> /\ queue' = Tail(queue)
  BY DEF PushMessage
<1>5. /\ Put("consumer", p)
      /\ unacked' = IF level > 0 THEN unacked \cup {[seq |-> brokerSeq, id |-> Head(queue)]}
                    ELSE unacked
      /\ brokerSeq' = IF level > 0 THEN brokerSeq + 1 ELSE brokerSeq
  <2>1. CASE subscribed > 0
    BY <2>1 DEF PushMessage
  <2>2. CASE ~(subscribed > 0)
    <3>1. subscribed = 0
      BY <1>1, <2>2
    <3>2. QED
      BY <2>2, <3>1 DEF PushMessage
  <2>3. QED
    BY <2>1, <2>2
<1>6. QED
  BY <1>1, <1>2, <1>3, <1>4, <1>5, DeliveryKeepsMessages

LEMMA PullKeepsMessages ==
  ASSUME TInv, CInv, OnRecvMessage
  PROVE  CInv'
<1>1. "consumer" \in Peers
  BY DEF Peers
<1>2. UNCHANGED <<accepted, given, swallowed, cleared, m_SeqSet, manual>>
  BY DEF OnRecvMessage, Clients, consumer, lost
<1>3. InU' \subseteq InU
  BY <1>1, TakenFacts DEF OnRecvMessage
<1>4. PICK level \in 0 .. 3 : level = Head(up["consumer"]).level
  <2>1. Head(up["consumer"]).level \in 0 .. 3
    BY <1>1, TakeTyped DEF OnRecvMessage, Asked, UpPacks
  <2>2. QED
    BY <2>1
<1>5. CASE queue = <<>>
  <2>1. Answer("consumer", FALSE) /\ UNCHANGED <<queue, unacked, brokerSeq>>
    BY <1>5 DEF OnRecvMessage
  <2>2. QED
    BY <1>1, <1>2, <1>3, <2>1, AnswerFacts, MessagesStay
<1>6. CASE queue # <<>>
  <2>1. /\ Put("consumer", Message("pull", level, IF level > 0 THEN brokerSeq ELSE NoSeq, Head(queue)))
        /\ queue' = Tail(queue)
        /\ unacked' = IF level > 0
                      THEN unacked \cup {[seq |-> brokerSeq, id |-> Head(queue)]} ELSE unacked
        /\ brokerSeq' = IF level > 0 THEN brokerSeq + 1 ELSE brokerSeq
    BY <1>4, <1>6 DEF OnRecvMessage
  <2>2. QED
    BY <1>2, <1>3, <1>6, <2>1, DeliveryKeepsMessages
<1>7. QED
  BY <1>5, <1>6

(* An acknowledgement removes the message of one number, which was given.   *)
LEMMA AckedKeepsMessages ==
  ASSUME TInv, CInv, OnClientAck
  PROVE  CInv'
<1> DEFINE gone == Covers(Head(up["consumer"]))
<1>1. /\ InU' \subseteq InU /\ Head(up["consumer"]) \in InU /\ Head(up["consumer"]).type = "ack"
  BY TakenFacts DEF OnClientAck, Peers
<1>2. /\ unacked' = unacked \ gone
      /\ UNCHANGED <<down, queue, accepted, given, swallowed, cleared, brokerSeq, m_SeqSet, manual>>
  BY DEF OnClientAck, Clients, consumer, lost
<1>3. \A e \in gone : e.id \in given
  <2>1. Settled(Head(up["consumer"]).seq)
    BY <1>1 DEF CInv, Numbers
  <2>2. \A e \in unacked : e.seq # NoSeq /\ e.seq # Text
    BY Constants DEF TInv, BrokerT
  <2>3. QED
    BY <2>1, <2>2 DEF Covers, Settled
<1> HIDE DEF gone
<1>4. D' = D /\ InD' = InD /\ InFlight' = InFlight
  BY <1>2 DEF D, InD, InFlight
<1>5. Places'
  BY <1>2, <1>3 DEF CInv, Places, InQ, InA
<1>6. Packs'
  <2>1. \A q : (Fresh(q) => Fresh(q)') /\ (Empty(q) => Empty(q)')
    BY <1>2 DEF Fresh, Empty, InA, InQ
  <2>2. QED
    BY <1>4, <2>1 DEF CInv, Packs
<1>7. Numbers'
  BY <1>1, <1>2 DEF CInv, Numbers, Settled
<1>8. AllAccountedFor'
  BY <1>2, <1>3, <1>4 DEF CInv, AllAccountedFor
<1>9. QED
  BY <1>5, <1>6, <1>7, <1>8 DEF CInv
-----------------------------------------------------------------------------
LEMMA InitAccounted ==
  ASSUME Init
  PROVE  CInv
<1>1. ToSet(<<>>) = {} /\ Len(<<>>) = 0 /\ IsInjective(<<>>)
  BY DEF ToSet, IsInjective
<1>2. U = <<>> /\ D = <<>> /\ InU = {} /\ InD = {} /\ InQ = {} /\ InA = {}
  BY <1>1 DEF Init, U, D, InU, InD, InQ, InA, Peers
<1>3. Places /\ Packs
  BY <1>1, <1>2 DEF Init, Places, Packs, Distinct
<1>4. Numbers
  BY <1>2 DEF Init, Numbers, Settled
<1>5. AllAccountedFor
  BY <1>1 DEF Init, AllAccountedFor
<1>6. QED
  BY <1>3, <1>4, <1>5 DEF CInv

LEMMA NextAccounted ==
  ASSUME TInv, PInv, CInv, [Next]_vars
  PROVE  CInv'
<1>1. CASE UNCHANGED vars
  <2>1. InU' = InU /\ InD' = InD /\ Distinct(D')
    BY <1>1 DEF InU, U, InD, D, CInv, Packs, vars
  <2>2. QED
    BY <1>1, <2>1, MessagesStay DEF vars
<1>2. CASE RecvStep \/ RecvPulled
  BY <1>2, RecvReplyKeepsMessages, ReadingKeepsMessages DEF RecvStep
<1>3. CASE ClientStep
  <2>1. \A c \in Peers, what \in Asks, level \in 0 .. 3 : Call(c, what, level) => CInv'
    BY CallKeepsMessages
  <2>2. 0 \in 0 .. 3 /\ SubscribeLevels \subseteq 0 .. 3 /\ PullLevels \subseteq 0 .. 3
    BY Constants
  <2>3. /\ \A c \in Peers : CreateExchange(c) \/ CreateQueue(c) \/ CreateBinding(c)
                            \/ DeleteExchange(c) \/ DeleteQueue(c) => CInv'
        /\ \A level \in SubscribeLevels : CreateSubscribe(level) => CInv'
        /\ \A level \in PullLevels : RecvMessage(level) => CInv'
        /\ CancelSubscribe => CInv'
    BY <2>1, <2>2 DEF CreateExchange, CreateQueue, CreateBinding, DeleteExchange, DeleteQueue, Ask,
       CreateSubscribe, RecvMessage, CancelSubscribe, Asks, Peers
  <2>4. QED
    BY <1>3, <2>3, ProducerKeepsMessages, ReadingKeepsMessages, AckKeepsMessages DEF ClientStep
<1>4. CASE BrokerStep
  <2>1. "consumer" \in Peers
    BY DEF Peers
  <2>2. QED
    BY <1>4, <2>1, PublishKeepsMessages, ProducerKeepsMessages, PushKeepsMessages, PullKeepsMessages,
       AckedKeepsMessages, AnsweredKeepsMessages DEF BrokerStep
<1>5. QED
  BY <1>1, <1>2, <1>3, <1>4 DEF Next

\* The inductive invariant: what is on the consumer's wires, and which of its
\* numbers it may acknowledge.
THEOREM Accounted == Spec => []CInv
<1>1. Init => CInv
  BY InitAccounted
<1>2. TInv /\ PInv /\ CInv /\ [Next]_vars => CInv'
  BY NextAccounted
<1>3. QED
  BY <1>1, <1>2, TypesHold, TakenInOrder, PTL DEF Spec

\* A message accepted is in the queue, unacknowledged, on its way, with the
\* application, gone with its queue, or was taken by a request for its reply.
THEOREM NoMessageVanishes == Spec => []AllAccountedFor
<1>1. CInv => AllAccountedFor
  BY DEF CInv
<1>2. QED
  BY <1>1, Accounted, PTL
=============================================================================
